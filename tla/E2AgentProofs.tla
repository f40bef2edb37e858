---------------------------- MODULE E2AgentProofs ----------------------------
(***************************************************************************)
(* Theorems about E2Agent, for every value of the constants.               *)
(***************************************************************************)
EXTENDS E2Agent, FiniteSetTheorems, WellFoundedInduction, TLAPS

-----------------------------------------------------------------------------
(* Sequences.                                                               *)

LEMMA ConcatFacts ==
    ASSUME NEW a \in Seq(Ids), NEW b \in Seq(Ids)
    PROVE  /\ a \o b \in Seq(Ids) /\ Len(a \o b) = Len(a) + Len(b)
           /\ \A j \in 1 .. Len(a) + Len(b) :
                 (a \o b)[j] = IF j <= Len(a) THEN a[j] ELSE b[j - Len(a)]
  OBVIOUS

LEMMA WithoutFacts ==
    ASSUME NEW s \in Seq(Ids), NEW i \in DOMAIN s
    PROVE  /\ Without(s, i) \in Seq(Ids)
           /\ Len(Without(s, i)) = Len(s) - 1
           /\ \A j \in 1 .. Len(s) - 1 : Without(s, i)[j] = IF j < i THEN s[j] ELSE s[j + 1]
<1>1. i \in 1 .. Len(s) /\ Len(s) \in Nat
  OBVIOUS
<1> DEFINE a == SubSeq(s, 1, i - 1)
           b == SubSeq(s, i + 1, Len(s))
<1>2. a \in Seq(Ids) /\ Len(a) = i - 1 /\ \A j \in 1 .. i - 1 : a[j] = s[j]
  BY <1>1
<1>3. b \in Seq(Ids) /\ Len(b) = Len(s) - i /\ \A j \in 1 .. Len(s) - i : b[j] = s[j + i]
  BY <1>1
<1>4. Without(s, i) = a \o b
  BY Zenon DEF Without
<1> HIDE DEF a, b
<1>5. /\ a \o b \in Seq(Ids) /\ Len(a \o b) = Len(s) - 1
      /\ \A j \in 1 .. Len(s) - 1 : (a \o b)[j] = IF j < i THEN s[j] ELSE s[j + 1]
  <2>1. Len(s) \in Nat /\ i \in Nat /\ 1 <= i /\ i <= Len(s)
    BY <1>1
  <2>2. /\ a \o b \in Seq(Ids) /\ Len(a \o b) = Len(a) + Len(b)
        /\ \A j \in 1 .. Len(a) + Len(b) :
              (a \o b)[j] = IF j <= Len(a) THEN a[j] ELSE b[j - Len(a)]
    BY <1>2, <1>3, ConcatFacts
  <2>3. Len(a) + Len(b) = Len(s) - 1
    BY <1>2, <1>3, <2>1
  <2>4. ASSUME NEW j \in 1 .. Len(s) - 1
        PROVE  (a \o b)[j] = IF j < i THEN s[j] ELSE s[j + 1]
    <3>1. (a \o b)[j] = IF j <= i - 1 THEN a[j] ELSE b[j - (i - 1)]
      BY <1>2, <2>2, <2>3
    <3>2. CASE j < i
      <4>1. j \in 1 .. i - 1 /\ j <= i - 1
        BY <2>1, <3>2
      <4>2. a[j] = s[j]
        BY <1>2, <4>1
      <4> QED
        BY <3>1, <3>2, <4>1, <4>2
    <3>3. CASE j >= i
      <4>1. j - (i - 1) \in 1 .. Len(s) - i
        BY <2>1, <3>3
      <4>2. b[j - (i - 1)] = s[j - (i - 1) + i]
        BY <1>3, <4>1
      <4>3. j - (i - 1) + i = j + 1
        BY <2>1
      <4> QED
        BY <2>1, <3>1, <3>3, <4>2, <4>3
    <3>4. j < i \/ j >= i
      BY <2>1
    <3> QED
      BY <3>2, <3>3, <3>4, Zenon
  <2> QED
    BY <2>2, <2>3, <2>4
<1> QED
  BY <1>4, <1>5, Zenon

LEMMA AppendFacts ==
    ASSUME NEW s \in Seq(Ids), NEW e \in Ids
    PROVE  /\ Append(s, e) \in Seq(Ids) /\ Len(Append(s, e)) = Len(s) + 1
           /\ Append(s, e)[Len(s) + 1] = e
           /\ \A j \in 1 .. Len(s) : Append(s, e)[j] = s[j]
  OBVIOUS

LEMMA TailFacts ==
    ASSUME NEW s \in Seq(Ids), s # <<>>
    PROVE  /\ Head(s) \in Ids /\ Head(s) = s[1]
           /\ Tail(s) \in Seq(Ids) /\ Len(Tail(s)) = Len(s) - 1 /\ Len(s) > 0
           /\ \A j \in 1 .. Len(s) - 1 : Tail(s)[j] = s[j + 1]
  OBVIOUS

LEMMA OccurrencesType ==
    ASSUME NEW s \in Seq(Ids), NEW id
    PROVE  /\ IsFiniteSet({i \in DOMAIN s : s[i] = id})
           /\ Occurrences(s, id) \in Nat
           /\ Occurrences(s, id) = 0 <=> \A i \in DOMAIN s : s[i] # id
<1>1. DOMAIN s = 1 .. Len(s) /\ Len(s) \in Nat
  OBVIOUS
<1>2. IsFiniteSet(1 .. Len(s))
  BY <1>1, FS_Interval
<1>3. IsFiniteSet({i \in DOMAIN s : s[i] = id})
  BY <1>1, <1>2, FS_Subset
<1> QED
  BY <1>3, FS_CardinalityType, FS_EmptySet DEF Occurrences

LEMMA OccurrencesAppend ==
    ASSUME NEW s \in Seq(Ids), NEW e \in Ids, NEW id
    PROVE  Occurrences(Append(s, e), id) = Occurrences(s, id) + (IF e = id THEN 1 ELSE 0)
<1> DEFINE A == {i \in DOMAIN s : s[i] = id}
           B == {i \in DOMAIN Append(s, e) : Append(s, e)[i] = id}
<1>1. IsFiniteSet(A) /\ Cardinality(A) \in Nat
  BY OccurrencesType, FS_CardinalityType
<1>2. DOMAIN s = 1 .. Len(s) /\ DOMAIN Append(s, e) = 1 .. Len(s) + 1 /\ Len(s) \in Nat
  OBVIOUS
<1>3. CASE e = id
  <2>1. B = A \cup {Len(s) + 1} /\ Len(s) + 1 \notin A
    BY <1>2, <1>3, AppendFacts
  <2> QED
    BY <1>1, <1>3, <2>1, FS_AddElement DEF Occurrences
<1>4. CASE e # id
  <2>1. B = A
    BY <1>2, <1>4, AppendFacts
  <2>2. Occurrences(Append(s, e), id) = Cardinality(B) /\ Occurrences(s, id) = Cardinality(A)
    BY DEF Occurrences
  <2> HIDE DEF A, B
  <2> QED
    BY <1>1, <1>4, <2>1, <2>2
<1> QED
  BY <1>3, <1>4

LEMMA OccurrencesWithout ==
    ASSUME NEW s \in Seq(Ids), NEW k \in DOMAIN s, NEW id
    PROVE  Occurrences(Without(s, k), id) =
               Occurrences(s, id) - (IF s[k] = id THEN 1 ELSE 0)
<1> DEFINE w == Without(s, k)
           A == {i \in DOMAIN s : s[i] = id}
           B == {j \in DOMAIN w : w[j] = id}
           f == [j \in B |-> IF j < k THEN j ELSE j + 1]
<1>1. /\ DOMAIN s = 1 .. Len(s) /\ Len(s) \in Nat /\ k \in 1 .. Len(s)
      /\ DOMAIN w = 1 .. Len(s) - 1
      /\ \A j \in 1 .. Len(s) - 1 : w[j] = IF j < k THEN s[j] ELSE s[j + 1]
  <2>1. /\ w \in Seq(Ids) /\ Len(w) = Len(s) - 1
        /\ \A j \in 1 .. Len(s) - 1 : w[j] = IF j < k THEN s[j] ELSE s[j + 1]
    BY WithoutFacts, Zenon
  <2> HIDE DEF w
  <2> QED
    BY <2>1
<1>2. IsFiniteSet(A) /\ Cardinality(A) \in Nat /\ IsFiniteSet(A \ {k})
  <2>1. IsFiniteSet(A)
    BY OccurrencesType, Zenon
  <2> QED
    BY <2>1, FS_CardinalityType, FS_RemoveElement, Zenon
<1>3. w \in Seq(Ids) /\ IsFiniteSet(B)
  BY WithoutFacts, OccurrencesType, Zenon
<1> HIDE DEF w
<1>4. f \in [B -> A \ {k}]
  BY <1>1
<1>5. \A a, b \in B : f[a] = f[b] => a = b
  BY <1>1
<1>6. \A t \in A \ {k} : \E j \in B : f[j] = t
  <2> TAKE t \in A \ {k}
  <2>1. CASE t < k
    <3>1. t \in B /\ f[t] = t
      BY <1>1, <2>1
    <3> QED
      BY <3>1
  <2>2. CASE t > k
    <3>1. t - 1 \in B /\ f[t - 1] = t
      BY <1>1, <2>2
    <3> QED
      BY <3>1
  <2>3. t \in Nat /\ k \in Nat /\ t # k
    BY <1>1
  <2> QED
    BY <2>1, <2>2, <2>3
<1>7. ExistsBijection(B, A \ {k})
  <2>1. f \in Bijection(B, A \ {k})
    BY <1>4, <1>5, <1>6 DEF Bijection, Injection, Surjection, IsInjective
  <2> QED
    BY <2>1 DEF ExistsBijection
<1>8. Cardinality(A \ {k}) = Cardinality(B)
  BY <1>3, <1>7, FS_Bijection
<1>9. Cardinality(A \ {k}) = IF k \in A THEN Cardinality(A) - 1 ELSE Cardinality(A)
  BY <1>2, FS_RemoveElement
<1>10. k \in A <=> s[k] = id
  BY <1>1
<1> QED
  BY <1>2, <1>8, <1>9, <1>10 DEF Occurrences, w

-----------------------------------------------------------------------------
(* Type correctness.                                                        *)

RanRecord ==
    [at: {"idle", "walk", "search", "push", "write"}, list: Lists \cup {"none"},
     i: Nat, n: Nat, id: Ids \cup {0}, left: Nat, tries: Nat]

USE DEF RanRecord

\* The message of a step of a handler.
HandlerInv ==
    /\ agent.at \in {"list", "register"} => agent.msg.op = "sub"
    /\ agent.at = "list" => agent.msg.id \in Aperiodic
    /\ agent.at = "register" => agent.msg.id \in Ids
    /\ agent.at \in {"find", "unlist", "extract", "extracting"} => agent.msg.op = "del"
    /\ agent.at = "answer" => agent.msg.op \in {"sub", "del", "control"}

\* What a RAN thread has read of the list.
RanInv ==
    /\ ran.at # "idle" => ran.i > 0 /\ ran.list \in Lists
    /\ ran.at \in {"search", "push", "write"} => ran.id \in Aperiodic

\* Only aperiodic subscriptions are in the lists.
ListInv == \A l \in Lists : \A i \in DOMAIN rc_subs[l] : rc_subs[l][i] \in Aperiodic

\* The indications that are taken or queued, and not yet sent.
QueueInv ==
    /\ batch # <<>> <=> agent.at \in {"send", "consume"}
    /\ unsent = Len(aind) + Len(batch) - (IF agent.at = "consume" THEN 1 ELSE 0)

TypeInv == TypeOK /\ HandlerInv /\ RanInv /\ ListInv /\ QueueInv

LEMMA MessageFacts ==
    /\ SetupResponse \in Message /\ Shutdown \in Message
    /\ \A m \in Message : m.op \in {"sub", "del", "control"} => m.id \in Ids
    /\ \A id \in Ids, op \in {"sub", "del", "control"} : [op |-> op, id |-> id] \in Message
  BY DEF SetupResponse, Shutdown, Message

LEMMA FirstStepFacts ==
    ASSUME NEW m \in Message
    PROVE  /\ m.op \in {"sub", "del", "control"} => m.id \in Ids
           /\ \/ m.op = "sub" /\ m.id \in Aperiodic /\ FirstStep(m) = "list"
              \/ m.op = "sub" /\ m.id \notin Aperiodic /\ FirstStep(m) = "register"
              \/ m.op = "del" /\ FirstStep(m) = "find"
              \/ m.op = "control" /\ FirstStep(m) = "answer"
              \/ m.op = "setup response" /\ m = SetupResponse /\ FirstStep(m) = "stop setup"
              \/ m.op = "shutdown" /\ m = Shutdown /\ FirstStep(m) = "add setup"
  BY DEF Message, FirstStep, SetupResponse, Shutdown

LEMMA LengthFacts ==
    ASSUME NEW s \in Seq(Ids)
    PROVE  Len(s) \in Nat /\ (s = <<>> <=> Len(s) = 0)
  OBVIOUS

LEMMA TypeFacts ==
    ASSUME TypeOK
    PROVE  /\ batch \in Seq(Ids) /\ setups \in Nat
           /\ ran \in RanRecord
           /\ ind_event \in Seq(Ids) /\ rc_subs \in [Lists -> Seq(Ids)] /\ aind \in Seq(Ids)
           /\ listed \in Seq(Lists) /\ repeated \subseteq Ids
           /\ pipe \in Nat /\ inbox \in Seq(Message) /\ owed \in Nat
           /\ unsent \in Nat /\ requests \in Nat /\ signals \in Nat /\ resends \in Nat /\ losses \in Nat
           /\ aborted \in Assertions \cup {"no"}
  BY Zenon DEF TypeOK, RanRecord

LEMMA InitType == Init => TypeInv
<1> SUFFICES ASSUME Init PROVE TypeInv
  OBVIOUS
<1>1. agent.at = "idle" /\ agent.msg \in Message /\ agent = [at |-> "idle", msg |-> agent.msg]
  BY MessageFacts DEF Init, LoopIdle
<1>2. ran = RanIdle
  BY DEF Init
<1>3. /\ batch \in Seq(Ids) /\ ind_event \in Seq(Ids) /\ rc_subs \in [Lists -> Seq(Ids)]
      /\ aind \in Seq(Ids) /\ listed \in Seq(Lists) /\ repeated \subseteq Ids
      /\ inbox \in Seq(Message) /\ Len(batch) = 0 /\ Len(aind) = 0
      /\ \A l \in Lists : rc_subs[l] = <<>>
  BY DEF Init
<1>4. TypeOK
  <2>1. edge \in BOOLEAN /\ ready \in BOOLEAN /\ up \in BOOLEAN
    BY DEF Init
  <2>2. agent \in [at: {"idle", "list", "register", "answer", "find", "unlist", "extract",
                       "extracting", "stop setup", "add setup", "send", "consume"},
                  msg: Message]
    BY <1>1
  <2>3. ran \in RanRecord
    BY <1>2 DEF RanIdle
  <2>4. /\ setups \in Nat /\ pipe \in Nat /\ owed \in Nat /\ used \subseteq Ids
        /\ served \subseteq Ids /\ aborted \in Assertions \cup {"no"}
        /\ unsent \in Nat /\ requests \in Nat /\ signals \in Nat /\ resends \in Nat
        /\ losses \in Nat
    BY DEF Init
  <2> QED
    BY <1>3, <2>1, <2>2, <2>3, <2>4, Zenon DEF TypeOK, RanRecord
<1>5. HandlerInv
  BY <1>1 DEF HandlerInv
<1>6. RanInv /\ ListInv
  BY <1>2, <1>3 DEF RanIdle, RanInv, ListInv
<1>7. QueueInv
  BY <1>1, <1>3 DEF Init, QueueInv
<1> QED
  BY <1>4, <1>5, <1>6, <1>7 DEF TypeInv

LEMMA ReadMessageType == TypeInv /\ ReadMessage => TypeInv'
<1> SUFFICES ASSUME TypeInv, ReadMessage PROVE TypeInv'
  OBVIOUS
<1>1. Head(inbox) \in Message /\ Tail(inbox) \in Seq(Message) /\ agent.at = "idle"
  <2>1. inbox \in Seq(Message)
    BY DEF TypeInv, TypeOK
  <2>2. inbox # <<>> /\ agent.at = "idle"
    BY DEF ReadMessage, Reported, LoopAt
  <2> QED
    BY <2>1, <2>2
<1>2. agent'.msg \in Message /\ agent'.at = FirstStep(agent'.msg)
      /\ agent' = [at |-> agent'.at, msg |-> agent'.msg]
  BY <1>1 DEF ReadMessage
<1>3. TypeOK'
  BY <1>1, <1>2, FirstStepFacts DEF TypeInv, TypeOK, ReadMessage, maps, channel, ric, history
<1>4. HandlerInv'
  BY <1>2, FirstStepFacts DEF HandlerInv
<1>5. RanInv' /\ ListInv'
  BY DEF TypeInv, RanInv, ListInv, ReadMessage, maps
<1>6. QueueInv'
  BY <1>1, <1>2, FirstStepFacts DEF TypeInv, QueueInv, ReadMessage, channel, history
<1> QED
  BY <1>3, <1>4, <1>5, <1>6 DEF TypeInv

\* A step that changes nothing but the step of the loop.
LEMMA UnchangedType ==
    ASSUME TypeOK,
           agent' \in [at: {"idle", "list", "register", "answer", "find", "unlist", "extract",
                           "extracting", "stop setup", "add setup", "send", "consume"},
                      msg: Message],
           UNCHANGED <<batch, setups, ran, ind_event, rc_subs, listed, repeated, aind, pipe,
                       edge, inbox, ready, owed, up, used, served, aborted, unsent, requests,
                       signals, resends, losses>>
    PROVE  TypeOK'
<1>1. /\ batch' \in Seq(Ids) /\ setups' \in Nat
      /\ ran' \in RanRecord
      /\ ind_event' \in Seq(Ids) /\ rc_subs' \in [Lists -> Seq(Ids)] /\ aind' \in Seq(Ids)
      /\ listed' \in Seq(Lists) /\ repeated' \subseteq Ids /\ pipe' \in Nat
  BY Zenon DEF TypeOK, RanRecord
<1>2. edge' \in BOOLEAN /\ inbox' \in Seq(Message) /\ ready' \in BOOLEAN
      /\ owed' \in Nat /\ up' \in BOOLEAN /\ used' \subseteq Ids /\ served' \subseteq Ids
  BY Zenon DEF TypeOK
<1>3. /\ aborted' \in Assertions \cup {"no"}
      /\ unsent' \in Nat /\ requests' \in Nat /\ signals' \in Nat /\ resends' \in Nat
      /\ losses' \in Nat
  BY Zenon DEF TypeOK
<1> QED
  BY <1>1, <1>2, <1>3, Zenon DEF TypeOK, RanRecord

LEMMA GoesType ==
    ASSUME TypeOK, NEW step, LoopGoes(step),
           step \in {"idle", "list", "register", "answer", "find", "unlist", "extract",
                     "extracting", "stop setup", "add setup", "send", "consume"}
    PROVE  /\ agent' \in [at: {"idle", "list", "register", "answer", "find", "unlist", "extract",
                                "extracting", "stop setup", "add setup", "send", "consume"},
                           msg: Message]
           /\ agent'.at = step /\ agent'.msg = agent.msg
  BY DEF TypeOK, LoopGoes

LEMMA IdleType ==
    ASSUME agent' = LoopIdle
    PROVE  /\ agent' \in [at: {"idle", "list", "register", "answer", "find", "unlist", "extract",
                                "extracting", "stop setup", "add setup", "send", "consume"},
                           msg: Message]
           /\ agent'.at = "idle"
  BY MessageFacts DEF LoopIdle

\* A step of a handler that goes on with the message, or ends it.
HandlerStep(step) ==
    /\ agent.at \notin {"send", "consume"} /\ step \notin {"send", "consume"}
    /\ agent'.at = step
    /\ UNCHANGED <<batch, ran, channel, unsent>>

LEMMA HandlerQueue ==
    ASSUME TypeInv, NEW step, HandlerStep(step)
    PROVE  QueueInv' /\ RanInv'
  BY DEF TypeInv, QueueInv, RanInv, HandlerStep, channel

LEMMA ListParameterType == TypeInv /\ ListParameter => TypeInv'
<1> SUFFICES ASSUME TypeInv, ListParameter PROVE TypeInv'
  OBVIOUS
<1>1. /\ TypeOK /\ agent.at = "list" /\ agent.msg.op = "sub" /\ agent.msg.id \in Aperiodic
      /\ agent.msg.id \in Ids /\ agent' = agent
  BY KindsAssumption DEF TypeInv, HandlerInv, ListParameter, LoopAt
<1>2. PICK l \in Lists :
         /\ rc_subs' = [rc_subs EXCEPT ![l] = Append(rc_subs[l], agent.msg.id)]
         /\ listed' = Append(listed, l)
         /\ repeated' = repeated \cup {agent.msg.id} \/ repeated' = repeated
  BY DEF ListParameter
<1>3. rc_subs \in [Lists -> Seq(Ids)] /\ listed \in Seq(Lists) /\ repeated \subseteq Ids
  BY <1>1, TypeFacts
<1>4. rc_subs[l] \in Seq(Ids) /\ Append(rc_subs[l], agent.msg.id) \in Seq(Ids)
  BY <1>1, <1>3
<1>5. /\ rc_subs' \in [Lists -> Seq(Ids)] /\ rc_subs'[l] = Append(rc_subs[l], agent.msg.id)
      /\ \A k \in Lists \ {l} : rc_subs'[k] = rc_subs[k]
  BY <1>2, <1>3, <1>4
<1>6. listed' \in Seq(Lists) /\ repeated' \subseteq Ids
  BY <1>1, <1>2, <1>3
<1>7. ListInv'
  <2>1. SUFFICES ASSUME NEW k \in Lists, NEW i \in DOMAIN rc_subs'[k]
                 PROVE  rc_subs'[k][i] \in Aperiodic
    BY DEF ListInv
  <2>2. CASE k # l
    BY <1>5, <2>2 DEF TypeInv, ListInv
  <2>3. CASE k = l
    <3>1. i \in 1 .. Len(rc_subs[l]) + 1 /\ Len(rc_subs[l]) \in Nat
      BY <1>4, <1>5, <2>3
    <3>2. CASE i = Len(rc_subs[l]) + 1
      BY <1>1, <1>4, <1>5, <2>3, <3>2, AppendFacts
    <3>3. CASE i \in 1 .. Len(rc_subs[l])
      <4>1. rc_subs'[k][i] = rc_subs[l][i] /\ i \in DOMAIN rc_subs[l]
        BY <1>1, <1>4, <1>5, <2>3, <3>3, AppendFacts
      <4> QED
        BY <4>1 DEF TypeInv, ListInv
    <3> QED
      BY <3>1, <3>2, <3>3
  <2> QED
    BY <2>2, <2>3
<1>8. TypeOK'
  BY <1>1, <1>5, <1>6 DEF TypeOK, ListParameter, channel, socket, ric, history
<1>9. HandlerInv'
  BY <1>1 DEF TypeInv, HandlerInv
<1>10. HandlerStep("list")
  BY <1>1 DEF HandlerStep, ListParameter, history
<1> QED
  BY <1>7, <1>8, <1>9, <1>10, HandlerQueue DEF TypeInv

LEMMA EndOfReportType == TypeInv /\ EndOfReport => TypeInv'
<1> SUFFICES ASSUME TypeInv, EndOfReport PROVE TypeInv'
  OBVIOUS
<1>1. /\ TypeOK /\ agent.at = "list" /\ agent.msg.op = "sub" /\ agent.msg.id \in Aperiodic
      /\ agent.msg.id \in Ids /\ LoopGoes("register")
  BY KindsAssumption DEF TypeInv, HandlerInv, EndOfReport, LoopAt
<1>2. TypeOK'
  BY <1>1, GoesType, UnchangedType DEF EndOfReport, maps, channel, socket, ric, history
<1>3. HandlerInv' /\ ListInv'
  <2>1. agent'.at = "register" /\ agent'.msg = agent.msg /\ rc_subs' = rc_subs
    BY <1>1, GoesType DEF EndOfReport, maps
  <2> QED
    BY <1>1, <2>1 DEF TypeInv, HandlerInv, ListInv
<1>4. HandlerStep("register")
  BY <1>1, GoesType DEF HandlerStep, EndOfReport, history
<1> QED
  BY <1>2, <1>3, <1>4, HandlerQueue DEF TypeInv

LEMMA WrongStyleType == TypeInv /\ WrongStyle => TypeInv'
<1> SUFFICES ASSUME TypeInv, WrongStyle PROVE TypeInv'
  OBVIOUS
<1>1. TypeOK /\ agent.at = "list" /\ aborted' \in Assertions \cup {"no"}
  BY DEF TypeInv, WrongStyle, LoopAt, Abort, Assertions
<1>2. TypeOK'
  BY <1>1 DEF TypeOK, WrongStyle, loopVars, maps, channel, socket, ric, history
<1>3. HandlerInv' /\ ListInv'
  BY DEF TypeInv, HandlerInv, ListInv, WrongStyle, loopVars, maps
<1>4. HandlerStep("list")
  BY <1>1 DEF HandlerStep, WrongStyle, loopVars, history
<1> QED
  BY <1>2, <1>3, <1>4, HandlerQueue DEF TypeInv

LEMMA RegisterEventType == TypeInv /\ RegisterEvent => TypeInv'
<1> SUFFICES ASSUME TypeInv, RegisterEvent PROVE TypeInv'
  OBVIOUS
<1>1. TypeOK /\ agent.at = "register" /\ agent.msg.op = "sub" /\ agent.msg.id \in Ids
  BY DEF TypeInv, HandlerInv, RegisterEvent, LoopAt
<1>2. ind_event' \in Seq(Ids) /\ listed' \in Seq(Lists)
  <2>1. ind_event \in Seq(Ids) /\ ind_event' = Append(ind_event, agent.msg.id) /\ listed' = <<>>
    BY <1>1 DEF TypeOK, RegisterEvent
  <2> QED
    BY <1>1, <2>1
<1>3. LoopGoes("answer")
  BY DEF RegisterEvent
<1>4. TypeOK'
  BY <1>1, <1>2, <1>3, GoesType DEF TypeOK, RegisterEvent, channel, socket, ric, history
<1>5. HandlerInv' /\ ListInv'
  <2>1. agent'.at = "answer" /\ agent'.msg = agent.msg
    BY <1>1, <1>3 DEF TypeOK, LoopGoes
  <2> QED
    BY <1>1, <2>1 DEF TypeInv, HandlerInv, ListInv, RegisterEvent
<1>6. HandlerStep("answer")
  BY <1>1, <1>3, GoesType DEF HandlerStep, RegisterEvent, history
<1> QED
  BY <1>4, <1>5, <1>6, HandlerQueue DEF TypeInv

LEMMA AnswerType == TypeInv /\ Answer => TypeInv'
<1> SUFFICES ASSUME TypeInv, Answer PROVE TypeInv'
  OBVIOUS
<1>1. TypeOK /\ agent.at = "answer" /\ agent' = LoopIdle
  BY DEF TypeInv, Answer, LoopAt
<1>2. served' \subseteq Ids
  BY <1>1 DEF TypeOK, Answer
<1>3. TypeOK'
  BY <1>1, <1>2, IdleType DEF TypeOK, Answer, maps, channel, socket, history
<1>4. HandlerInv' /\ ListInv'
  BY <1>1, IdleType DEF TypeInv, HandlerInv, ListInv, Answer, maps
<1>5. HandlerStep("idle")
  BY <1>1, IdleType DEF HandlerStep, Answer, history
<1> QED
  BY <1>3, <1>4, <1>5, HandlerQueue DEF TypeInv

LEMMA FindEventType == TypeInv /\ FindEvent => TypeInv'
<1> SUFFICES ASSUME TypeInv, FindEvent PROVE TypeInv'
  OBVIOUS
<1>1. TypeOK /\ agent.at = "find" /\ agent.msg.op = "del"
  BY DEF TypeInv, HandlerInv, FindEvent, LoopAt
<1>2. PICK step \in {"answer", "unlist", "extract"} : LoopGoes(step)
  BY DEF FindEvent
<1>3. TypeOK'
  <2>1. agent' \in [at: {"idle", "list", "register", "answer", "find", "unlist", "extract",
                        "extracting", "stop setup", "add setup", "send", "consume"},
                   msg: Message]
    BY <1>1, <1>2, GoesType
  <2> QED
    BY <1>1, <2>1, UnchangedType DEF FindEvent, maps, channel, socket, ric, history
<1>4. HandlerInv' /\ ListInv'
  BY <1>1, <1>2, GoesType DEF TypeInv, HandlerInv, ListInv, FindEvent, maps
<1>5. HandlerStep(step)
  BY <1>1, <1>2, GoesType DEF HandlerStep, FindEvent, history
<1> QED
  BY <1>3, <1>4, <1>5, HandlerQueue DEF TypeInv

\* A set of numbers that is not empty has a smallest element.
LEMMA SmallestExists ==
    ASSUME NEW S, S \subseteq Nat, S # {}
    PROVE  \E i \in S : \A j \in S : i <= j
<1> DEFINE R == OpToRel(<, Nat)
<1>1. \A x, y \in Nat : x < y => <<x, y>> \in R
  BY DEF OpToRel
<1>2. IsWellFoundedOn(R, Nat)
  BY NatLessThanWellFounded
<1> HIDE DEF R
<1>3. PICK x \in S : \A y \in S : ~ (<<y, x>> \in R)
  BY <1>2, WFMin
<1>4. ASSUME NEW y \in S PROVE x <= y
  <2>1. x \in Nat /\ y \in Nat
    OBVIOUS
  <2>2. ~ (y < x)
    BY <1>1, <1>3, <2>1
  <2> QED
    BY <2>1, <2>2
<1> QED
  BY <1>4

LEMMA UnlistedFacts ==
    ASSUME NEW s \in Seq(Ids), NEW id
    PROVE  \/ Unlisted(s, id) = s /\ \A i \in DOMAIN s : s[i] # id
           \/ \E i \in DOMAIN s : s[i] = id /\ Unlisted(s, id) = Without(s, i)
<1> DEFINE at == {i \in DOMAIN s : s[i] = id}
<1>1. CASE at = {}
  BY <1>1 DEF Unlisted
<1>2. CASE at # {}
  <2>1. at \subseteq Nat /\ at # {}
    BY <1>2
  <2>2. \E i \in at : \A j \in at : i <= j
    BY <2>1, SmallestExists
  <2>3. PICK i \in at : i = CHOOSE k \in at : \A j \in at : k <= j
    BY <2>2, Zenon
  <2>4. Unlisted(s, id) = Without(s, i)
    BY <1>2, <2>3 DEF Unlisted
  <2> QED
    BY <2>3, <2>4
<1> QED
  BY <1>1, <1>2

\* What is left of a list was in it.
LEMMA UnlistedType ==
    ASSUME NEW s \in Seq(Ids), NEW id, \A i \in DOMAIN s : s[i] \in Aperiodic
    PROVE  /\ Unlisted(s, id) \in Seq(Ids)
           /\ \A i \in DOMAIN Unlisted(s, id) : Unlisted(s, id)[i] \in Aperiodic
<1>1. CASE Unlisted(s, id) = s
  BY <1>1
<1>2. ASSUME NEW k \in DOMAIN s, Unlisted(s, id) = Without(s, k)
      PROVE  /\ Unlisted(s, id) \in Seq(Ids)
             /\ \A i \in DOMAIN Unlisted(s, id) : Unlisted(s, id)[i] \in Aperiodic
  <2> DEFINE u == Unlisted(s, id)
  <2>1. /\ u \in Seq(Ids) /\ Len(u) = Len(s) - 1
        /\ \A j \in 1 .. Len(s) - 1 : u[j] = IF j < k THEN s[j] ELSE s[j + 1]
    BY <1>2, WithoutFacts, Zenon
  <2> HIDE DEF u
  <2>2. \A i \in DOMAIN u : u[i] \in Aperiodic
    BY <2>1
  <2> QED
    BY <2>1, <2>2 DEF u
<1> QED
  BY <1>1, <1>2, UnlistedFacts

LEMMA UnlistSubscriptionType == TypeInv /\ UnlistSubscription => TypeInv'
<1> SUFFICES ASSUME TypeInv, UnlistSubscription PROVE TypeInv'
  OBVIOUS
<1>1. /\ TypeOK /\ agent.at = "unlist" /\ agent.msg.op = "del" /\ ListInv
      /\ rc_subs \in [Lists -> Seq(Ids)]
  BY DEF TypeInv, TypeOK, HandlerInv, UnlistSubscription, LoopAt
<1>2. rc_subs' = [l \in Lists |-> Unlisted(rc_subs[l], agent.msg.id)]
  BY DEF UnlistSubscription
<1>3. ASSUME NEW l \in Lists
      PROVE  /\ rc_subs'[l] = Unlisted(rc_subs[l], agent.msg.id) /\ rc_subs'[l] \in Seq(Ids)
             /\ \A i \in DOMAIN rc_subs'[l] : rc_subs'[l][i] \in Aperiodic
  <2>1. rc_subs[l] \in Seq(Ids) /\ \A i \in DOMAIN rc_subs[l] : rc_subs[l][i] \in Aperiodic
    BY <1>1 DEF ListInv
  <2>2. rc_subs'[l] = Unlisted(rc_subs[l], agent.msg.id)
    BY <1>2
  <2> QED
    BY <2>1, <2>2, UnlistedType
<1>4. rc_subs' \in [Lists -> Seq(Ids)] /\ ListInv'
  BY <1>2, <1>3 DEF ListInv
<1>5. LoopGoes("extract") /\ agent'.at = "extract" /\ agent'.msg = agent.msg
  BY <1>1 DEF UnlistSubscription, LoopGoes, TypeOK
<1>6. TypeOK'
  BY <1>1, <1>4, <1>5, GoesType DEF TypeOK, UnlistSubscription, channel, socket, ric, history
<1>7. HandlerInv'
  BY <1>1, <1>5 DEF HandlerInv
<1>8. HandlerStep("extract")
  BY <1>1, <1>5 DEF HandlerStep, UnlistSubscription, history
<1> QED
  BY <1>4, <1>6, <1>7, <1>8, HandlerQueue DEF TypeInv

LEMMA BeginExtractType == TypeInv /\ BeginExtract => TypeInv'
<1> SUFFICES ASSUME TypeInv, BeginExtract PROVE TypeInv'
  OBVIOUS
<1>1. TypeOK /\ agent.at = "extract" /\ agent.msg.op = "del"
  BY DEF TypeInv, HandlerInv, BeginExtract, LoopAt
<1>2. LoopGoes("extracting") /\ agent'.at = "extracting" /\ agent'.msg = agent.msg
  BY <1>1 DEF BeginExtract, LoopGoes, TypeOK
<1>3. TypeOK'
  BY <1>1, <1>2, GoesType DEF TypeOK, BeginExtract, maps, channel, socket, ric, history
<1>4. HandlerInv' /\ ListInv'
  BY <1>1, <1>2 DEF TypeInv, HandlerInv, ListInv, BeginExtract, maps
<1>5. HandlerStep("extracting")
  BY <1>1, <1>2 DEF HandlerStep, BeginExtract, history
<1> QED
  BY <1>3, <1>4, <1>5, HandlerQueue DEF TypeInv

LEMMA SameDescriptorFacts ==
    ASSUME NEW id, NEW i \in SameDescriptor(id)
    PROVE  i \in DOMAIN ind_event /\ (ind_event[i] = id \/ {ind_event[i], id} \subseteq Aperiodic)
  BY DEF SameDescriptor, Entries

LEMMA EndExtractType == TypeInv /\ EndExtract => TypeInv'
<1> SUFFICES ASSUME TypeInv, EndExtract PROVE TypeInv'
  OBVIOUS
<1>1. TypeOK /\ agent.at = "extracting" /\ agent.msg.op = "del" /\ ind_event \in Seq(Ids)
  BY DEF TypeInv, TypeOK, HandlerInv, EndExtract, LoopAt
<1>2. PICK i \in SameDescriptor(agent.msg.id) :
         \/ /\ ind_event[i] = agent.msg.id /\ UNCHANGED aborted
            /\ ind_event' = Without(ind_event, i) /\ LoopGoes("answer")
         \/ /\ ind_event[i] # agent.msg.id /\ UNCHANGED <<ind_event, agent>>
            /\ Abort("maps disagree")
  BY DEF EndExtract
<1>3. i \in DOMAIN ind_event
  BY SameDescriptorFacts
<1>4. CASE UNCHANGED aborted /\ ind_event' = Without(ind_event, i) /\ LoopGoes("answer")
  <2>1. ind_event' \in Seq(Ids)
    BY <1>1, <1>3, <1>4, WithoutFacts, Zenon
  <2>2. agent'.at = "answer" /\ agent'.msg = agent.msg
    BY <1>1, <1>4 DEF LoopGoes, TypeOK
  <2>3. TypeOK'
    BY <1>1, <1>4, <2>1, GoesType DEF TypeOK, EndExtract, channel, socket, ric, history
  <2>4. HandlerInv' /\ ListInv'
    BY <1>1, <2>2 DEF TypeInv, HandlerInv, ListInv, EndExtract
  <2>5. HandlerStep("answer")
    BY <1>1, <2>2 DEF HandlerStep, EndExtract, history
  <2> QED
    BY <2>3, <2>4, <2>5, HandlerQueue DEF TypeInv
<1>5. CASE UNCHANGED <<ind_event, agent>> /\ Abort("maps disagree")
  <2>1. TypeOK'
    BY <1>1, <1>5 DEF TypeOK, EndExtract, Abort, Assertions, channel, socket, ric, history
  <2>2. HandlerInv' /\ ListInv'
    BY <1>5 DEF TypeInv, HandlerInv, ListInv, EndExtract
  <2>3. HandlerStep("extracting")
    BY <1>1, <1>5 DEF HandlerStep, EndExtract, history
  <2> QED
    BY <2>1, <2>2, <2>3, HandlerQueue DEF TypeInv
<1> QED
  BY <1>2, <1>4, <1>5

LEMMA StopSetupType == TypeInv /\ StopSetup => TypeInv'
<1> SUFFICES ASSUME TypeInv, StopSetup PROVE TypeInv'
  OBVIOUS
<1>1. TypeOK /\ agent.at = "stop setup"
  BY DEF TypeInv, StopSetup, LoopAt
<1>2. CASE setups > 0 /\ setups' = setups - 1 /\ agent' = LoopIdle /\ UNCHANGED aborted
  <2>1. TypeOK'
    <3>1. setups \in Nat
      BY <1>1 DEF TypeOK
    <3>2. setups' \in Nat
      BY <1>2, <3>1
    <3> QED
      BY <1>1, <1>2, <3>2, IdleType DEF TypeOK, StopSetup, maps, channel, socket, ric, history
  <2>2. HandlerInv' /\ ListInv'
    BY <1>2, IdleType DEF TypeInv, HandlerInv, ListInv, StopSetup, maps
  <2>3. HandlerStep("idle")
    BY <1>1, <1>2, IdleType DEF HandlerStep, StopSetup, history
  <2> QED
    BY <2>1, <2>2, <2>3, HandlerQueue DEF TypeInv
<1>3. CASE setups = 0 /\ Abort("no pending setup") /\ UNCHANGED <<setups, agent>>
  <2>1. TypeOK'
    BY <1>1, <1>3 DEF TypeOK, StopSetup, Abort, Assertions, maps, channel, socket, ric, history
  <2>2. HandlerInv' /\ ListInv'
    BY <1>3 DEF TypeInv, HandlerInv, ListInv, StopSetup, maps
  <2>3. HandlerStep("stop setup")
    BY <1>1, <1>3 DEF HandlerStep, StopSetup, history
  <2> QED
    BY <2>1, <2>2, <2>3, HandlerQueue DEF TypeInv
<1> QED
  BY <1>2, <1>3 DEF StopSetup

LEMMA AddSetupType == TypeInv /\ AddSetup => TypeInv'
<1> SUFFICES ASSUME TypeInv, AddSetup PROVE TypeInv'
  OBVIOUS
<1>1. TypeOK /\ agent.at = "add setup" /\ agent' = LoopIdle
  BY DEF TypeInv, AddSetup, LoopAt
<1>2. TypeOK'
  <2>1. setups \in Nat
    BY <1>1 DEF TypeOK
  <2>2. setups' = setups + 1
    BY DEF AddSetup
  <2>3. setups' \in Nat
    BY <2>1, <2>2
  <2> QED
    BY <1>1, <2>3, IdleType DEF TypeOK, AddSetup, maps, channel, socket, ric, history
<1>3. HandlerInv' /\ ListInv'
  BY <1>1, IdleType DEF TypeInv, HandlerInv, ListInv, AddSetup, maps
<1>4. HandlerStep("idle")
  BY <1>1, IdleType DEF HandlerStep, AddSetup, history
<1> QED
  BY <1>2, <1>3, <1>4, HandlerQueue DEF TypeInv

LEMMA SetupTimeoutType == TypeInv /\ SetupTimeout => TypeInv'
<1> SUFFICES ASSUME TypeInv, SetupTimeout PROVE TypeInv'
  OBVIOUS
<1>1. TypeOK /\ agent.at = "idle"
  BY DEF TypeInv, SetupTimeout, LoopAt
<1>2. owed' \in Nat /\ resends' \in Nat /\ aborted' \in Assertions \cup {"no"}
  <2>1. owed \in Nat /\ resends \in Nat
    BY <1>1, TypeFacts
  <2>2. resends' = resends + 1 /\ (owed' = owed + 1 \/ owed' = owed)
    BY DEF SetupTimeout
  <2>3. owed' \in Nat /\ resends' \in Nat
    BY <2>1, <2>2
  <2>4. aborted \in Assertions \cup {"no"}
    BY <1>1, TypeFacts
  <2>5. aborted' = aborted \/ aborted' = "two pending setups"
    BY DEF SetupTimeout, Abort
  <2>6. aborted' \in Assertions \cup {"no"}
    BY <2>4, <2>5, Zenon DEF Assertions
  <2> QED
    BY <2>3, <2>6
<1>3. TypeOK'
  BY <1>1, <1>2 DEF TypeOK, SetupTimeout, loopVars, maps, channel, socket
<1>4. HandlerInv' /\ ListInv'
  BY DEF TypeInv, HandlerInv, ListInv, SetupTimeout, loopVars, maps
<1>5. HandlerStep("idle")
  BY <1>1 DEF HandlerStep, SetupTimeout, loopVars
<1> QED
  BY <1>3, <1>4, <1>5, HandlerQueue DEF TypeInv

LEMMA TakeBatchType == TypeInv /\ TakeBatch => TypeInv'
<1> SUFFICES ASSUME TypeInv, TakeBatch PROVE TypeInv'
  OBVIOUS
<1>1. /\ TypeOK /\ agent.at = "idle" /\ batch = <<>> /\ unsent = Len(aind) /\ aind \in Seq(Ids)
      /\ aind' = <<>> /\ edge' = FALSE /\ unsent' = unsent
  <2>1. TypeOK /\ agent.at = "idle" /\ batch = <<>> /\ aind \in Seq(Ids)
        /\ aind' = <<>> /\ edge' = FALSE /\ unsent' = unsent
    BY DEF TypeInv, TypeOK, QueueInv, TakeBatch, LoopAt, history
  <2> QED
    BY <2>1 DEF TypeInv, QueueInv
<1>2. CASE aind # <<>> /\ batch' = aind /\ LoopGoes("send") /\ UNCHANGED aborted
  <2>1. agent'.at = "send" /\ agent'.msg = agent.msg
    BY <1>1, <1>2 DEF LoopGoes, TypeOK
  <2>2. TypeOK'
    BY <1>1, <1>2, GoesType DEF TypeOK, TakeBatch, maps, socket, ric, history
  <2>3. HandlerInv' /\ ListInv' /\ RanInv'
    BY <2>1 DEF TypeInv, HandlerInv, ListInv, RanInv, TakeBatch, maps
  <2>4. QueueInv'
    BY <1>1, <1>2, <2>1 DEF QueueInv
  <2> QED
    BY <2>2, <2>3, <2>4 DEF TypeInv
<1>3. CASE aind = <<>> /\ Abort("queue is empty") /\ UNCHANGED <<batch, agent>>
  <2>1. TypeOK'
    BY <1>1, <1>3 DEF TypeOK, TakeBatch, Abort, Assertions, maps, socket, ric, history
  <2>2. HandlerInv' /\ ListInv' /\ RanInv'
    BY <1>3 DEF TypeInv, HandlerInv, ListInv, RanInv, TakeBatch, maps
  <2>3. QueueInv'
    BY <1>1, <1>3 DEF QueueInv, TypeInv
  <2> QED
    BY <2>1, <2>2, <2>3 DEF TypeInv
<1> QED
  BY <1>2, <1>3 DEF TakeBatch

LEMMA SendIndicationType == TypeInv /\ SendIndication => TypeInv'
<1> SUFFICES ASSUME TypeInv, SendIndication PROVE TypeInv'
  OBVIOUS
<1>1. TypeOK /\ agent.at = "send" /\ LoopGoes("consume") /\ unsent' = unsent - 1
  BY DEF TypeInv, SendIndication, LoopAt
<1>2. agent'.at = "consume" /\ agent'.msg = agent.msg
  BY <1>1 DEF LoopGoes, TypeOK
<1>3. batch # <<>> /\ batch \in Seq(Ids) /\ aind \in Seq(Ids) /\ unsent = Len(aind) + Len(batch)
  <2>1. batch \in Seq(Ids) /\ aind \in Seq(Ids) /\ Len(aind) \in Nat /\ Len(batch) \in Nat
    BY <1>1, TypeFacts, LengthFacts
  <2>2. QueueInv
    BY DEF TypeInv
  <2> QED
    BY <1>1, <2>1, <2>2 DEF QueueInv
<1>4. unsent' \in Nat /\ unsent' = Len(aind) + Len(batch) - 1
  BY <1>1, <1>3
<1>5. TypeOK'
  BY <1>1, <1>4, GoesType DEF TypeOK, SendIndication, maps, channel, socket, ric
<1>6. HandlerInv' /\ ListInv' /\ RanInv'
  BY <1>2 DEF TypeInv, HandlerInv, ListInv, RanInv, SendIndication, maps
<1>7. QueueInv'
  BY <1>2, <1>3, <1>4 DEF QueueInv, SendIndication, channel
<1> QED
  BY <1>5, <1>6, <1>7 DEF TypeInv

LEMMA ConsumePipeFacts ==
    ASSUME TypeOK, ConsumePipe
    PROVE  \E bytes \in Nat :
              /\ bytes = (IF pipe < 4 THEN pipe ELSE 4) /\ pipe' = pipe - bytes /\ pipe' \in Nat
              /\ \/ /\ bytes # 1 /\ UNCHANGED aborted
                    /\ batch' = Tail(batch)
                    /\ agent' = IF Len(batch) = 1 THEN LoopIdle ELSE [agent EXCEPT !.at = "send"]
                 \/ bytes = 1 /\ Abort("no bytes in the pipe") /\ UNCHANGED <<batch, agent>>
<1> DEFINE bytes == IF pipe < 4 THEN pipe ELSE 4
<1>1. pipe \in Nat
  BY DEF TypeOK
<1>2. /\ pipe' = pipe - bytes
      /\ \/ /\ bytes # 1 /\ UNCHANGED aborted
            /\ batch' = Tail(batch)
            /\ agent' = IF Len(batch) = 1 THEN LoopIdle ELSE [agent EXCEPT !.at = "send"]
         \/ bytes = 1 /\ Abort("no bytes in the pipe") /\ UNCHANGED <<batch, agent>>
  BY DEF ConsumePipe, ReadSize
<1>3. bytes \in Nat /\ pipe - bytes \in Nat
  BY <1>1
<1> HIDE DEF bytes
<1>4. bytes = (IF pipe < 4 THEN pipe ELSE 4)
  BY DEF bytes
<1> QED
  BY <1>2, <1>3, <1>4, Zenon

LEMMA ConsumePipeType == TypeInv /\ ConsumePipe => TypeInv'
<1> SUFFICES ASSUME TypeInv, ConsumePipe PROVE TypeInv'
  OBVIOUS
<1>1. TypeOK /\ agent.at = "consume"
  BY DEF TypeInv, ConsumePipe, LoopAt
<1>2. /\ batch # <<>> /\ batch \in Seq(Ids) /\ aind \in Seq(Ids)
      /\ unsent = Len(aind) + Len(batch) - 1 /\ unsent' = unsent /\ aind' = aind
  BY <1>1 DEF TypeInv, TypeOK, QueueInv, ConsumePipe, history
<1>3. PICK bytes \in Nat :
         /\ pipe' = pipe - bytes /\ pipe' \in Nat
         /\ \/ /\ UNCHANGED aborted
               /\ batch' = Tail(batch)
               /\ agent' = IF Len(batch) = 1 THEN LoopIdle ELSE [agent EXCEPT !.at = "send"]
            \/ Abort("no bytes in the pipe") /\ UNCHANGED <<batch, agent>>
  BY <1>1, ConsumePipeFacts
<1>4. CASE /\ UNCHANGED aborted /\ batch' = Tail(batch)
           /\ agent' = IF Len(batch) = 1 THEN LoopIdle ELSE [agent EXCEPT !.at = "send"]
  <2>1. batch' \in Seq(Ids) /\ Len(batch') = Len(batch) - 1 /\ Len(batch) \in Nat \ {0}
    BY <1>2, <1>4
  <2>2. /\ agent' \in [at: {"idle", "list", "register", "answer", "find", "unlist", "extract",
                             "extracting", "stop setup", "add setup", "send", "consume"},
                        msg: Message]
        /\ agent'.at = IF Len(batch) = 1 THEN "idle" ELSE "send"
    <3>1. CASE Len(batch) = 1
      BY <1>4, <3>1, IdleType
    <3>2. CASE Len(batch) # 1
      BY <1>1, <1>4, <3>2, GoesType DEF LoopGoes
    <3> QED
      BY <3>1, <3>2
  <2>3. TypeOK'
    BY <1>1, <1>3, <1>4, <2>1, <2>2 DEF TypeOK, ConsumePipe, maps, socket, ric, history
  <2>4. HandlerInv' /\ ListInv' /\ RanInv'
    BY <2>2 DEF TypeInv, HandlerInv, ListInv, RanInv, ConsumePipe, maps
  <2>5. QueueInv'
    <3>1. Len(batch') = 0 <=> batch' = <<>>
      BY <2>1, LengthFacts
    <3>2. batch' # <<>> <=> Len(batch) # 1
      BY <2>1, <3>1
    <3>3. Len(aind) \in Nat
      BY <1>2
    <3>4. unsent' = Len(aind') + Len(batch')
      BY <1>2, <2>1, <3>3
    <3>5. Len(aind') \in Nat /\ Len(batch') \in Nat
      BY <1>2, <2>1, LengthFacts
    <3>6. agent'.at # "consume" /\ (agent'.at \in {"send", "consume"} <=> Len(batch) # 1)
      BY <2>2
    <3>7. unsent' = Len(aind') + Len(batch') - (IF agent'.at = "consume" THEN 1 ELSE 0)
      BY <3>4, <3>5, <3>6
    <3> QED
      BY <3>2, <3>6, <3>7, Zenon DEF QueueInv
  <2> QED
    BY <2>3, <2>4, <2>5 DEF TypeInv
<1>5. CASE Abort("no bytes in the pipe") /\ UNCHANGED <<batch, agent>>
  <2>1. TypeOK'
    BY <1>1, <1>3, <1>5 DEF TypeOK, ConsumePipe, Abort, Assertions, maps, socket, ric, history
  <2>2. HandlerInv' /\ ListInv' /\ RanInv'
    BY <1>5 DEF TypeInv, HandlerInv, ListInv, RanInv, ConsumePipe, maps
  <2>3. QueueInv'
    BY <1>2, <1>5 DEF QueueInv, TypeInv
  <2> QED
    BY <2>1, <2>2, <2>3 DEF TypeInv
<1> QED
  BY <1>3, <1>4, <1>5

\* The RAN thread goes on; the loop and the messages stay as they are.
RanStep == UNCHANGED <<agent, batch, setups, ind_event, rc_subs, listed, repeated, inbox,
                       ready, owed, up, used, served, requests, resends, losses>>

LEMMA RanQueue ==
    ASSUME TypeInv, RanStep, aind' \in Seq(Ids), unsent' \in Nat,
           unsent' - unsent = Len(aind') - Len(aind)
    PROVE  QueueInv'
<1>1. /\ Len(batch) \in Nat /\ Len(aind) \in Nat /\ Len(aind') \in Nat /\ unsent \in Nat
      /\ agent' = agent /\ batch' = batch
  BY TypeFacts, LengthFacts DEF TypeInv, RanStep
<1>2. QueueInv
  BY DEF TypeInv
<1> QED
  BY <1>1, <1>2 DEF QueueInv

LEMMA RanStepType ==
    ASSUME TypeInv, RanStep,
           ran' \in RanRecord,
           RanInv', aind' \in Seq(Ids), pipe' \in Nat, edge' \in BOOLEAN,
           aborted' \in Assertions \cup {"no"}, unsent' \in Nat, signals' \in Nat,
           unsent' - unsent = Len(aind') - Len(aind)
    PROVE  TypeInv'
<1>1. TypeOK'
  BY DEF TypeInv, TypeOK, RanStep
<1>2. HandlerInv' /\ ListInv'
  BY DEF TypeInv, HandlerInv, ListInv, RanStep
<1>3. QueueInv'
  BY RanQueue, Zenon
<1> QED
  BY <1>1, <1>2, <1>3 DEF TypeInv

\* Nothing of the channel changes.
LEMMA WalkType ==
    ASSUME TypeInv, RanStep,
           ran' \in RanRecord,
           RanInv', UNCHANGED <<aind, pipe, edge, unsent>>, signals' \in Nat,
           aborted' \in Assertions \cup {"no"}
    PROVE  TypeInv'
<1>1. /\ aind \in Seq(Ids) /\ pipe \in Nat /\ edge \in BOOLEAN /\ unsent \in Nat
  BY DEF TypeInv, TypeOK
<1>2. Len(aind) \in Nat /\ unsent' - unsent = Len(aind') - Len(aind)
  BY <1>1
<1> QED
  BY <1>1, <1>2, RanStepType

LEMMA SignalType == TypeInv /\ Signal => TypeInv'
<1> SUFFICES ASSUME TypeInv, Signal PROVE TypeInv'
  OBVIOUS
<1>1. /\ rc_subs \in [Lists -> Seq(Ids)] /\ signals \in Nat
      /\ aborted \in Assertions \cup {"no"}
  BY TypeFacts DEF TypeInv
<1>2. PICK l \in Lists : ran' = [at |-> "walk", list |-> l, i |-> 1, n |-> Len(rc_subs[l]),
                                  id |-> 0, left |-> 0, tries |-> 0]
  BY DEF Signal, RanIdle
<1>3. RanInv'
  BY <1>2 DEF RanInv
<1>4. RanStep /\ UNCHANGED <<aind, pipe, edge, unsent, aborted>> /\ signals' = signals + 1
  BY DEF Signal, RanStep, loopVars, maps, channel, socket, ric
<1>5. Len(rc_subs[l]) \in Nat
  BY <1>1
<1>6. ran' \in RanRecord
  BY <1>2, <1>5
<1> QED
  BY <1>1, <1>3, <1>4, <1>6, WalkType

LEMMA NextEntryType ==
    ASSUME TypeOK, ran.at # "idle", RanInv, NextEntry
    PROVE  ran' \in RanRecord /\ RanInv' /\ ran'.at = "walk"
<1>1. ran \in RanRecord
  BY TypeFacts
<1>2. ran' = [ran EXCEPT !.at = "walk", !.i = ran.i + 1, !.id = 0, !.left = 0]
  BY DEF NextEntry
<1>3. ran.list \in Lists /\ ran.i \in Nat
  BY <1>1 DEF RanInv
<1>4. ran' = [at |-> "walk", list |-> ran.list, i |-> ran.i + 1, n |-> ran.n, id |-> 0,
              left |-> 0, tries |-> ran.tries]
  BY <1>1, <1>2
<1>5. ran.n \in Nat /\ ran.tries \in Nat
  BY <1>1
<1>6. ran' \in RanRecord
  BY <1>3, <1>4, <1>5
<1> QED
  BY <1>3, <1>4, <1>6 DEF RanInv

LEMMA ReadEntryType == TypeInv /\ ReadEntry => TypeInv'
<1> SUFFICES ASSUME TypeInv, ReadEntry PROVE TypeInv'
  OBVIOUS
<1>1. /\ TypeOK /\ rc_subs \in [Lists -> Seq(Ids)] /\ ListInv /\ ran.at = "walk"
      /\ ran.i \in Nat \ {0} /\ ran.list \in Lists /\ signals \in Nat /\ RanInv
      /\ ran \in RanRecord
      /\ aborted \in Assertions \cup {"no"}
  <2>1. TypeOK /\ ListInv /\ RanInv /\ ran.at = "walk"
    BY DEF TypeInv, ReadEntry, RanAt
  <2>2. ran \in RanRecord /\ rc_subs \in [Lists -> Seq(Ids)] /\ signals \in Nat
        /\ aborted \in Assertions \cup {"no"}
    BY <2>1, TypeFacts
  <2> QED
    BY <2>1, <2>2 DEF RanInv
<1>2. RanStep /\ UNCHANGED <<aind, pipe, edge, unsent, signals>>
  BY DEF ReadEntry, RanStep, loopVars, maps, channel, socket, ric, history
<1>3. ran' \in RanRecord /\ RanInv' /\ aborted' \in Assertions \cup {"no"}
  <2>1. CASE ran' = RanIdle /\ UNCHANGED aborted
    BY <1>1, <2>1 DEF RanIdle, RanInv
  <2>2. CASE Abort("list index") /\ UNCHANGED ran
    BY <1>1, <2>2 DEF Abort, Assertions, RanInv
  <2>3. ASSUME ran.i <= Len(Walked), UNCHANGED aborted, NEW k \in 1 .. Conditions[Walked[ran.i]],
               ran' = [ran EXCEPT !.at = "search", !.id = Walked[ran.i], !.left = k]
        PROVE  ran' \in RanRecord /\ RanInv' /\ aborted' \in Assertions \cup {"no"}
    <3>1. Walked = rc_subs[ran.list] /\ Walked \in Seq(Ids)
      BY <1>1 DEF Walked
    <3>2. ran.i \in DOMAIN Walked
      BY <1>1, <2>3, <3>1
    <3>3. Walked[ran.i] \in Aperiodic /\ Walked[ran.i] \in Ids
      BY <1>1, <3>1, <3>2 DEF ListInv
    <3>4. Conditions[Walked[ran.i]] \in Nat
      BY <3>3, ReportsAssumption
    <3>5. k \in Nat
      BY <3>4
    <3>6. ran' \in RanRecord /\ ran'.i = ran.i /\ ran'.list = ran.list
          /\ ran'.id = Walked[ran.i]
      BY <1>1, <2>3, <3>3, <3>5
    <3> QED
      BY <1>1, <2>3, <3>3, <3>6 DEF RanInv
  <2>4. CASE UNCHANGED aborted /\ NextEntry
    <3>1. ran.at # "idle"
      BY <1>1
    <3> QED
      BY <1>1, <2>4, <3>1, NextEntryType
  <2> QED
    BY <2>1, <2>2, <2>3, <2>4 DEF ReadEntry
<1> QED
  BY <1>1, <1>2, <1>3, WalkType

LEMMA SearchEventType == TypeInv /\ SearchEvent => TypeInv'
<1> SUFFICES ASSUME TypeInv, SearchEvent PROVE TypeInv'
  OBVIOUS
<1>1. /\ TypeOK /\ ran.at = "search" /\ signals \in Nat /\ RanInv
      /\ ran \in RanRecord
      /\ aborted \in Assertions \cup {"no"}
  BY DEF TypeInv, TypeOK, SearchEvent, RanAt
<1>2. RanStep /\ UNCHANGED <<aind, pipe, edge, unsent, signals>>
  BY DEF SearchEvent, RanStep, loopVars, maps, channel, socket, ric, history
<1>3. ran' \in RanRecord /\ RanInv'
  <2>1. \/ ran' = [ran EXCEPT !.at = "push", !.tries = 0]
        \/ ran' = [ran EXCEPT !.tries = ran.tries + 1]
    BY DEF SearchEvent
  <2>2. CASE ran' = [ran EXCEPT !.at = "push", !.tries = 0]
    BY <1>1, <2>2 DEF RanInv
  <2>3. CASE ran' = [ran EXCEPT !.tries = ran.tries + 1]
    BY <1>1, <2>3 DEF RanInv
  <2> QED
    BY <2>1, <2>2, <2>3
<1>4. aborted' \in Assertions \cup {"no"}
  BY <1>1 DEF SearchEvent, Abort, Assertions
<1> QED
  BY <1>1, <1>2, <1>3, <1>4, WalkType

LEMMA PushEventType == TypeInv /\ PushEvent => TypeInv'
<1> SUFFICES ASSUME TypeInv, PushEvent PROVE TypeInv'
  OBVIOUS
<1>1. /\ TypeOK /\ ran.at = "push" /\ signals \in Nat /\ RanInv /\ ran.id \in Ids
      /\ ran \in RanRecord
      /\ aborted \in Assertions \cup {"no"} /\ aind \in Seq(Ids) /\ pipe \in Nat
      /\ edge \in BOOLEAN /\ unsent \in Nat
  BY KindsAssumption DEF TypeInv, TypeOK, RanInv, PushEvent, RanAt
<1>2. RanStep /\ UNCHANGED <<pipe, edge, signals, aborted>>
  BY DEF PushEvent, RanStep, loopVars, maps, socket, ric
<1>3. aind' = Append(aind, ran.id) /\ unsent' = unsent + 1 /\ ran' = [ran EXCEPT !.at = "write"]
  BY DEF PushEvent
<1>4. aind' \in Seq(Ids) /\ Len(aind') = Len(aind) + 1 /\ Len(aind) \in Nat
  BY <1>1, <1>3
<1>5. unsent' \in Nat /\ unsent' - unsent = Len(aind') - Len(aind)
  BY <1>1, <1>3, <1>4
<1>6. /\ ran' \in RanRecord
      /\ RanInv'
  BY <1>1, <1>3 DEF RanInv
<1> QED
  BY <1>1, <1>2, <1>4, <1>5, <1>6, RanStepType

LEMMA DigitsType == \A id : Digits(id) \in Nat
  BY DEF Digits

\* The RAN thread goes on with the next condition, or with the next entry.
LEMMA AfterWrite ==
    ASSUME TypeOK, RanInv, WritePipe
    PROVE  ran' \in RanRecord /\ RanInv' /\ ran'.at \in {"search", "walk"}
<1>1. ran \in RanRecord /\ ran.at = "write" /\ ran.at # "idle"
  BY TypeFacts DEF WritePipe, RanAt
<1>2. \/ ran.left > 1 /\ ran' = [ran EXCEPT !.at = "search", !.left = ran.left - 1]
      \/ NextEntry
  BY DEF WritePipe
<1>3. CASE ran.left > 1 /\ ran' = [ran EXCEPT !.at = "search", !.left = ran.left - 1]
  <2>1. ran.left - 1 \in Nat
    BY <1>1, <1>3
  <2>2. ran' \in RanRecord /\ ran'.at = "search" /\ ran'.i = ran.i /\ ran'.list = ran.list
        /\ ran'.id = ran.id
    BY <1>1, <1>3, <2>1
  <2> QED
    BY <1>1, <2>2 DEF RanInv
<1>4. CASE NextEntry
  BY <1>1, <1>4, NextEntryType
<1> QED
  BY <1>2, <1>3, <1>4

LEMMA WritePipeType == TypeInv /\ WritePipe => TypeInv'
<1> SUFFICES ASSUME TypeInv, WritePipe PROVE TypeInv'
  OBVIOUS
<1>1. /\ TypeOK /\ ran.at = "write" /\ ran.i \in Nat /\ signals \in Nat
      /\ aborted \in Assertions \cup {"no"} /\ aind \in Seq(Ids) /\ pipe \in Nat
      /\ unsent \in Nat
  BY DEF TypeInv, TypeOK, WritePipe, RanAt
<1>2. RanStep /\ UNCHANGED <<aind, unsent, signals, aborted>>
  BY DEF WritePipe, RanStep, loopVars, maps, socket, ric, history
<1>3. pipe' = pipe + Digits(ran.id) /\ edge' \in BOOLEAN
  BY DEF WritePipe
<1>4. pipe' \in Nat
  BY <1>1, <1>3, DigitsType
<1>5. Len(aind) \in Nat /\ unsent' - unsent = Len(aind') - Len(aind)
  BY <1>1, <1>2
<1>6. ran' \in RanRecord /\ RanInv'
  BY <1>1, AfterWrite DEF TypeInv
<1> QED
  BY <1>1, <1>2, <1>3, <1>4, <1>5, <1>6, RanStepType

\* A message arrives; the agent does nothing.
RicStep == UNCHANGED <<agent, batch, setups, ran, ind_event, rc_subs, listed, repeated, aind,
                       pipe, edge, aborted, unsent, signals, resends>>

LEMMA RicStepType ==
    ASSUME TypeInv, RicStep, NEW m \in Message, Arrives(m), owed' \in Nat, up' \in BOOLEAN,
           used' \subseteq Ids, served' \subseteq Ids, requests' \in Nat, losses' \in Nat
    PROVE  TypeInv'
<1>1. inbox \in Seq(Message)
  BY DEF TypeInv, TypeOK
<1>2. inbox' \in Seq(Message) /\ ready' \in BOOLEAN
  BY <1>1 DEF Arrives
<1>3. TypeOK'
  BY <1>2 DEF TypeInv, TypeOK, RicStep
<1>4. HandlerInv' /\ ListInv' /\ RanInv' /\ QueueInv'
  BY DEF TypeInv, HandlerInv, ListInv, RanInv, QueueInv, RicStep
<1> QED
  BY <1>3, <1>4 DEF TypeInv

LEMMA RicType ==
    ASSUME TypeInv,
           RicAnswersSetup \/ (\E id \in Ids : RicRequests(id))
              \/ (\E id \in Ids : RicDeletes(id)) \/ RicIsLost
    PROVE  TypeInv'
<1>1. owed \in Nat /\ up \in BOOLEAN /\ used \subseteq Ids /\ served \subseteq Ids
      /\ requests \in Nat /\ losses \in Nat
  BY DEF TypeInv, TypeOK
<1>2. CASE RicAnswersSetup
  <2>1. RicStep /\ Arrives(SetupResponse) /\ UNCHANGED <<used, served, requests, losses>>
        /\ owed' = owed - 1 /\ up' \in BOOLEAN /\ owed > 0
    BY <1>2 DEF RicAnswersSetup, RicStep, loopVars, maps, channel, history
  <2>2. owed' \in Nat
    BY <1>1, <2>1
  <2> QED
    BY <1>1, <2>1, <2>2, MessageFacts, RicStepType
<1>3. ASSUME NEW id \in Ids, RicRequests(id) PROVE TypeInv'
  <2>1. PICK op \in {"sub", "control"} : Arrives([op |-> op, id |-> id])
    BY <1>3 DEF RicRequests
  <2>2. RicStep /\ UNCHANGED <<owed, up, served, losses>> /\ used' = used \cup {id}
        /\ requests' = requests + 1
    BY <1>3 DEF RicRequests, RicStep, loopVars, maps, channel, history
  <2>3. [op |-> op, id |-> id] \in Message
    BY MessageFacts
  <2>4. used' \subseteq Ids
    BY <1>1, <2>2
  <2> QED
    BY <1>1, <2>1, <2>2, <2>3, <2>4, RicStepType
<1>4. ASSUME NEW id \in Ids, RicDeletes(id) PROVE TypeInv'
  <2>1. Arrives([op |-> "del", id |-> id])
    BY <1>4 DEF RicDeletes
  <2>2. RicStep /\ UNCHANGED <<owed, up, used, requests, losses>> /\ served' \subseteq served
    BY <1>4 DEF RicDeletes, RicStep, loopVars, maps, channel, history
  <2>3. [op |-> "del", id |-> id] \in Message
    BY MessageFacts
  <2> QED
    BY <1>1, <2>1, <2>2, <2>3, RicStepType
<1>5. CASE RicIsLost
  <2>1. RicStep /\ Arrives(Shutdown) /\ used' = {} /\ served' = {} /\ owed' = 0
        /\ up' \in BOOLEAN /\ losses' = losses + 1 /\ requests' = requests
    BY <1>5 DEF RicIsLost, RicStep, loopVars, maps, channel
  <2>2. losses' \in Nat /\ owed' \in Nat
    BY <1>1, <2>1
  <2> QED
    BY <1>1, <2>1, <2>2, MessageFacts, RicStepType
<1> QED
  BY <1>2, <1>3, <1>4, <1>5

LEMMA TypeInduction == TypeInv /\ [Next]_vars => TypeInv'
<1> SUFFICES ASSUME TypeInv, [Next]_vars PROVE TypeInv'
  OBVIOUS
<1>1. CASE UNCHANGED vars
  <2>1. TypeOK'
    <3>1. UNCHANGED <<agent, batch, setups, ran, ind_event, rc_subs, listed, repeated, aind,
                      pipe, edge, inbox, ready, owed, up, used, served, aborted, unsent,
                      requests, signals, resends, losses>>
      BY <1>1 DEF vars, loopVars, maps, channel, socket, ric, history
    <3>2. TypeOK
      BY DEF TypeInv
    <3>3. agent' \in [at: {"idle", "list", "register", "answer", "find", "unlist", "extract",
                          "extracting", "stop setup", "add setup", "send", "consume"},
                     msg: Message]
      BY <3>1, <3>2 DEF TypeOK
    <3> QED
      BY <3>1, <3>2, <3>3, UnchangedType
  <2>2. HandlerInv' /\ RanInv' /\ ListInv' /\ QueueInv'
    BY <1>1 DEF vars, loopVars, maps, channel, history, TypeInv, HandlerInv, RanInv, ListInv,
                QueueInv
  <2> QED
    BY <2>1, <2>2 DEF TypeInv
<1>2. CASE \/ ReadMessage \/ ListParameter \/ EndOfReport \/ WrongStyle
           \/ RegisterEvent \/ Answer
           \/ FindEvent \/ UnlistSubscription \/ BeginExtract \/ EndExtract
           \/ StopSetup \/ AddSetup \/ SetupTimeout
  BY <1>2, ReadMessageType, ListParameterType, EndOfReportType, WrongStyleType,
     RegisterEventType, AnswerType,
     FindEventType, UnlistSubscriptionType, BeginExtractType, EndExtractType,
     StopSetupType, AddSetupType, SetupTimeoutType
<1>3. CASE \/ TakeBatch \/ SendIndication \/ ConsumePipe
           \/ Signal \/ ReadEntry \/ SearchEvent \/ PushEvent \/ WritePipe
  BY <1>3, TakeBatchType, SendIndicationType, ConsumePipeType, SignalType,
     ReadEntryType, SearchEventType, PushEventType, WritePipeType
<1>4. CASE RicAnswersSetup \/ (\E id \in Ids : RicRequests(id))
              \/ (\E id \in Ids : RicDeletes(id)) \/ RicIsLost
  BY <1>4, RicType
<1> QED
  BY <1>1, <1>2, <1>3, <1>4 DEF Next

\* The variables of the agent always have their types: in particular the count of
\* unsent indications and of pending setups never falls below zero.
THEOREM TypeCorrect == Spec => []TypeOK
<1>1. TypeInv => TypeOK
  BY DEF TypeInv
<1> QED
  BY <1>1, InitType, TypeInduction, PTL DEF Spec

-----------------------------------------------------------------------------
(* The pipe and the queue.                                                  *)

Unwritten == IF ran.at = "write" THEN 1 ELSE 0

\* Four bytes are in the pipe for every indication that is queued or taken, except the
\* one that a RAN thread has queued and not yet written.
PipeBytes == pipe = 4 * (Len(aind) + Len(batch) - Unwritten)

PipeInv == PipeBytes /\ PipeSound

LEMMA InitPipe == Init => PipeInv
<1> SUFFICES ASSUME Init PROVE PipeInv
  OBVIOUS
<1>1. /\ ran.at = "idle" /\ aind = <<>> /\ batch = <<>> /\ pipe = 0 /\ aborted = "no"
  BY DEF Init, RanIdle
<1> QED
  BY <1>1 DEF PipeInv, PipeBytes, PipeSound, Unwritten

LEMMA PipeUnchanged ==
    ASSUME PipeInv, UNCHANGED <<aind, batch, pipe>>, ran'.at = "write" <=> ran.at = "write",
           aborted' \notin {"queue is empty", "no bytes in the pipe"}
    PROVE  PipeInv'
<1>1. Unwritten' = Unwritten
  BY DEF Unwritten
<1> QED
  BY <1>1, Zenon DEF PipeInv, PipeBytes, PipeSound

LEMMA TakeBatchPipe == TypeInv /\ PipeInv /\ TakeBatch => PipeInv'
<1> SUFFICES ASSUME TypeInv, PipeInv, TakeBatch PROVE PipeInv'
  OBVIOUS
<1>1. TypeOK /\ QueueInv /\ agent.at = "idle" /\ Running
  BY DEF TypeInv, TakeBatch, LoopAt
<1>2. /\ batch = <<>> /\ aind \in Seq(Ids) /\ Len(aind) \in Nat /\ pipe \in Nat /\ Len(batch) = 0
      /\ (aind = <<>> <=> Len(aind) = 0)
  BY <1>1, TypeFacts, LengthFacts DEF QueueInv
<1>3. pipe > 0 /\ pipe' = pipe /\ ran' = ran /\ aind' = <<>> /\ aborted = "no"
      /\ (\/ aind # <<>> /\ batch' = aind /\ UNCHANGED aborted
          \/ aind = <<>> /\ UNCHANGED batch)
  BY <1>1 DEF TakeBatch, Running
<1>4. Unwritten \in {0, 1} /\ Unwritten' = Unwritten
  BY <1>3 DEF Unwritten
<1>5. pipe = 4 * (Len(aind) + Len(batch) - Unwritten)
  BY DEF PipeInv, PipeBytes
<1>6. Len(aind) > 0
  BY <1>2, <1>3, <1>4, <1>5
<1>7. batch' = aind /\ aborted' = "no"
  BY <1>2, <1>3, <1>6
<1>8. Len(aind') = 0
  BY <1>3
<1>9. pipe' = 4 * (Len(aind') + Len(batch') - Unwritten')
  BY <1>2, <1>3, <1>4, <1>5, <1>7, <1>8
<1> QED
  BY <1>7, <1>9, Zenon DEF PipeInv, PipeBytes, PipeSound

LEMMA ConsumePipePipe == TypeInv /\ PipeInv /\ ConsumePipe => PipeInv'
<1> SUFFICES ASSUME TypeInv, PipeInv, ConsumePipe PROVE PipeInv'
  OBVIOUS
<1>1. TypeOK /\ QueueInv /\ agent.at = "consume" /\ aborted = "no"
      /\ pipe > 0 /\ aind' = aind /\ ran' = ran
  BY DEF TypeInv, ConsumePipe, LoopAt, Running
<1>2. /\ batch # <<>> /\ batch \in Seq(Ids) /\ aind \in Seq(Ids) /\ Len(aind) \in Nat
      /\ pipe \in Nat /\ Len(batch) \in Nat
  BY <1>1, TypeFacts, LengthFacts DEF QueueInv
<1>3. Unwritten \in {0, 1} /\ Unwritten' = Unwritten
  BY <1>1 DEF Unwritten
<1>4. pipe = 4 * (Len(aind) + Len(batch) - Unwritten)
  BY DEF PipeInv, PipeBytes
<1>5. pipe >= 4
  BY <1>1, <1>2, <1>3, <1>4
<1>6. PICK bytes \in Nat :
         /\ bytes = (IF pipe < 4 THEN pipe ELSE 4) /\ pipe' = pipe - bytes
         /\ bytes # 1 => UNCHANGED aborted /\ batch' = Tail(batch)
  BY <1>1, ConsumePipeFacts
<1>7. bytes = 4
  BY <1>2, <1>5, <1>6
<1>8. pipe' = pipe - 4 /\ aborted' = "no" /\ batch' = Tail(batch)
  BY <1>1, <1>6, <1>7
<1>9. Len(batch') = Len(batch) - 1
  BY <1>2, <1>8, TailFacts
<1>10. pipe' = 4 * (Len(aind') + Len(batch') - Unwritten')
  BY <1>1, <1>2, <1>3, <1>4, <1>8, <1>9
<1> QED
  BY <1>8, <1>10, Zenon DEF PipeInv, PipeBytes, PipeSound

LEMMA PushEventPipe == TypeInv /\ PipeInv /\ PushEvent => PipeInv'
<1> SUFFICES ASSUME TypeInv, PipeInv, PushEvent PROVE PipeInv'
  OBVIOUS
<1>1. /\ TypeOK /\ ran.at = "push" /\ aborted = "no" /\ RanInv
      /\ aind' = Append(aind, ran.id) /\ batch' = batch /\ pipe' = pipe /\ aborted' = aborted
      /\ ran' = [ran EXCEPT !.at = "write"]
  BY DEF TypeInv, PushEvent, RanAt, Running, loopVars
<1>2. /\ batch \in Seq(Ids) /\ aind \in Seq(Ids) /\ Len(aind) \in Nat
      /\ pipe \in Nat /\ Len(batch) \in Nat /\ ran.id \in Ids
  BY <1>1, TypeFacts, LengthFacts, KindsAssumption DEF RanInv
<1>3. Unwritten = 0 /\ Unwritten' = 1
  BY <1>1, TypeFacts DEF Unwritten
<1>4. Len(aind') = Len(aind) + 1
  BY <1>1, <1>2, AppendFacts
<1>5. pipe = 4 * (Len(aind) + Len(batch) - Unwritten)
  BY DEF PipeInv, PipeBytes
<1>6. pipe' = 4 * (Len(aind') + Len(batch') - Unwritten')
  BY <1>1, <1>2, <1>3, <1>4, <1>5
<1> QED
  BY <1>1, <1>6, Zenon DEF PipeInv, PipeBytes, PipeSound

LEMMA DigitsFour ==
    ASSUME FourDigits, NEW id \in Ids
    PROVE  Digits(id) = 4
<1>1. id \in 1000 .. 9999
  BY DEF FourDigits
<1>2. id \in Int /\ 1000 <= id /\ id <= 9999
  BY <1>1
<1> QED
  BY <1>2 DEF Digits

LEMMA WritePipePipe == FourDigits /\ TypeInv /\ PipeInv /\ WritePipe => PipeInv'
<1> SUFFICES ASSUME FourDigits, TypeInv, PipeInv, WritePipe PROVE PipeInv'
  OBVIOUS
<1>1. /\ TypeOK /\ ran.at = "write" /\ aborted = "no" /\ RanInv
      /\ aind' = aind /\ batch' = batch /\ pipe' = pipe + Digits(ran.id) /\ aborted' = aborted
  BY DEF TypeInv, WritePipe, RanAt, Running, loopVars
<1>2. /\ Len(aind) \in Nat /\ pipe \in Nat /\ Len(batch) \in Nat /\ ran.i \in Nat
  BY <1>1, TypeFacts, LengthFacts
<1>3. ran.id \in Ids
  BY <1>1, KindsAssumption DEF RanInv
<1>4. Digits(ran.id) = 4
  BY <1>3, DigitsFour
<1>5. Unwritten = 1 /\ Unwritten' = 0
  <2>1. ran'.at # "write"
    BY <1>1, AfterWrite
  <2> QED
    BY <1>1, <2>1 DEF Unwritten
<1>6. pipe = 4 * (Len(aind) + Len(batch) - Unwritten)
  BY DEF PipeInv, PipeBytes
<1>7. pipe' = 4 * (Len(aind') + Len(batch') - Unwritten')
  BY <1>1, <1>2, <1>4, <1>5, <1>6
<1> QED
  BY <1>1, <1>7, Zenon DEF PipeInv, PipeBytes, PipeSound

LEMMA PipeInduction ==
    ASSUME FourDigits, TypeInv, PipeInv, [Next]_vars
    PROVE  PipeInv'
<1>1. aborted \notin {"queue is empty", "no bytes in the pipe"}
  BY DEF PipeInv, PipeSound
<1>2. CASE UNCHANGED vars
  BY <1>1, <1>2, PipeUnchanged DEF vars, loopVars, channel
<1>3. CASE \/ ReadMessage \/ ListParameter \/ EndOfReport \/ RegisterEvent \/ Answer
           \/ FindEvent \/ UnlistSubscription \/ BeginExtract \/ AddSetup
  <2>1. UNCHANGED <<aind, batch, pipe, ran, aborted>>
    BY <1>3 DEF ReadMessage, ListParameter, EndOfReport, RegisterEvent, Answer, FindEvent,
                UnlistSubscription, BeginExtract, AddSetup, channel
  <2> QED
    BY <1>1, <2>1, PipeUnchanged
<1>4. CASE WrongStyle \/ EndExtract \/ StopSetup \/ SetupTimeout
  <2>1. UNCHANGED <<aind, batch, pipe, ran>>
    BY <1>4 DEF WrongStyle, EndExtract, StopSetup, SetupTimeout, channel, loopVars
  <2>2. aborted' \in {aborted, "maps disagree", "no pending setup", "two pending setups",
                      "not a subscription outcome"}
    BY <1>4 DEF WrongStyle, EndExtract, StopSetup, SetupTimeout, Abort
  <2> QED
    BY <1>1, <2>1, <2>2, PipeUnchanged
<1>5. CASE TakeBatch \/ ConsumePipe \/ PushEvent \/ WritePipe
  BY <1>5, TakeBatchPipe, ConsumePipePipe, PushEventPipe, WritePipePipe
<1>6. CASE SendIndication
  BY <1>1, <1>6, PipeUnchanged DEF SendIndication, channel
<1>7. CASE Signal
  <2>1. UNCHANGED <<aind, batch, pipe, aborted>>
    BY <1>7 DEF Signal, loopVars, channel
  <2>2. ran.at = "idle" /\ ran'.at = "walk"
    BY <1>7 DEF Signal, RanAt, RanIdle
  <2> QED
    BY <1>1, <2>1, <2>2, PipeUnchanged
<1>8. CASE ReadEntry
  <2>1. UNCHANGED <<aind, batch, pipe>> /\ ran.at = "walk"
    BY <1>8 DEF ReadEntry, RanAt, loopVars, channel
  <2>2. ran \in RanRecord
    BY TypeFacts DEF TypeInv
  <2>3. \/ ran' = RanIdle \/ ran' = ran \/ NextEntry
        \/ \E k \in 1 .. Conditions[Walked[ran.i]] :
              ran' = [ran EXCEPT !.at = "search", !.id = Walked[ran.i], !.left = k]
    BY <1>8 DEF ReadEntry
  <2>4. ran'.at # "write"
    <3>1. CASE ran' = RanIdle
      BY <3>1 DEF RanIdle
    <3>2. CASE ran' = ran
      BY <2>1, <3>2
    <3>3. ASSUME NEW k, ran' = [ran EXCEPT !.at = "search", !.id = Walked[ran.i], !.left = k]
          PROVE  ran'.at # "write"
      BY <2>2, <3>3
    <3>4. CASE NextEntry
      BY <2>2, <3>4 DEF NextEntry
    <3> QED
      BY <2>3, <3>1, <3>2, <3>3, <3>4
  <2>5. aborted' \in {aborted, "list index"}
    BY <1>8 DEF ReadEntry, Abort
  <2> QED
    BY <1>1, <2>1, <2>4, <2>5, PipeUnchanged
<1>9. CASE SearchEvent
  <2>1. UNCHANGED <<aind, batch, pipe>> /\ ran.at = "search"
    BY <1>9 DEF SearchEvent, RanAt, loopVars, channel
  <2>2. ran \in RanRecord
    BY TypeFacts DEF TypeInv
  <2>3. \/ ran' = [ran EXCEPT !.at = "push", !.tries = 0]
        \/ ran' = [ran EXCEPT !.tries = ran.tries + 1]
    BY <1>9 DEF SearchEvent
  <2>4. ran'.at # "write"
    BY <2>1, <2>2, <2>3
  <2>5. aborted' \in {aborted, "not found RIC Request ID"}
    BY <1>9 DEF SearchEvent, Abort
  <2> QED
    BY <1>1, <2>1, <2>4, <2>5, PipeUnchanged
<1>10. CASE RicAnswersSetup \/ (\E id \in Ids : RicRequests(id))
              \/ (\E id \in Ids : RicDeletes(id)) \/ RicIsLost
  <2>1. UNCHANGED <<aind, batch, pipe, ran, aborted>>
    BY <1>10 DEF RicAnswersSetup, RicRequests, RicDeletes, RicIsLost, channel, loopVars
  <2> QED
    BY <1>1, <2>1, PipeUnchanged
<1> QED
  BY <1>2, <1>3, <1>4, <1>5, <1>6, <1>7, <1>8, <1>9, <1>10 DEF Next

\* While the request ids have four digits, the loop never finds the queue empty when
\* epoll reports the pipe, and never reads a single byte, however a RAN thread and the
\* loop interleave.
THEOREM PipeAndQueueAgree == FourDigits /\ Spec => []PipeSound
<1> SUFFICES ASSUME FourDigits PROVE Spec => []PipeSound
  OBVIOUS
<1>1. TypeInv /\ PipeInv /\ [Next]_vars => PipeInv'
  BY PipeInduction
<1>2. PipeInv => PipeSound
  BY DEF PipeInv
<1> QED
  BY <1>1, <1>2, InitType, TypeInduction, InitPipe, PTL DEF Spec

-----------------------------------------------------------------------------
(* The lists of the RC subscriptions and the indication events.             *)

Adding(l, id) ==
    IF agent.at \in {"list", "register"} /\ agent.msg.id = id /\ Has(listed, l) THEN 1 ELSE 0
Removing(id) ==
    IF agent.at \in {"extract", "extracting"} /\ agent.msg.id = id THEN 1 ELSE 0

\* An aperiodic subscription whose report repeats no parameter is in no list more often
\* than it has indication events, but for the one that the loop is adding or removing.
CountInv ==
    \A l \in Lists : \A id \in Aperiodic \ repeated :
        Occurrences(rc_subs[l], id) + Removing(id) <= Occurrences(ind_event, id) + Adding(l, id)

\* What the loop has found is still there: no other thread removes it.
ExtractInv ==
    agent.at \in {"unlist", "extract", "extracting"} => Registered(agent.msg.id)

\* A report begins with no parameter listed.
ListedInv == agent.at \notin {"list", "register"} => listed = <<>>

ListsInv == CountInv /\ ExtractInv /\ ListedInv

\* The counts that the invariant compares.
LEMMA CountFacts ==
    ASSUME TypeInv, ListsInv, NEW l \in Lists, NEW id \in Aperiodic
    PROVE  /\ rc_subs[l] \in Seq(Ids) /\ ind_event \in Seq(Ids)
           /\ Occurrences(rc_subs[l], id) \in Nat /\ Occurrences(ind_event, id) \in Nat
           /\ Adding(l, id) \in {0, 1} /\ Removing(id) \in {0, 1}
           /\ id \notin repeated =>
                 Occurrences(rc_subs[l], id) + Removing(id)
                    <= Occurrences(ind_event, id) + Adding(l, id)
<1>1. rc_subs[l] \in Seq(Ids) /\ ind_event \in Seq(Ids)
  BY TypeFacts DEF TypeInv
<1>2. Occurrences(rc_subs[l], id) \in Nat /\ Occurrences(ind_event, id) \in Nat
  BY <1>1, OccurrencesType
<1>3. Adding(l, id) \in {0, 1} /\ Removing(id) \in {0, 1}
  BY DEF Adding, Removing
<1>4. id \notin repeated =>
         Occurrences(rc_subs[l], id) + Removing(id) <= Occurrences(ind_event, id) + Adding(l, id)
  BY DEF ListsInv, CountInv
<1> QED
  BY <1>1, <1>2, <1>3, <1>4

LEMMA HasFacts ==
    ASSUME NEW s \in Seq(Lists), NEW k \in Lists, NEW l \in Lists
    PROVE  Has(Append(s, k), l) <=> (Has(s, l) \/ k = l)
<1>1. /\ DOMAIN s = 1 .. Len(s) /\ DOMAIN Append(s, k) = 1 .. Len(s) + 1 /\ Len(s) \in Nat
      /\ Append(s, k)[Len(s) + 1] = k /\ \A i \in 1 .. Len(s) : Append(s, k)[i] = s[i]
  OBVIOUS
<1> QED
  BY <1>1 DEF Has

LEMMA OccurrencesEmpty == \A id : Occurrences(<<>>, id) = 0
<1> TAKE id
<1>1. <<>> \in Seq(Ids) /\ \A i \in DOMAIN <<>> : <<>>[i] # id
  OBVIOUS
<1> QED
  BY <1>1, OccurrencesType

LEMMA InitLists == Init => ListsInv
<1> SUFFICES ASSUME Init PROVE ListsInv
  OBVIOUS
<1>1. agent.at = "idle" /\ ind_event = <<>> /\ listed = <<>> /\ \A l \in Lists : rc_subs[l] = <<>>
  BY DEF Init, LoopIdle
<1>2. \A l, id : Adding(l, id) = 0 /\ Removing(id) = 0
  BY <1>1 DEF Adding, Removing
<1> QED
  BY <1>1, <1>2, OccurrencesEmpty DEF ListsInv, CountInv, ExtractInv, ListedInv

LEMMA ListsUnchanged ==
    ASSUME ListsInv, UNCHANGED <<agent, rc_subs, ind_event, listed, repeated>>
    PROVE  ListsInv'
<1>1. \A l, id : Adding(l, id)' = Adding(l, id) /\ Removing(id)' = Removing(id)
  BY DEF Adding, Removing
<1>2. CountInv'
  BY <1>1, Zenon DEF ListsInv, CountInv
<1>3. ExtractInv' /\ ListedInv'
  BY DEF ListsInv, ExtractInv, ListedInv, Registered, Entries
<1> QED
  BY <1>2, <1>3 DEF ListsInv

\* The loop goes on, to a step that neither adds nor removes.
LEMMA ListsAside ==
    ASSUME ListsInv, UNCHANGED <<rc_subs, ind_event, listed, repeated>>,
           \A l \in Lists, id \in Aperiodic : Adding(l, id)' = Adding(l, id),
           \A id \in Aperiodic : Removing(id)' = Removing(id),
           agent'.at \in {"unlist", "extract", "extracting"} => Registered(agent'.msg.id),
           agent'.at \notin {"list", "register"} => listed = <<>>
    PROVE  ListsInv'
<1>1. CountInv'
  BY Zenon DEF ListsInv, CountInv
<1>2. ExtractInv' /\ ListedInv'
  BY DEF ExtractInv, ListedInv, Registered, Entries
<1> QED
  BY <1>1, <1>2 DEF ListsInv

LEMMA ReadMessageLists == TypeInv /\ ListsInv /\ ReadMessage => ListsInv'
<1> SUFFICES ASSUME TypeInv, ListsInv, ReadMessage PROVE ListsInv'
  OBVIOUS
<1>1. agent.at = "idle" /\ UNCHANGED <<rc_subs, ind_event, listed, repeated>> /\ inbox # <<>>
      /\ agent' = [at |-> FirstStep(Head(inbox)), msg |-> Head(inbox)]
  BY DEF ReadMessage, Reported, LoopAt, maps
<1>2. Head(inbox) \in Message
  <2>1. inbox \in Seq(Message)
    BY TypeFacts DEF TypeInv
  <2> QED
    BY <1>1, <2>1
<1>3. agent'.at = FirstStep(agent'.msg) /\ agent'.msg \in Message
  BY <1>1, <1>2
<1>4. agent'.at \notin {"unlist", "extract", "extracting"}
  BY <1>3, FirstStepFacts
<1>5. listed = <<>> /\ listed' = <<>>
  BY <1>1 DEF ListsInv, ListedInv
<1>6. \A l \in Lists, id \in Aperiodic : Adding(l, id)' = Adding(l, id)
  BY <1>5 DEF Adding, Has
<1>7. \A id \in Aperiodic : Removing(id)' = Removing(id)
  BY <1>1, <1>4 DEF Removing
<1> QED
  BY <1>1, <1>4, <1>5, <1>6, <1>7, ListsAside

LEMMA ListParameterLists == TypeInv /\ ListsInv /\ ListParameter => ListsInv'
<1> SUFFICES ASSUME TypeInv, ListsInv, ListParameter PROVE ListsInv'
  OBVIOUS
<1>1. /\ TypeOK /\ agent.at = "list" /\ agent' = agent /\ ind_event' = ind_event
      /\ agent.msg.id \in Aperiodic /\ agent.msg.id \in Ids
  BY KindsAssumption DEF TypeInv, HandlerInv, ListParameter, LoopAt
<1>2. PICK k \in Lists :
         /\ rc_subs' = [rc_subs EXCEPT ![k] = Append(rc_subs[k], agent.msg.id)]
         /\ listed' = Append(listed, k)
         /\ repeated' = IF Has(listed, k) THEN repeated \cup {agent.msg.id} ELSE repeated
  BY DEF ListParameter
<1>3. rc_subs \in [Lists -> Seq(Ids)] /\ listed \in Seq(Lists)
  BY <1>1, TypeFacts
<1>4. CountInv'
  <2>1. SUFFICES ASSUME NEW l \in Lists, NEW id \in Aperiodic, id \notin repeated'
                 PROVE  Occurrences(rc_subs'[l], id) + Removing(id)'
                           <= Occurrences(ind_event', id) + Adding(l, id)'
    BY DEF CountInv
  <2>2. /\ Occurrences(rc_subs[l], id) \in Nat /\ Occurrences(ind_event, id) \in Nat
        /\ rc_subs[l] \in Seq(Ids)
        /\ id \notin repeated =>
              Occurrences(rc_subs[l], id) + Removing(id)
                 <= Occurrences(ind_event, id) + Adding(l, id)
    BY CountFacts
  <2>3. Removing(id) = 0 /\ Removing(id)' = 0
    BY <1>1 DEF Removing
  <2>4. id \notin repeated /\ (agent.msg.id = id => ~Has(listed, k))
    BY <1>2, <2>1
  <2>5. Occurrences(rc_subs[l], id) <= Occurrences(ind_event, id) + Adding(l, id)
    BY <2>2, <2>3, <2>4
  <2>6. Has(listed', l) <=> (Has(listed, l) \/ k = l)
    BY <1>2, <1>3, HasFacts
  <2>7. CASE agent.msg.id = id /\ l = k
    <3>1. Adding(l, id) = 0 /\ Adding(l, id)' = 1
      BY <1>1, <2>4, <2>6, <2>7 DEF Adding
    <3>2. rc_subs'[l] = Append(rc_subs[l], agent.msg.id)
      BY <1>2, <1>3, <2>7
    <3>3. Occurrences(rc_subs'[l], id) = Occurrences(rc_subs[l], id) + 1
      BY <1>1, <2>2, <2>7, <3>2, OccurrencesAppend
    <3> QED
      BY <1>1, <2>2, <2>3, <2>5, <3>1, <3>3
  <2>8. CASE agent.msg.id # id \/ l # k
    <3>1. Adding(l, id)' = Adding(l, id)
      BY <1>1, <2>6, <2>8 DEF Adding
    <3>2. Occurrences(rc_subs'[l], id) = Occurrences(rc_subs[l], id)
      <4>1. CASE l # k
        BY <1>2, <1>3, <4>1
      <4>2. CASE l = k /\ agent.msg.id # id
        <5>1. rc_subs'[l] = Append(rc_subs[l], agent.msg.id)
          BY <1>2, <1>3, <4>2
        <5>2. Occurrences(Append(rc_subs[l], agent.msg.id), id) = Occurrences(rc_subs[l], id) + 0
          BY <1>1, <2>2, <4>2, OccurrencesAppend
        <5> QED
          BY <2>2, <5>1, <5>2
      <4> QED
        BY <2>8, <4>1, <4>2
    <3> QED
      BY <1>1, <2>2, <2>3, <2>5, <3>1, <3>2
  <2> QED
    BY <2>7, <2>8
<1>5. ExtractInv' /\ ListedInv'
  BY <1>1 DEF ExtractInv, ListedInv
<1> QED
  BY <1>4, <1>5 DEF ListsInv

LEMMA EndOfReportLists == TypeInv /\ ListsInv /\ EndOfReport => ListsInv'
<1> SUFFICES ASSUME TypeInv, ListsInv, EndOfReport PROVE ListsInv'
  OBVIOUS
<1>1. /\ TypeOK /\ agent.at = "list" /\ LoopGoes("register")
      /\ UNCHANGED <<rc_subs, ind_event, listed, repeated>>
  BY DEF TypeInv, EndOfReport, LoopAt, maps
<1>2. agent'.at = "register" /\ agent'.msg = agent.msg
  BY <1>1, GoesType
<1>3. \A l \in Lists, id \in Aperiodic : Adding(l, id)' = Adding(l, id)
  BY <1>1, <1>2 DEF Adding
<1>4. \A id \in Aperiodic : Removing(id)' = Removing(id)
  BY <1>1, <1>2 DEF Removing
<1> QED
  BY <1>1, <1>2, <1>3, <1>4, ListsAside

LEMMA RegisterEventLists == TypeInv /\ ListsInv /\ RegisterEvent => ListsInv'
<1> SUFFICES ASSUME TypeInv, ListsInv, RegisterEvent PROVE ListsInv'
  OBVIOUS
<1>1. /\ TypeOK /\ agent.at = "register" /\ LoopGoes("answer") /\ rc_subs' = rc_subs
      /\ ind_event' = Append(ind_event, agent.msg.id) /\ agent.msg.id \in Ids
      /\ listed' = <<>> /\ repeated' = repeated
  BY DEF TypeInv, HandlerInv, RegisterEvent, LoopAt
<1>2. agent'.at = "answer" /\ agent'.msg = agent.msg
  BY <1>1, GoesType
<1>3. CountInv'
  <2>1. SUFFICES ASSUME NEW l \in Lists, NEW id \in Aperiodic, id \notin repeated'
                 PROVE  Occurrences(rc_subs'[l], id) + Removing(id)'
                           <= Occurrences(ind_event', id) + Adding(l, id)'
    BY DEF CountInv
  <2>2. /\ Occurrences(rc_subs[l], id) \in Nat /\ Occurrences(ind_event, id) \in Nat
        /\ ind_event \in Seq(Ids) /\ Adding(l, id) \in {0, 1}
        /\ Occurrences(rc_subs[l], id) + Removing(id)
              <= Occurrences(ind_event, id) + Adding(l, id)
    BY <1>1, <2>1, CountFacts
  <2>3. Adding(l, id)' = 0 /\ Removing(id) = 0 /\ Removing(id)' = 0
        /\ (agent.msg.id # id => Adding(l, id) = 0)
    BY <1>1, <1>2 DEF Adding, Removing
  <2>4. Occurrences(ind_event', id) =
            Occurrences(ind_event, id) + (IF agent.msg.id = id THEN 1 ELSE 0)
    BY <1>1, <2>2, OccurrencesAppend
  <2>5. Occurrences(rc_subs'[l], id) = Occurrences(rc_subs[l], id)
    BY <1>1
  <2> QED
    BY <2>2, <2>3, <2>4, <2>5
<1>4. ExtractInv' /\ ListedInv'
  BY <1>1, <1>2 DEF ExtractInv, ListedInv
<1> QED
  BY <1>3, <1>4 DEF ListsInv

LEMMA AsideLists ==
    ASSUME TypeInv, ListsInv, UNCHANGED <<rc_subs, ind_event, listed, repeated>>,
           agent.at \notin {"list", "register", "extract", "extracting"},
           agent'.at \notin {"list", "register", "unlist", "extract", "extracting"}
    PROVE  ListsInv'
<1>1. \A l \in Lists, id \in Aperiodic : Adding(l, id)' = Adding(l, id)
  BY DEF Adding
<1>2. \A id \in Aperiodic : Removing(id)' = Removing(id)
  BY DEF Removing
<1>3. listed = <<>>
  BY DEF ListsInv, ListedInv
<1> QED
  BY <1>1, <1>2, <1>3, ListsAside

LEMMA FindEventLists == TypeInv /\ ListsInv /\ FindEvent => ListsInv'
<1> SUFFICES ASSUME TypeInv, ListsInv, FindEvent PROVE ListsInv'
  OBVIOUS
<1>1. /\ TypeOK /\ agent.at = "find" /\ UNCHANGED <<rc_subs, ind_event, listed, repeated>>
      /\ LoopGoes(IF ~Registered(agent.msg.id) THEN "answer"
                  ELSE IF agent.msg.id \in Aperiodic THEN "unlist" ELSE "extract")
  BY DEF TypeInv, FindEvent, LoopAt, maps
<1>2. /\ agent'.msg = agent.msg
      /\ agent'.at \in {"answer", "unlist", "extract"}
      /\ agent'.at # "answer" => Registered(agent.msg.id)
      /\ agent'.at = "extract" => agent.msg.id \notin Aperiodic
  BY <1>1 DEF TypeOK, LoopGoes
<1>3. \A l \in Lists, id \in Aperiodic : Adding(l, id)' = Adding(l, id)
  BY <1>1, <1>2 DEF Adding
<1>4. \A id \in Aperiodic : Removing(id)' = Removing(id)
  BY <1>1, <1>2 DEF Removing
<1>5. listed = <<>>
  BY <1>1 DEF ListsInv, ListedInv
<1> QED
  BY <1>1, <1>2, <1>3, <1>4, <1>5, ListsAside

\* The first entry of the id leaves a list that has one.
LEMMA OccurrencesUnlisted ==
    ASSUME NEW s \in Seq(Ids), NEW gone, NEW id
    PROVE  /\ gone # id => Occurrences(Unlisted(s, gone), id) = Occurrences(s, id)
           /\ gone = id => \/ Occurrences(Unlisted(s, gone), id) = 0
                           \/ Occurrences(Unlisted(s, gone), id) = Occurrences(s, id) - 1
<1>1. Occurrences(s, id) \in Nat
  BY OccurrencesType
<1>2. CASE Unlisted(s, gone) = s /\ \A i \in DOMAIN s : s[i] # gone
  BY <1>1, <1>2, OccurrencesType
<1>3. ASSUME NEW i \in DOMAIN s, s[i] = gone, Unlisted(s, gone) = Without(s, i)
      PROVE  /\ gone # id => Occurrences(Unlisted(s, gone), id) = Occurrences(s, id)
             /\ gone = id => Occurrences(Unlisted(s, gone), id) = Occurrences(s, id) - 1
  <2>1. Occurrences(Without(s, i), id) = Occurrences(s, id) - (IF s[i] = id THEN 1 ELSE 0)
    BY OccurrencesWithout, Zenon
  <2> QED
    BY <1>1, <1>3, <2>1
<1> QED
  BY <1>2, <1>3, UnlistedFacts

LEMMA UnlistSubscriptionLists == TypeInv /\ ListsInv /\ UnlistSubscription => ListsInv'
<1> SUFFICES ASSUME TypeInv, ListsInv, UnlistSubscription PROVE ListsInv'
  OBVIOUS
<1>1. /\ TypeOK /\ agent.at = "unlist" /\ LoopGoes("extract")
      /\ UNCHANGED <<ind_event, listed, repeated>>
      /\ rc_subs' = [l \in Lists |-> Unlisted(rc_subs[l], agent.msg.id)]
  BY DEF TypeInv, UnlistSubscription, LoopAt
<1>2. agent'.at = "extract" /\ agent'.msg = agent.msg
  BY <1>1, GoesType
<1>3. ind_event \in Seq(Ids)
  BY <1>1, TypeFacts
<1>4. Registered(agent.msg.id)
  BY <1>1 DEF ListsInv, ExtractInv
<1>5. Occurrences(ind_event, agent.msg.id) # 0
  <2>1. \E i \in DOMAIN ind_event : ind_event[i] = agent.msg.id
    BY <1>4 DEF Registered, Entries
  <2> QED
    BY <1>3, <2>1, OccurrencesType
<1>6. CountInv'
  <2>1. SUFFICES ASSUME NEW l \in Lists, NEW id \in Aperiodic, id \notin repeated'
                 PROVE  Occurrences(rc_subs'[l], id) + Removing(id)'
                           <= Occurrences(ind_event', id) + Adding(l, id)'
    BY DEF CountInv
  <2>2. /\ Occurrences(rc_subs[l], id) \in Nat /\ Occurrences(ind_event, id) \in Nat
        /\ rc_subs[l] \in Seq(Ids)
        /\ Occurrences(rc_subs[l], id) + Removing(id)
              <= Occurrences(ind_event, id) + Adding(l, id)
    BY <1>1, <2>1, CountFacts
  <2>3. Adding(l, id) = 0 /\ Removing(id) = 0 /\ Adding(l, id)' = 0
        /\ Removing(id)' = IF agent.msg.id = id THEN 1 ELSE 0
    BY <1>1, <1>2 DEF Adding, Removing
  <2>4. rc_subs'[l] = Unlisted(rc_subs[l], agent.msg.id)
    BY <1>1
  <2>5. CASE agent.msg.id # id
    <3>1. Occurrences(rc_subs'[l], id) = Occurrences(rc_subs[l], id)
      BY <2>2, <2>4, <2>5, OccurrencesUnlisted
    <3> QED
      BY <1>1, <2>2, <2>3, <2>5, <3>1
  <2>6. CASE agent.msg.id = id
    <3>1. \/ Occurrences(rc_subs'[l], id) = 0
          \/ Occurrences(rc_subs'[l], id) = Occurrences(rc_subs[l], id) - 1
      BY <2>2, <2>4, <2>6, OccurrencesUnlisted
    <3> QED
      BY <1>1, <1>5, <2>2, <2>3, <2>6, <3>1
  <2> QED
    BY <2>5, <2>6
<1>7. ExtractInv'
  BY <1>1, <1>2, <1>4 DEF ExtractInv, Registered, Entries
<1>8. ListedInv'
  BY <1>1 DEF ListsInv, ListedInv
<1> QED
  BY <1>6, <1>7, <1>8 DEF ListsInv

LEMMA BeginExtractLists == TypeInv /\ ListsInv /\ BeginExtract => ListsInv'
<1> SUFFICES ASSUME TypeInv, ListsInv, BeginExtract PROVE ListsInv'
  OBVIOUS
<1>1. /\ TypeOK /\ agent.at = "extract" /\ LoopGoes("extracting")
      /\ UNCHANGED <<rc_subs, ind_event, listed, repeated>>
  BY DEF TypeInv, BeginExtract, LoopAt, maps
<1>2. agent'.at = "extracting" /\ agent'.msg = agent.msg
  BY <1>1, GoesType
<1>3. \A l \in Lists, id \in Aperiodic : Adding(l, id)' = Adding(l, id)
  BY <1>1, <1>2 DEF Adding
<1>4. \A id \in Aperiodic : Removing(id)' = Removing(id)
  BY <1>1, <1>2 DEF Removing
<1>5. listed = <<>> /\ Registered(agent'.msg.id)
  BY <1>1, <1>2 DEF ListsInv, ListedInv, ExtractInv
<1> QED
  BY <1>1, <1>3, <1>4, <1>5, ListsAside

LEMMA EndExtractLists == TypeInv /\ ListsInv /\ EndExtract => ListsInv'
<1> SUFFICES ASSUME TypeInv, ListsInv, EndExtract PROVE ListsInv'
  OBVIOUS
<1>1. TypeOK /\ agent.at = "extracting" /\ UNCHANGED <<rc_subs, listed, repeated>>
  BY DEF TypeInv, EndExtract, LoopAt
<1>2. ind_event \in Seq(Ids)
  BY <1>1, TypeFacts
<1>3. PICK i \in SameDescriptor(agent.msg.id) :
         \/ /\ ind_event[i] = agent.msg.id
            /\ ind_event' = Without(ind_event, i) /\ LoopGoes("answer")
         \/ UNCHANGED <<ind_event, agent>>
  BY DEF EndExtract
<1>4. i \in DOMAIN ind_event
  BY SameDescriptorFacts
<1>5. CASE UNCHANGED <<ind_event, agent>>
  BY <1>1, <1>5, ListsUnchanged
<1>6. CASE /\ ind_event[i] = agent.msg.id
           /\ ind_event' = Without(ind_event, i) /\ LoopGoes("answer")
  <2>1. agent'.at = "answer" /\ agent'.msg = agent.msg
    BY <1>1, <1>6, GoesType
  <2>2. CountInv'
    <3>1. SUFFICES ASSUME NEW l \in Lists, NEW id \in Aperiodic, id \notin repeated'
                   PROVE  Occurrences(rc_subs'[l], id) + Removing(id)'
                             <= Occurrences(ind_event', id) + Adding(l, id)'
      BY DEF CountInv
    <3>2. /\ Occurrences(rc_subs[l], id) \in Nat /\ Occurrences(ind_event, id) \in Nat
          /\ Occurrences(rc_subs[l], id) + Removing(id)
                <= Occurrences(ind_event, id) + Adding(l, id)
      BY <1>1, <3>1, CountFacts
    <3>3. Adding(l, id) = 0 /\ Adding(l, id)' = 0 /\ Removing(id)' = 0
          /\ Removing(id) = IF agent.msg.id = id THEN 1 ELSE 0
      BY <1>1, <2>1 DEF Adding, Removing
    <3>4. Occurrences(ind_event', id) =
             Occurrences(ind_event, id) - (IF agent.msg.id = id THEN 1 ELSE 0)
      <4>1. Occurrences(Without(ind_event, i), id) =
               Occurrences(ind_event, id) - (IF ind_event[i] = id THEN 1 ELSE 0)
        BY <1>2, <1>4, OccurrencesWithout, Zenon
      <4> QED
        BY <1>6, <4>1
    <3>5. Occurrences(rc_subs'[l], id) = Occurrences(rc_subs[l], id)
      BY <1>1
    <3> QED
      BY <3>2, <3>3, <3>4, <3>5
  <2>3. ExtractInv' /\ ListedInv'
    BY <1>1, <2>1 DEF ExtractInv, ListsInv, ListedInv
  <2> QED
    BY <2>2, <2>3 DEF ListsInv
<1> QED
  BY <1>3, <1>5, <1>6

LEMMA ListsInduction ==
    ASSUME TypeInv, ListsInv, [Next]_vars
    PROVE  ListsInv'
<1>1. TypeOK
  BY DEF TypeInv
<1>2. CASE UNCHANGED vars
  BY <1>2, ListsUnchanged DEF vars, loopVars, maps
<1>3. CASE \/ ReadMessage \/ ListParameter \/ EndOfReport \/ RegisterEvent
           \/ FindEvent \/ UnlistSubscription \/ BeginExtract \/ EndExtract
  BY <1>3, ReadMessageLists, ListParameterLists, EndOfReportLists, RegisterEventLists,
     FindEventLists, UnlistSubscriptionLists, BeginExtractLists, EndExtractLists
<1>4. CASE Answer \/ StopSetup \/ AddSetup
  <2>1. UNCHANGED <<rc_subs, ind_event, listed, repeated>> /\ agent.at \in {"answer", "stop setup", "add setup"}
    BY <1>4 DEF Answer, StopSetup, AddSetup, LoopAt, maps
  <2>2. agent' = LoopIdle \/ agent' = agent
    BY <1>4 DEF Answer, StopSetup, AddSetup
  <2>3. agent'.at \in {"idle", "answer", "stop setup", "add setup"}
    BY <2>1, <2>2, IdleType
  <2> QED
    BY <2>1, <2>3, AsideLists
<1>5. CASE TakeBatch \/ SendIndication
  <2>1. UNCHANGED <<rc_subs, ind_event, listed, repeated>> /\ agent.at \in {"idle", "send"}
        /\ (agent' = agent \/ LoopGoes("send") \/ LoopGoes("consume"))
    BY <1>5 DEF TakeBatch, SendIndication, LoopAt, maps
  <2>2. agent'.at \in {"idle", "send", "consume"}
    BY <1>1, <2>1 DEF LoopGoes, TypeOK
  <2> QED
    BY <2>1, <2>2, AsideLists
<1>6. CASE ConsumePipe
  <2>1. UNCHANGED <<rc_subs, ind_event, listed, repeated>> /\ agent.at = "consume"
        /\ (agent' = agent \/ agent' = LoopIdle \/ LoopGoes("send"))
    BY <1>6 DEF ConsumePipe, LoopAt, LoopGoes, maps
  <2>2. agent'.at \in {"idle", "send", "consume"}
    BY <1>1, <2>1, IdleType, GoesType
  <2> QED
    BY <2>1, <2>2, AsideLists
<1>7. CASE WrongStyle \/ SetupTimeout \/ Signal \/ ReadEntry \/ SearchEvent \/ PushEvent \/ WritePipe
  BY <1>7, ListsUnchanged DEF WrongStyle, SetupTimeout, Signal, ReadEntry, SearchEvent, PushEvent,
                              WritePipe,
                              loopVars, maps
<1>8. CASE RicAnswersSetup \/ (\E id \in Ids : RicRequests(id))
              \/ (\E id \in Ids : RicDeletes(id)) \/ RicIsLost
  BY <1>8, ListsUnchanged DEF RicAnswersSetup, RicRequests, RicDeletes, RicIsLost, loopVars, maps
<1> QED
  BY <1>2, <1>3, <1>4, <1>5, <1>6, <1>7, <1>8 DEF Next

\* Between two events of the loop no list names a subscription more often than it has
\* indication events, unless a report of it repeated a parameter: for any reports that go
\* to any lists, also after a RIC that started again has given an id a second time.
THEOREM ListedHaveEvents == Spec => []ListedIsRegistered
<1>1. TypeInv /\ ListsInv => ListedIsRegistered
  <2> SUFFICES ASSUME TypeInv, ListsInv, agent.at = "idle", NEW l \in Lists,
                      NEW id \in Aperiodic, id \notin repeated
               PROVE  Occurrences(rc_subs[l], id) <= Occurrences(ind_event, id)
    BY DEF ListedIsRegistered, LoopAt
  <2>1. /\ Occurrences(rc_subs[l], id) \in Nat /\ Occurrences(ind_event, id) \in Nat
        /\ Occurrences(rc_subs[l], id) + Removing(id)
              <= Occurrences(ind_event, id) + Adding(l, id)
    BY CountFacts
  <2>2. Adding(l, id) = 0 /\ Removing(id) = 0
    BY DEF Adding, Removing
  <2> QED
    BY <2>1, <2>2
<1>2. TypeInv /\ ListsInv /\ [Next]_vars => ListsInv'
  BY ListsInduction
<1> QED
  BY <1>1, <1>2, InitType, TypeInduction, InitLists, PTL DEF Spec

-----------------------------------------------------------------------------
(* The setup procedure, and what the failures need.                         *)

Waiting(m) == \E i \in DOMAIN inbox : inbox[i] = m

\* A second pending setup is made for a shutdown only.
LossInv == (setups > 1 \/ agent.at = "add setup" \/ Waiting(Shutdown)) => losses > 0

\* While no setup request was sent twice there is at most one response, unread or
\* still to come, and a pending setup for it.
ResponseInv ==
    resends = 0 =>
        /\ owed <= 1
        /\ (owed = 1 \/ agent.at = "stop setup" \/ Waiting(SetupResponse)) => setups > 0
        /\ owed = 1 => agent.at # "stop setup" /\ ~Waiting(SetupResponse)
        /\ agent.at = "stop setup" => ~Waiting(SetupResponse)
        /\ \A i, j \in DOMAIN inbox : inbox[i] = SetupResponse /\ inbox[j] = SetupResponse => i = j

SetupInv == LossInv /\ ResponseInv

LEMMA InitSetup == Init => SetupInv
<1> SUFFICES ASSUME Init PROVE SetupInv
  OBVIOUS
<1>1. agent.at = "idle" /\ setups = 1 /\ inbox = <<>> /\ owed = 1
  BY DEF Init, LoopIdle
<1>2. \A m : ~Waiting(m)
  BY <1>1 DEF Waiting
<1> QED
  BY <1>1, <1>2 DEF SetupInv, LossInv, ResponseInv

\* A step that leaves the setup procedure alone.
LEMMA SetupAside ==
    ASSUME SetupInv, UNCHANGED <<setups, inbox, owed, resends, losses>>,
           agent'.at \in {"stop setup", "add setup"} => agent'.at = agent.at
    PROVE  SetupInv'
<1>1. \A m : Waiting(m)' <=> Waiting(m)
  BY DEF Waiting
<1>2. LossInv'
  BY <1>1 DEF SetupInv, LossInv
<1>3. ResponseInv'
  BY <1>1 DEF SetupInv, ResponseInv
<1> QED
  BY <1>2, <1>3 DEF SetupInv

LEMMA IndexFacts ==
    /\ \A k \in Nat : k > 0 => 1 # k + 1
    /\ \A n \in Nat : \A i \in 1 .. n + 1 : i \in 1 .. n \/ (i \notin 1 .. n /\ i = n + 1)
  OBVIOUS

LEMMA ReadMessageSetup == TypeInv /\ SetupInv /\ ReadMessage => SetupInv'
<1> SUFFICES ASSUME TypeInv, SetupInv, ReadMessage PROVE SetupInv'
  OBVIOUS
<1>1. /\ agent.at = "idle" /\ inbox # <<>> /\ inbox' = Tail(inbox)
      /\ agent' = [at |-> FirstStep(Head(inbox)), msg |-> Head(inbox)]
      /\ UNCHANGED <<setups, owed, resends, losses>>
  BY DEF ReadMessage, Reported, LoopAt, ric, history
<1>2. inbox \in Seq(Message)
  BY TypeFacts DEF TypeInv
<1>3. /\ inbox[1] \in Message /\ 1 \in DOMAIN inbox /\ Head(inbox) = inbox[1]
      /\ \A i \in DOMAIN inbox' : /\ i \in Nat /\ i > 0 /\ i + 1 \in DOMAIN inbox
                                  /\ inbox'[i] = inbox[i + 1]
  BY <1>1, <1>2
<1>4. /\ agent'.at = "stop setup" => inbox[1] = SetupResponse
      /\ agent'.at = "add setup" => inbox[1] = Shutdown
  BY <1>1, <1>3, FirstStepFacts
<1>5. \A m : Waiting(m)' => Waiting(m)
  BY <1>3 DEF Waiting
<1>6. /\ agent'.at = "stop setup" => Waiting(SetupResponse)
      /\ agent'.at = "add setup" => Waiting(Shutdown)
  BY <1>3, <1>4 DEF Waiting
<1>7. LossInv'
  BY <1>1, <1>5, <1>6 DEF SetupInv, LossInv
<1>8. ResponseInv'
  <2> SUFFICES ASSUME resends = 0
               PROVE  ResponseInv'
    BY <1>1 DEF ResponseInv
  <2>1. /\ owed <= 1
        /\ (owed = 1 \/ Waiting(SetupResponse)) => setups > 0
        /\ owed = 1 => ~Waiting(SetupResponse)
        /\ \A i, j \in DOMAIN inbox : inbox[i] = SetupResponse /\ inbox[j] = SetupResponse => i = j
    BY DEF SetupInv, ResponseInv
  <2>2. agent'.at = "stop setup" => ~Waiting(SetupResponse)'
    <3> SUFFICES ASSUME agent'.at = "stop setup", NEW i \in DOMAIN inbox', inbox'[i] = SetupResponse
                 PROVE  FALSE
      BY DEF Waiting
    <3>1. i > 0 /\ i \in Nat /\ i + 1 \in DOMAIN inbox /\ inbox[i + 1] = SetupResponse
      BY <1>3
    <3>2. 1 = i + 1
      BY <1>3, <1>4, <2>1, <3>1
    <3> QED
      BY <3>1, <3>2, IndexFacts, Zenon
  <2>3. \A i, j \in DOMAIN inbox' : inbox'[i] = SetupResponse /\ inbox'[j] = SetupResponse => i = j
    <3> SUFFICES ASSUME NEW i \in DOMAIN inbox', NEW j \in DOMAIN inbox',
                        inbox'[i] = SetupResponse, inbox'[j] = SetupResponse
                 PROVE  i = j
      OBVIOUS
    <3>1. i + 1 = j + 1 /\ i \in Nat /\ j \in Nat
      BY <1>3, <2>1
    <3> QED
      BY <3>1
  <2> QED
    BY <1>1, <1>5, <1>6, <2>1, <2>2, <2>3, Zenon DEF ResponseInv
<1> QED
  BY <1>7, <1>8 DEF SetupInv

LEMMA StopSetupSetup == TypeInv /\ SetupInv /\ StopSetup => SetupInv'
<1> SUFFICES ASSUME TypeInv, SetupInv, StopSetup PROVE SetupInv'
  OBVIOUS
<1>1. /\ agent.at = "stop setup" /\ setups \in Nat /\ owed \in Nat
      /\ UNCHANGED <<inbox, owed, resends, losses>>
      /\ \/ setups > 0 /\ setups' = setups - 1 /\ agent' = LoopIdle
         \/ UNCHANGED <<setups, agent>>
  BY TypeFacts DEF TypeInv, StopSetup, LoopAt, socket, ric, history
<1>2. \A m : Waiting(m)' <=> Waiting(m)
  BY <1>1 DEF Waiting
<1>3. CASE UNCHANGED <<setups, agent>>
  BY <1>1, <1>3, SetupAside
<1>4. CASE setups > 0 /\ setups' = setups - 1 /\ agent' = LoopIdle
  <2>1. agent'.at = "idle"
    BY <1>4, IdleType
  <2>2. LossInv'
    <3>1. setups \in Nat /\ setups' = setups - 1
      BY <1>1, <1>4
    <3>2. setups' > 1 => setups > 1
      BY <3>1
    <3> QED
      BY <1>1, <1>2, <2>1, <3>2 DEF SetupInv, LossInv
  <2>3. ResponseInv'
    <3>1. resends = 0 => owed <= 1 /\ owed # 1 /\ ~Waiting(SetupResponse)
      BY <1>1 DEF SetupInv, ResponseInv
    <3> QED
      BY <1>1, <1>2, <2>1, <3>1 DEF SetupInv, ResponseInv
  <2> QED
    BY <2>2, <2>3 DEF SetupInv
<1> QED
  BY <1>1, <1>3, <1>4

LEMMA AddSetupSetup == TypeInv /\ SetupInv /\ AddSetup => SetupInv'
<1> SUFFICES ASSUME TypeInv, SetupInv, AddSetup PROVE SetupInv'
  OBVIOUS
<1>1. /\ agent.at = "add setup" /\ setups \in Nat /\ setups' = setups + 1 /\ agent' = LoopIdle
      /\ UNCHANGED <<inbox, owed, resends, losses>>
  BY TypeFacts DEF TypeInv, AddSetup, LoopAt, socket, ric, history
<1>2. agent'.at = "idle" /\ \A m : Waiting(m)' <=> Waiting(m)
  BY <1>1, IdleType DEF Waiting
<1>3. LossInv'
  BY <1>1, <1>2 DEF SetupInv, LossInv
<1>4. setups' > 0
  <2>1. setups \in Nat /\ setups' = setups + 1
    BY <1>1
  <2> QED
    BY <2>1
<1>5. ResponseInv'
  BY <1>1, <1>2, <1>4 DEF SetupInv, ResponseInv
<1> QED
  BY <1>3, <1>5 DEF SetupInv

LEMMA SetupTimeoutSetup == TypeInv /\ SetupInv /\ SetupTimeout => SetupInv'
<1> SUFFICES ASSUME TypeInv, SetupInv, SetupTimeout PROVE SetupInv'
  OBVIOUS
<1>1. resends \in Nat /\ resends' = resends + 1 /\ UNCHANGED <<agent, setups, inbox, losses>>
  BY TypeFacts DEF TypeInv, SetupTimeout, loopVars, socket
<1>2. resends' # 0
  BY <1>1
<1>3. ResponseInv'
  BY <1>2 DEF ResponseInv
<1>4. LossInv'
  BY <1>1 DEF SetupInv, LossInv, Waiting
<1> QED
  BY <1>3, <1>4 DEF SetupInv

\* What a message that arrives adds to the inbox.
LEMMA ArrivesFacts ==
    ASSUME TypeOK, NEW m, m \in Message, Arrives(m)
    PROVE  /\ \A k : Waiting(k)' => Waiting(k) \/ k = m
           /\ \A i \in DOMAIN inbox' : (i \in DOMAIN inbox /\ inbox'[i] = inbox[i])
                                       \/ (i \notin DOMAIN inbox /\ i = Len(inbox) + 1 /\ inbox'[i] = m)
<1>1. inbox \in Seq(Message) /\ inbox' = Append(inbox, m)
  BY TypeFacts DEF Arrives
<1>2. DOMAIN inbox = 1 .. Len(inbox) /\ Len(inbox) \in Nat /\ DOMAIN inbox' = 1 .. Len(inbox) + 1
  BY <1>1
<1>3. \A i \in 1 .. Len(inbox) : inbox'[i] = inbox[i]
  BY <1>1
<1>4. inbox'[Len(inbox) + 1] = m
  BY <1>1
<1>5. \A i \in DOMAIN inbox' : (i \in DOMAIN inbox /\ inbox'[i] = inbox[i])
                               \/ (i \notin DOMAIN inbox /\ i = Len(inbox) + 1 /\ inbox'[i] = m)
  <2> SUFFICES ASSUME NEW i \in DOMAIN inbox'
               PROVE  (i \in DOMAIN inbox /\ inbox'[i] = inbox[i])
                      \/ (i \notin DOMAIN inbox /\ i = Len(inbox) + 1 /\ inbox'[i] = m)
    OBVIOUS
  <2>1. i \in 1 .. Len(inbox) + 1 /\ Len(inbox) \in Nat
    BY <1>2, Zenon
  <2>2. i \in 1 .. Len(inbox) \/ (i \notin 1 .. Len(inbox) /\ i = Len(inbox) + 1)
    BY <2>1, IndexFacts, Zenon
  <2>3. CASE i \in 1 .. Len(inbox)
    <3>1. i \in DOMAIN inbox
      BY <1>2, <2>3
    <3>2. inbox'[i] = inbox[i]
      BY <1>3, <2>3, Zenon
    <3> QED
      BY <3>1, <3>2, Zenon
  <2>4. CASE i \notin 1 .. Len(inbox) /\ i = Len(inbox) + 1
    <3>1. i \notin DOMAIN inbox
      BY <1>2, <2>4
    <3>2. inbox'[i] = m
      BY <1>4, <2>4, Zenon
    <3> QED
      BY <2>4, <3>1, <3>2, Zenon
  <2> QED
    BY <2>2, <2>3, <2>4
<1> QED
  BY <1>5 DEF Waiting

\* A message that is neither a setup response nor a shutdown.
LEMMA RequestSetup ==
    ASSUME TypeInv, SetupInv, NEW m, m \in Message, Arrives(m),
           m # SetupResponse, m # Shutdown,
           UNCHANGED <<agent, setups, owed, resends, losses>>
    PROVE  SetupInv'
<1>1. /\ \A k : Waiting(k)' => Waiting(k) \/ k = m
      /\ \A i \in DOMAIN inbox' : (i \in DOMAIN inbox /\ inbox'[i] = inbox[i])
                                  \/ (i \notin DOMAIN inbox /\ i = Len(inbox) + 1 /\ inbox'[i] = m)
  BY ArrivesFacts DEF TypeInv
<1>2. (Waiting(Shutdown)' => Waiting(Shutdown)) /\ (Waiting(SetupResponse)' => Waiting(SetupResponse))
  BY <1>1
<1>3. LossInv'
  BY <1>2 DEF SetupInv, LossInv
<1>4. ResponseInv'
  <2> SUFFICES ASSUME resends = 0 PROVE ResponseInv'
    BY DEF ResponseInv
  <2>1. \A i, j \in DOMAIN inbox' : inbox'[i] = SetupResponse /\ inbox'[j] = SetupResponse => i = j
    BY <1>1 DEF SetupInv, ResponseInv
  <2> QED
    BY <1>2, <2>1 DEF SetupInv, ResponseInv
<1> QED
  BY <1>3, <1>4 DEF SetupInv

LEMMA RicAnswersSetupSetup == TypeInv /\ SetupInv /\ RicAnswersSetup => SetupInv'
<1> SUFFICES ASSUME TypeInv, SetupInv, RicAnswersSetup PROVE SetupInv'
  OBVIOUS
<1>1. /\ owed > 0 /\ owed \in Nat /\ owed' = owed - 1 /\ Arrives(SetupResponse)
      /\ UNCHANGED <<agent, setups, resends, losses>>
  BY TypeFacts DEF TypeInv, RicAnswersSetup, loopVars, history
<1>2. /\ \A k : Waiting(k)' => Waiting(k) \/ k = SetupResponse
      /\ \A i \in DOMAIN inbox' : (i \in DOMAIN inbox /\ inbox'[i] = inbox[i])
                                  \/ (i \notin DOMAIN inbox /\ i = Len(inbox) + 1
                                     /\ inbox'[i] = SetupResponse)
  BY <1>1, MessageFacts, ArrivesFacts DEF TypeInv
<1>3. Shutdown # SetupResponse
  BY DEF Shutdown, SetupResponse
<1>4. LossInv'
  BY <1>1, <1>2, <1>3 DEF SetupInv, LossInv
<1>5. ResponseInv'
  <2> SUFFICES ASSUME resends = 0 PROVE ResponseInv'
    BY <1>1 DEF ResponseInv
  <2>1. owed = 1 /\ owed' = 0
    <3>1. owed <= 1
      BY DEF SetupInv, ResponseInv
    <3>2. owed > 0 /\ owed \in Nat /\ owed' = owed - 1
      BY <1>1
    <3> QED
      BY <3>1, <3>2
  <2>2. setups > 0 /\ agent.at # "stop setup" /\ ~Waiting(SetupResponse)
    BY <2>1 DEF SetupInv, ResponseInv
  <2>3. \A i, j \in DOMAIN inbox' : inbox'[i] = SetupResponse /\ inbox'[j] = SetupResponse => i = j
    BY <1>2, <2>2 DEF Waiting
  <2>4. owed' <= 1 /\ owed' # 1
    BY <2>1
  <2> QED
    BY <1>1, <2>2, <2>3, <2>4 DEF ResponseInv
<1> QED
  BY <1>4, <1>5 DEF SetupInv

LEMMA RicIsLostSetup == TypeInv /\ SetupInv /\ RicIsLost => SetupInv'
<1> SUFFICES ASSUME TypeInv, SetupInv, RicIsLost PROVE SetupInv'
  OBVIOUS
<1>1. /\ owed' = 0 /\ losses \in Nat /\ losses' = losses + 1 /\ Arrives(Shutdown)
      /\ UNCHANGED <<agent, setups, resends>>
  BY TypeFacts DEF TypeInv, RicIsLost, loopVars
<1>2. /\ \A k : Waiting(k)' => Waiting(k) \/ k = Shutdown
      /\ \A i \in DOMAIN inbox' : (i \in DOMAIN inbox /\ inbox'[i] = inbox[i])
                                  \/ (i \notin DOMAIN inbox /\ i = Len(inbox) + 1
                                     /\ inbox'[i] = Shutdown)
  BY <1>1, MessageFacts, ArrivesFacts DEF TypeInv
<1>3. Shutdown # SetupResponse
  BY DEF Shutdown, SetupResponse
<1>4. losses' > 0
  BY <1>1
<1>5. LossInv'
  BY <1>4 DEF LossInv
<1>6. ResponseInv'
  <2> SUFFICES ASSUME resends = 0 PROVE ResponseInv'
    BY <1>1 DEF ResponseInv
  <2>1. \A i, j \in DOMAIN inbox' : inbox'[i] = SetupResponse /\ inbox'[j] = SetupResponse => i = j
    BY <1>2, <1>3 DEF SetupInv, ResponseInv
  <2>2. Waiting(SetupResponse)' => Waiting(SetupResponse)
    BY <1>2, <1>3
  <2>3. owed' <= 1 /\ owed' # 1
    BY <1>1
  <2> QED
    BY <1>1, <2>1, <2>2, <2>3 DEF SetupInv, ResponseInv
<1> QED
  BY <1>5, <1>6 DEF SetupInv

LEMMA SetupInduction ==
    ASSUME TypeInv, SetupInv, [Next]_vars
    PROVE  SetupInv'
<1>1. TypeOK
  BY DEF TypeInv
<1>2. CASE UNCHANGED vars
  BY <1>2, SetupAside DEF vars, loopVars, socket, ric, history
<1>3. CASE \/ ReadMessage \/ StopSetup \/ AddSetup \/ SetupTimeout \/ RicAnswersSetup \/ RicIsLost
  BY <1>3, ReadMessageSetup, StopSetupSetup, AddSetupSetup, SetupTimeoutSetup,
     RicAnswersSetupSetup, RicIsLostSetup
<1>4. CASE EndOfReport \/ RegisterEvent \/ FindEvent \/ UnlistSubscription \/ BeginExtract
  <2>1. UNCHANGED <<setups, inbox, owed, resends, losses>>
    BY <1>4 DEF EndOfReport, RegisterEvent, FindEvent, UnlistSubscription, BeginExtract,
                socket, ric, history
  <2>2. \E step \in {"register", "answer", "unlist", "extract", "extracting"} : LoopGoes(step)
    BY <1>4 DEF EndOfReport, RegisterEvent, FindEvent, UnlistSubscription, BeginExtract
  <2>3. agent'.at \notin {"stop setup", "add setup"}
    BY <1>1, <2>2, GoesType
  <2> QED
    BY <2>1, <2>3, SetupAside
<1>5. CASE Answer \/ EndExtract
  <2>1. UNCHANGED <<setups, inbox, owed, resends, losses>>
    BY <1>5 DEF Answer, EndExtract, socket, ric, history
  <2>2. agent' = LoopIdle \/ LoopGoes("answer") \/ agent' = agent
    BY <1>5 DEF Answer, EndExtract
  <2>3. agent' = agent \/ agent'.at \in {"idle", "answer", "send", "consume"}
    BY <1>1, <2>2, GoesType, IdleType, Zenon
  <2>4. agent'.at \in {"stop setup", "add setup"} => agent'.at = agent.at
    BY <2>3
  <2> QED
    BY <2>1, <2>4, SetupAside
<1>6. CASE TakeBatch \/ SendIndication \/ ConsumePipe
  <2>1. UNCHANGED <<setups, inbox, owed, resends, losses>>
    BY <1>6 DEF TakeBatch, SendIndication, ConsumePipe, socket, ric, history
  <2>2. agent' = LoopIdle \/ LoopGoes("send") \/ LoopGoes("consume") \/ agent' = agent
    BY <1>6 DEF TakeBatch, SendIndication, ConsumePipe, LoopGoes
  <2>3. agent' = agent \/ agent'.at \in {"idle", "answer", "send", "consume"}
    BY <1>1, <2>2, GoesType, IdleType, Zenon
  <2>4. agent'.at \in {"stop setup", "add setup"} => agent'.at = agent.at
    BY <2>3
  <2> QED
    BY <2>1, <2>4, SetupAside
<1>7. CASE \/ ListParameter \/ WrongStyle
           \/ Signal \/ ReadEntry \/ SearchEvent \/ PushEvent \/ WritePipe
  BY <1>7, SetupAside DEF ListParameter, WrongStyle, Signal, ReadEntry, SearchEvent, PushEvent, WritePipe,
                          loopVars, socket, ric, history
<1>8. ASSUME NEW id \in Ids, RicRequests(id) \/ RicDeletes(id)
      PROVE  SetupInv'
  <2>1. UNCHANGED <<agent, setups, owed, resends, losses>>
    BY <1>8 DEF RicRequests, RicDeletes, loopVars, history
  <2>2. PICK op \in {"sub", "del", "control"} : Arrives([op |-> op, id |-> id])
    BY <1>8 DEF RicRequests, RicDeletes
  <2>3. [op |-> op, id |-> id] \in Message
    BY MessageFacts
  <2>4. [op |-> op, id |-> id] # SetupResponse /\ [op |-> op, id |-> id] # Shutdown
    BY DEF SetupResponse, Shutdown
  <2> QED
    BY <2>1, <2>2, <2>3, <2>4, RequestSetup
<1> QED
  BY <1>2, <1>3, <1>4, <1>5, <1>6, <1>7, <1>8 DEF Next

\* The RAN thread that finds no indication event.
LEMMA SearchEventCause ==
    ASSUME TypeInv, ListsInv, SearchEvent, aborted' # "no"
    PROVE  /\ aborted' = "not found RIC Request ID"
           /\ \/ agent'.at = "extracting"
              \/ agent'.at \in {"list", "register"} /\ agent'.msg.id = ran'.id
              \/ ~Has(Walked, ran.id)'
              \/ ran'.id \in repeated'
<1>1. /\ aborted = "no" /\ ran.at = "search" /\ UNCHANGED <<agent, ind_event, rc_subs, repeated>>
      /\ aborted' = "not found RIC Request ID" /\ ran' = [ran EXCEPT !.tries = ran.tries + 1]
      /\ ~Registered(ran.id) \/ agent.at = "extracting"
  BY DEF SearchEvent, RanAt, Running, Abort, loopVars, maps
<1>2. ran'.id = ran.id /\ ran'.list = ran.list
  BY <1>1, TypeFacts DEF TypeInv
<1>3. ran.id \in Aperiodic /\ ran.list \in Lists
  BY <1>1 DEF TypeInv, RanInv
<1>4. rc_subs[ran.list] \in Seq(Ids) /\ ind_event \in Seq(Ids)
  BY <1>3, TypeFacts DEF TypeInv
<1>5. Has(Walked, ran.id)' <=> Has(Walked, ran.id)
  BY <1>1, <1>2 DEF Has, Walked
<1>6. ASSUME ~Registered(ran.id), Adding(ran.list, ran.id) = 0, ran.id \notin repeated
      PROVE  ~Has(Walked, ran.id)
  <2>1. Occurrences(ind_event, ran.id) = 0
    BY <1>4, <1>6, OccurrencesType DEF Registered, Entries
  <2>2. /\ Occurrences(rc_subs[ran.list], ran.id) \in Nat /\ Removing(ran.id) \in {0, 1}
        /\ Occurrences(rc_subs[ran.list], ran.id) + Removing(ran.id)
              <= Occurrences(ind_event, ran.id) + Adding(ran.list, ran.id)
    BY <1>3, <1>6, CountFacts
  <2>3. Occurrences(rc_subs[ran.list], ran.id) = 0
    BY <1>6, <2>1, <2>2
  <2> QED
    BY <1>4, <2>3, OccurrencesType DEF Has, Walked
<1>7. Adding(ran.list, ran.id) # 0 => agent.at \in {"list", "register"} /\ agent.msg.id = ran.id
  BY DEF Adding
<1>8. agent'.at = agent.at /\ agent'.msg.id = agent.msg.id /\ repeated' = repeated
  BY <1>1
<1>9. \/ agent.at = "extracting"
      \/ agent.at \in {"list", "register"} /\ agent.msg.id = ran.id
      \/ ~Has(Walked, ran.id)
      \/ ran.id \in repeated
  BY <1>1, <1>6, <1>7, Zenon
<1> QED
  BY <1>1, <1>2, <1>5, <1>8, <1>9, Zenon

\* The two trees that disagree.
LEMMA EndExtractCause ==
    ASSUME TypeInv, ListsInv, EndExtract, aborted' # "no"
    PROVE  /\ aborted' = "maps disagree"
           /\ \E i, j \in DOMAIN ind_event' :
                 /\ ind_event'[i] \in Aperiodic /\ ind_event'[j] \in Aperiodic
                 /\ ind_event'[i] # ind_event'[j]
<1>1. agent.at = "extracting" /\ aborted = "no"
  BY DEF EndExtract, LoopAt, Running
<1>2. PICK i \in SameDescriptor(agent.msg.id) :
         ind_event[i] # agent.msg.id /\ UNCHANGED <<ind_event, agent>> /\ aborted' = "maps disagree"
  BY <1>1 DEF EndExtract, Abort
<1>3. PICK j \in DOMAIN ind_event : ind_event[j] = agent.msg.id
  BY <1>1 DEF ListsInv, ExtractInv, Registered, Entries
<1>4. agent.msg.id \in Aperiodic /\ i \in DOMAIN ind_event /\ ind_event[i] \in Aperiodic
  BY <1>2 DEF SameDescriptor, Entries
<1>5. ind_event[i] \in Aperiodic /\ ind_event[j] \in Aperiodic /\ ind_event[i] # ind_event[j]
  BY <1>2, <1>3, <1>4
<1>6. ind_event' = ind_event /\ aborted' = "maps disagree"
  BY <1>2
<1>7. \E k, l \in DOMAIN ind_event :
         ind_event[k] \in Aperiodic /\ ind_event[l] \in Aperiodic /\ ind_event[k] # ind_event[l]
  BY <1>3, <1>4, <1>5, Zenon
<1> QED
  BY <1>6, <1>7

LEMMA CausesInduction ==
    ASSUME TypeInv, ListsInv, SetupInv, AbortCauses, [Next]_vars
    PROVE  AbortCauses'
<1>1. CASE UNCHANGED vars
  <2>1. UNCHANGED <<aborted, agent, ran, rc_subs, repeated, ind_event, resends, losses>>
    BY <1>1 DEF vars, loopVars, maps, history
  <2>2. Has(Walked, ran.id)' <=> Has(Walked, ran.id)
    BY <2>1 DEF Has, Walked
  <2> QED
    BY <2>1, <2>2 DEF AbortCauses
<1>2. ASSUME aborted' \in {"no", "queue is empty", "no bytes in the pipe", "list index",
                           "not a subscription outcome"}
      PROVE  AbortCauses'
  BY <1>2 DEF AbortCauses
<1>3. CASE \/ ReadMessage \/ ListParameter \/ EndOfReport \/ RegisterEvent \/ Answer
           \/ FindEvent \/ UnlistSubscription \/ BeginExtract \/ AddSetup
           \/ SendIndication \/ Signal \/ PushEvent \/ WritePipe \/ RicAnswersSetup
           \/ (\E id \in Ids : RicRequests(id)) \/ (\E id \in Ids : RicDeletes(id)) \/ RicIsLost
  <2>1. aborted' = "no"
    BY <1>3 DEF ReadMessage, ListParameter, EndOfReport, RegisterEvent, Answer, FindEvent,
                UnlistSubscription, BeginExtract, AddSetup, SendIndication, Signal, PushEvent,
                WritePipe, RicAnswersSetup, RicRequests, RicDeletes, RicIsLost,
                LoopAt, RanAt, Running
  <2> QED
    BY <1>2, <2>1
<1>4. CASE WrongStyle \/ TakeBatch \/ ConsumePipe \/ ReadEntry
  <2>1. aborted' \in {"no", "queue is empty", "no bytes in the pipe", "list index",
                      "not a subscription outcome"}
    BY <1>4 DEF WrongStyle, TakeBatch, ConsumePipe, ReadEntry, LoopAt, RanAt, Running, Abort
  <2> QED
    BY <1>2, <2>1
<1>5. CASE SearchEvent
  BY <1>2, <1>5, SearchEventCause DEF AbortCauses
<1>6. CASE EndExtract
  BY <1>2, <1>6, EndExtractCause DEF AbortCauses
<1>7. CASE StopSetup
  <2>1. CASE aborted' = "no"
    BY <1>2, <2>1
  <2>2. CASE aborted' # "no"
    <3>1. /\ agent.at = "stop setup" /\ setups = 0 /\ aborted' = "no pending setup"
          /\ resends' = resends
      BY <1>7, <2>2 DEF StopSetup, LoopAt, Running, Abort, history
    <3>2. resends # 0
      <4>1. setups = 0
        BY <3>1
      <4>2. ~(setups > 0)
        BY <4>1
      <4> QED
        BY <3>1, <4>2, Zenon DEF SetupInv, ResponseInv
    <3>3. resends' > 0
      <4>1. resends \in Nat /\ resends' = resends /\ resends # 0
        BY <3>1, <3>2, TypeFacts DEF TypeInv
      <4> QED
        BY <4>1
    <3> QED
      BY <3>1, <3>3, Zenon DEF AbortCauses
  <2> QED
    BY <2>1, <2>2
<1>8. CASE SetupTimeout
  <2>1. CASE aborted' = "no"
    BY <1>2, <2>1
  <2>2. CASE aborted' # "no"
    <3>1. setups > 0 /\ setups # 1 /\ aborted' = "two pending setups" /\ losses' = losses
      BY <1>8, <2>2 DEF SetupTimeout, LoopAt, Running, Abort
    <3>2. setups > 1
      <4>1. setups \in Nat
        BY TypeFacts DEF TypeInv
      <4>2. setups > 0 /\ setups # 1
        BY <3>1
      <4> QED
        BY <4>1, <4>2
    <3>3. losses' > 0
      BY <3>1, <3>2, Zenon DEF SetupInv, LossInv
    <3> QED
      BY <3>1, <3>3, Zenon DEF AbortCauses
  <2> QED
    BY <2>1, <2>2
<1> QED
  BY <1>1, <1>3, <1>4, <1>5, <1>6, <1>7, <1>8 DEF Next

\* The agent fails an assertion only for the causes that AbortCauses names: a RAN
\* thread that searches a subscription being added, already deleted or with a repeated
\* parameter, two aperiodic subscriptions in one tree, a setup request that was sent
\* twice, a lost connection.
THEOREM FailuresHaveCauses == Spec => []AbortCauses
<1>1. Init => AbortCauses
  <2>1. Init => aborted = "no"
    BY DEF Init
  <2> QED
    BY <2>1 DEF AbortCauses
<1>2. TypeInv /\ ListsInv /\ [Next]_vars => ListsInv'
  BY ListsInduction
<1>3. TypeInv /\ SetupInv /\ [Next]_vars => SetupInv'
  BY SetupInduction
<1>4. TypeInv /\ ListsInv /\ SetupInv /\ AbortCauses /\ [Next]_vars => AbortCauses'
  BY CausesInduction
<1> QED
  BY <1>1, <1>2, <1>3, <1>4, InitType, TypeInduction, InitLists, InitSetup, PTL DEF Spec


-----------------------------------------------------------------------------
(* The agent implements IndicationQueue.                                    *)

\* Sequences in front of a sequence: its end and its beginning.
LEMMA ConcatAppend ==
    ASSUME NEW a \in Seq(Ids), NEW b \in Seq(Ids), NEW e \in Ids
    PROVE  a \o Append(b, e) = Append(a \o b, e)
  OBVIOUS

LEMMA ConcatTail ==
    ASSUME NEW a \in Seq(Ids), NEW b \in Seq(Ids), a # <<>>
    PROVE  a \o b # <<>> /\ Tail(a) \o b = Tail(a \o b)
  OBVIOUS

LEMMA ConcatEmpty ==
    ASSUME NEW a \in Seq(Ids)
    PROVE  a \o <<>> = a /\ <<>> \o a = a
  OBVIOUS

\* A step that leaves the indications where they are, and begins or ends no reading
\* of the pipe.
LEMMA UnsentStutter ==
    ASSUME UNCHANGED <<batch, aind, unsent>>,
           agent'.at = "consume" <=> agent.at = "consume"
    PROVE  UNCHANGED Indications!vars
  BY DEF Indications!vars, Unsent

\* A handler of a message neither begins nor ends at the pipe.
LEMMA HandlerStutter ==
    ASSUME TypeInv,
           \/ ReadMessage \/ ListParameter \/ EndOfReport \/ WrongStyle
           \/ RegisterEvent \/ Answer
           \/ FindEvent \/ UnlistSubscription \/ BeginExtract \/ EndExtract
           \/ StopSetup \/ AddSetup \/ SetupTimeout
    PROVE  UNCHANGED Indications!vars
<1>1. UNCHANGED <<batch, aind, unsent>>
  BY DEF ReadMessage, ListParameter, EndOfReport, WrongStyle, RegisterEvent, Answer,
         FindEvent, UnlistSubscription, BeginExtract, EndExtract, StopSetup, AddSetup, SetupTimeout, loopVars, channel, history
<1>2. agent.at # "consume"
  BY DEF ReadMessage, ListParameter, EndOfReport, WrongStyle, RegisterEvent, Answer,
         FindEvent, UnlistSubscription, BeginExtract, EndExtract, StopSetup, AddSetup, SetupTimeout, LoopAt
<1>3. TypeOK
  BY DEF TypeInv
<1>4. agent'.at # "consume"
  <2>1. CASE agent' = agent
    BY <1>2, <2>1
  <2>2. CASE agent' = LoopIdle
    BY <2>2, IdleType
  <2>3. CASE \E step \in {"register", "answer", "unlist", "extract", "extracting"} :
                LoopGoes(step)
    BY <1>3, <2>3, GoesType
  <2>4. CASE ReadMessage
    <3>1. Head(inbox) \in Message
      <4>1. inbox \in Seq(Message) /\ inbox # <<>>
        BY <1>3, <2>4, TypeFacts DEF ReadMessage, Reported
      <4> QED
        BY <4>1
    <3>2. agent'.at = FirstStep(Head(inbox))
      BY <2>4 DEF ReadMessage
    <3>3. FirstStep(Head(inbox)) # "consume"
      BY <3>1, FirstStepFacts
    <3> QED
      BY <3>2, <3>3
  <2>5. \/ ReadMessage \/ agent' = agent \/ agent' = LoopIdle
        \/ \E step \in {"register", "answer", "unlist", "extract", "extracting"} :
              LoopGoes(step)
    <3>1. CASE EndOfReport \/ RegisterEvent \/ UnlistSubscription \/ BeginExtract
      BY <3>1 DEF EndOfReport, RegisterEvent, UnlistSubscription, BeginExtract
    <3>2. CASE \/ ListParameter \/ WrongStyle \/ Answer \/ StopSetup \/ AddSetup
               \/ SetupTimeout
      BY <3>2 DEF ListParameter, WrongStyle, Answer, StopSetup, AddSetup, SetupTimeout, loopVars
    <3>3. CASE FindEvent
      BY <3>3 DEF FindEvent
    <3>4. CASE EndExtract
      BY <3>4 DEF EndExtract
    <3> QED
      BY <3>1, <3>2, <3>3, <3>4
  <2> QED
    BY <2>1, <2>2, <2>3, <2>4, <2>5
<1> QED
  BY <1>1, <1>2, <1>4, UnsentStutter

\* The RAN thread hands an indication over.
LEMMA PushEventHandsOver ==
    ASSUME TypeInv, PushEvent
    PROVE  \E id \in Ids : Indications!HandOver(id)
<1>1. ran.id \in Ids
  BY KindsAssumption DEF PushEvent, RanAt, TypeInv, RanInv
<1>2. /\ aind' = Append(aind, ran.id) /\ unsent' = unsent + 1 /\ batch' = batch
      /\ agent' = agent
  BY DEF PushEvent, loopVars
<1>3. batch \in Seq(Ids) /\ aind \in Seq(Ids)
  BY TypeFacts DEF TypeInv
<1>4. Unsent' = Append(Unsent, ran.id)
  <2>1. CASE agent.at = "consume"
    <3>1. Tail(batch) \in Seq(Ids)
      BY <1>3, <2>1 DEF TypeInv, QueueInv
    <3>2. Unsent = Tail(batch) \o aind /\ Unsent' = Tail(batch) \o Append(aind, ran.id)
      BY <1>2, <2>1 DEF Unsent
    <3> QED
      BY <1>1, <1>3, <3>1, <3>2, ConcatAppend
  <2>2. CASE agent.at # "consume"
    <3>1. Unsent = batch \o aind /\ Unsent' = batch \o Append(aind, ran.id)
      BY <1>2, <2>2 DEF Unsent
    <3> QED
      BY <1>1, <1>3, <3>1, ConcatAppend
  <2> QED
    BY <2>1, <2>2
<1>5. Indications!HandOver(ran.id)
  BY <1>2, <1>4 DEF Indications!HandOver
<1> QED
  BY <1>1, <1>5

\* The loop sends the oldest indication that is waiting.
LEMMA SendIndicationSends ==
    ASSUME TypeInv, SendIndication
    PROVE  Indications!Send
<1>1. /\ TypeOK /\ agent.at = "send" /\ LoopGoes("consume") /\ unsent' = unsent - 1
      /\ batch' = batch /\ aind' = aind
  BY DEF TypeInv, SendIndication, LoopAt, channel
<1>2. batch \in Seq(Ids) /\ aind \in Seq(Ids) /\ batch # <<>>
  BY <1>1, TypeFacts DEF TypeInv, QueueInv
<1>3. agent'.at = "consume"
  BY <1>1, GoesType
<1>4. Unsent = batch \o aind /\ Unsent' = Tail(batch) \o aind
  BY <1>1, <1>3 DEF Unsent
<1>5. Unsent # <<>> /\ Unsent' = Tail(Unsent)
  BY <1>2, <1>4, ConcatTail
<1> QED
  BY <1>1, <1>5 DEF Indications!Send

\* Taking the queue moves the indications, in their order.
LEMMA TakeBatchStutter ==
    ASSUME TypeInv, TakeBatch
    PROVE  UNCHANGED Indications!vars
<1>1. TypeOK /\ agent.at = "idle" /\ batch = <<>> /\ aind' = <<>> /\ unsent' = unsent
  BY DEF TypeInv, QueueInv, TakeBatch, LoopAt, history
<1>2. aind \in Seq(Ids)
  BY <1>1, TypeFacts
<1>3. agent'.at # "consume" /\ batch' = aind
  <2>1. CASE aind # <<>> /\ batch' = aind /\ LoopGoes("send")
    <3>1. agent'.at = "send"
      BY <1>1, <2>1, GoesType
    <3> QED
      BY <2>1, <3>1
  <2>2. CASE aind = <<>> /\ UNCHANGED <<batch, agent>>
    BY <1>1, <2>2
  <2> QED
    BY <2>1, <2>2 DEF TakeBatch
<1>4. Unsent = <<>> \o aind /\ Unsent' = aind \o <<>>
  BY <1>1, <1>3 DEF Unsent
<1>5. Unsent' = Unsent
  BY <1>2, <1>4, ConcatEmpty
<1> QED
  BY <1>1, <1>5 DEF Indications!vars

\* Reading the pipe finishes an indication that was sent before.
LEMMA ConsumePipeStutter ==
    ASSUME TypeInv, ConsumePipe
    PROVE  UNCHANGED Indications!vars
<1>1. TypeOK /\ agent.at = "consume" /\ aind' = aind /\ unsent' = unsent
  BY DEF TypeInv, ConsumePipe, LoopAt, history
<1>2. \/ /\ batch' = Tail(batch)
         /\ agent' = IF Len(batch) = 1 THEN LoopIdle ELSE [agent EXCEPT !.at = "send"]
      \/ UNCHANGED <<batch, agent>>
  BY DEF ConsumePipe
<1>3. CASE UNCHANGED <<batch, agent>>
  BY <1>1, <1>3, UnsentStutter
<1>4. CASE /\ batch' = Tail(batch)
           /\ agent' = IF Len(batch) = 1 THEN LoopIdle ELSE [agent EXCEPT !.at = "send"]
  <2>1. agent'.at # "consume"
    <3>1. CASE agent' = LoopIdle
      BY <3>1, IdleType
    <3>2. CASE LoopGoes("send")
      <4>1. agent'.at = "send"
        BY <1>1, <3>2, GoesType
      <4> QED
        BY <4>1
    <3> QED
      BY <1>4, <3>1, <3>2 DEF LoopGoes
  <2>2. Unsent = Tail(batch) \o aind /\ Unsent' = Tail(batch) \o aind
    BY <1>1, <1>4, <2>1 DEF Unsent
  <2> QED
    BY <1>1, <2>2 DEF Indications!vars
<1> QED
  BY <1>2, <1>3, <1>4

\* Every step of the agent is a step of the queue of indications, or a stutter.
LEMMA IndicationsStep ==
    ASSUME TypeInv, [Next]_vars
    PROVE  [Indications!Next]_(Indications!vars)
<1>1. CASE UNCHANGED vars
  BY <1>1, UnsentStutter DEF vars, loopVars, channel, history
<1>2. CASE \/ ReadMessage \/ ListParameter \/ EndOfReport \/ WrongStyle
           \/ RegisterEvent \/ Answer
           \/ FindEvent \/ UnlistSubscription \/ BeginExtract \/ EndExtract
           \/ StopSetup \/ AddSetup \/ SetupTimeout
  BY <1>2, HandlerStutter
<1>3. CASE TakeBatch \/ ConsumePipe
  BY <1>3, TakeBatchStutter, ConsumePipeStutter
<1>4. CASE SendIndication
  BY <1>4, SendIndicationSends DEF Indications!Next
<1>5. CASE PushEvent
  BY <1>5, PushEventHandsOver DEF Indications!Next
<1>6. CASE Signal \/ ReadEntry \/ SearchEvent \/ WritePipe
  <2>1. UNCHANGED <<agent, batch, aind, unsent>>
    BY <1>6 DEF Signal, ReadEntry, SearchEvent, WritePipe, loopVars, channel, history
  <2> QED
    BY <2>1, UnsentStutter
<1>7. CASE RicAnswersSetup \/ (\E id \in Ids : RicRequests(id))
             \/ (\E id \in Ids : RicDeletes(id)) \/ RicIsLost
  <2>1. UNCHANGED <<agent, batch, aind, unsent>>
    BY <1>7 DEF RicAnswersSetup, RicRequests, RicDeletes, RicIsLost, channel, loopVars, history
  <2> QED
    BY <2>1, UnsentStutter
<1> QED
  BY <1>1, <1>2, <1>3, <1>4, <1>5, <1>6, <1>7 DEF Next

\* The agent implements IndicationQueue: for any number of subscriptions and signals,
\* each indication that a RAN thread queues is sent once and in the order of the
\* handovers, whatever of the loop's sending, its reading of the pipe and the taking of
\* batches comes between.
THEOREM ImplementsIndications == Spec => IndicationsSpec
<1>1. Init => Indications!Init
  <2>1. Init => agent.at = "idle" /\ batch = <<>> /\ aind = <<>> /\ unsent = 0
    BY DEF Init, LoopIdle
  <2>2. <<>> \o <<>> = <<>>
    BY ConcatEmpty
  <2> QED
    BY <2>1, <2>2 DEF Indications!Init, Unsent
<1>2. TypeInv /\ [Next]_vars => [Indications!Next]_(Indications!vars)
  BY IndicationsStep
<1> QED
  BY <1>1, <1>2, InitType, TypeInduction, PTL DEF Spec, IndicationsSpec, Indications!Spec
=============================================================================
