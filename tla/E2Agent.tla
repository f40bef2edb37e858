------------------------------- MODULE E2Agent -------------------------------
(***************************************************************************)
(* The E2 agent inside the gNB.  Its event loop reads one message of the   *)
(* near-RT RIC per event of an edge-triggered socket, keeps the indication *)
(* events of the subscriptions and sends what the RAN has queued.  A       *)
(* subscription to the RC service model is listed once per parameter of    *)
(* its report, in the list of that parameter.  A RAN thread that signals   *)
(* an event walks one of the lists under a lock of its own, queues an      *)
(* indication for each condition that matches and writes the decimal       *)
(* digits of the request id into a pipe, from which the loop reads four    *)
(* bytes per indication.  The setup procedure with the RIC repeats its     *)
(* request every three seconds.  A failed assert() ends the process:       *)
(* aborted then names the assertion.                                       *)
(***************************************************************************)
EXTENDS Naturals, Sequences, FiniteSets

CONSTANTS
    Ids,          \* request ids that the RIC gives to subscriptions and controls
    Aperiodic,    \* those that are aperiodic RC subscriptions
    Controls,     \* those that are controls
    Lists,        \* lists of RC subscriptions, one per parameter that is implemented
    Reports,      \* for an aperiodic id, the lists of the parameters of its report
    Conditions,   \* for an aperiodic id, the conditions of its event trigger
    Tries,        \* searches of a RAN thread for a request id (10)
    MaxRequests,  \* bound: subscriptions and controls of the RIC
    MaxSignals,   \* bound: events that the RAN signals
    MaxResends,   \* bound: setup requests that are sent again
    MaxLosses     \* bound: losses of the connection with the RIC

ASSUME IdsAssumption == Ids \subseteq 1 .. 65535
ASSUME KindsAssumption == Aperiodic \subseteq Ids /\ Controls \subseteq Ids \ Aperiodic
ASSUME ReportsAssumption ==
    Reports \in [Aperiodic -> SUBSET Seq(Lists)] /\ Conditions \in [Aperiodic -> Nat]
ASSUME AgentBoundsAssumption ==
    /\ Tries \in Nat \ {0} /\ MaxRequests \in Nat
    /\ MaxSignals \in Nat /\ MaxResends \in Nat /\ MaxLosses \in Nat

VARIABLES
    \* the event loop
    agent,        \* where it is, and the message that it handles
    batch,        \* the indications that it took from the queue
    setups,       \* pending setup events, a timer each
    \* the RAN thread
    ran,          \* where it is in a list of subscriptions
    \* shared by the threads
    ind_event,    \* the indication events, in the order of their subscriptions
    rc_subs,      \* the lists of RC subscriptions
    listed,       \* the lists that the report being handled was put into
    aind,         \* the queue of indications
    pipe,         \* the bytes in the pipe
    edge,         \* the pipe was written to since epoll last reported it
    \* the socket and the RIC
    inbox,        \* messages that the agent has not read
    ready,        \* a message arrived since epoll last reported the socket
    owed,         \* setup requests that the RIC has not answered
    up,           \* the RIC has registered the agent
    used,         \* request ids that the RIC has given
    served,       \* subscriptions that the RIC may delete
    \* the process and its history
    aborted,      \* the assertion that failed, or "no"
    repeated,     \* subscriptions with a parameter that their report repeats
    unsent,       \* indications queued and not yet sent
    requests, signals, resends, losses

loopVars == <<agent, batch, setups>>
maps == <<ind_event, rc_subs, listed, repeated>>
channel == <<aind, pipe, edge>>
socket == <<inbox, ready>>
ric == <<owed, up, used, served>>
history == <<unsent, requests, signals, resends, losses>>
vars == <<loopVars, ran, maps, channel, socket, ric, aborted, history>>

Message == [op: {"sub", "del", "control"}, id: Ids] \cup
           [op: {"setup response", "shutdown"}, id: {0}]
SetupResponse == [op |-> "setup response", id |-> 0]
Shutdown == [op |-> "shutdown", id |-> 0]

\* Between two events nothing is left of the message or of the walk.
LoopIdle == [at |-> "idle", msg |-> Shutdown]
RanIdle ==
    [at |-> "idle", list |-> "none", i |-> 0, n |-> 0, id |-> 0, left |-> 0, tries |-> 0]

Assertions ==
    {"queue is empty", "no bytes in the pipe", "not found RIC Request ID",
     "list index", "maps disagree", "no pending setup", "two pending setups",
     "not a subscription outcome"}

Running == aborted = "no"
Abort(what) == aborted' = what

Entries(id) == {i \in DOMAIN ind_event : ind_event[i] = id}
Registered(id) == Entries(id) # {}
Without(s, i) == SubSeq(s, 1, i - 1) \o SubSeq(s, i + 1, Len(s))

\* e2_start_agent has sent the setup request and armed its timer.
Init ==
    /\ agent = LoopIdle /\ batch = <<>> /\ setups = 1 /\ ran = RanIdle
    /\ ind_event = <<>> /\ rc_subs = [l \in Lists |-> <<>>] /\ listed = <<>>
    /\ repeated = {}
    /\ aind = <<>> /\ pipe = 0 /\ edge = FALSE
    /\ inbox = <<>> /\ ready = FALSE
    /\ owed = 1 /\ up = FALSE /\ used = {} /\ served = {}
    /\ aborted = "no" /\ unsent = 0
    /\ requests = 0 /\ signals = 0 /\ resends = 0 /\ losses = 0

-----------------------------------------------------------------------------
(* The event loop: messages of the RIC.                                     *)

LoopAt(step) == Running /\ agent.at = step
LoopGoes(step) == agent' = [agent EXCEPT !.at = step]

\* EPOLLET: a socket is reported once for all that arrived before.
Reported == ready /\ inbox # <<>>

\* The first step of the handler of a message.
FirstStep(m) ==
    CASE m.op = "sub"            -> IF m.id \in Aperiodic THEN "list" ELSE "register"
      [] m.op = "del"            -> "find"
      [] m.op = "control"        -> "answer"
      [] m.op = "setup response" -> "stop setup"
      [] m.op = "shutdown"       -> "add setup"

\* next_async_event_agent for the socket.
ReadMessage ==
    /\ LoopAt("idle") /\ Reported
    /\ agent' = [at |-> FirstStep(Head(inbox)), msg |-> Head(inbox)]
    /\ inbox' = Tail(inbox) /\ ready' = FALSE
    /\ UNCHANGED <<batch, setups, ran, maps, channel, ric, aborted, history>>

Begins(s, report) == Len(s) <= Len(report) /\ s = SubSeq(report, 1, Len(s))
Has(s, l) == \E k \in DOMAIN s : s[k] = l

\* get_sa and insert_rc_subs_data for the next parameter of the report: rs1_param3 and
\* rs1_param4 are the lists of one report style, rs4_param202 that of another.
ListParameter ==
    /\ LoopAt("list")
    /\ \E l \in Lists :
          /\ \E report \in Reports[agent.msg.id] : Begins(Append(listed, l), report)
          /\ rc_subs' = [rc_subs EXCEPT ![l] = Append(@, agent.msg.id)]
          /\ listed' = Append(listed, l)
          /\ repeated' = IF Has(listed, l) THEN repeated \cup {agent.msg.id} ELSE repeated
    /\ UNCHANGED <<agent, batch, setups, ran, ind_event, channel, socket, ric, aborted,
                   history>>

\* The end of get_list_for_report_style.  A parameter that is not implemented is in no
\* list: the report may be empty.
EndOfReport ==
    /\ LoopAt("list") /\ listed \in Reports[agent.msg.id]
    /\ LoopGoes("register")
    /\ UNCHANGED <<batch, setups, ran, maps, channel, socket, ric, aborted, history>>

\* write_subs_rc_sm returns before the report when the event trigger is not of its
\* style, with an answer that on_subscription_rc_sm_ag takes for no outcome.
WrongStyle ==
    /\ LoopAt("list") /\ listed = <<>>
    /\ Abort("not a subscription outcome")
    /\ UNCHANGED <<loopVars, ran, maps, channel, socket, ric, history>>

\* Mutant: an aperiodic subscription is not answered, as it has no timer.
RegisterUnanswered ==
    /\ LoopAt("register")
    /\ ind_event' = Append(ind_event, agent.msg.id) /\ listed' = <<>>
    /\ agent' = IF agent.msg.id \in Aperiodic THEN LoopIdle ELSE [agent EXCEPT !.at = "answer"]
    /\ UNCHANGED <<batch, setups, ran, rc_subs, repeated, channel, socket, ric, aborted,
                   history>>

\* The insertion of the indication event.
RegisterEvent ==
    /\ LoopAt("register")
    /\ ind_event' = Append(ind_event, agent.msg.id) /\ listed' = <<>>
    /\ LoopGoes("answer")
    /\ UNCHANGED <<batch, setups, ran, rc_subs, repeated, channel, socket, ric, aborted,
                   history>>

\* e2ap_send_bytes_agent with the answer to a request.
Answer ==
    /\ LoopAt("answer")
    /\ served' = IF agent.msg.op = "sub" /\ agent.msg.id \in used
                 THEN served \cup {agent.msg.id} ELSE served
    /\ agent' = LoopIdle
    /\ UNCHANGED <<batch, setups, ran, maps, channel, socket, owed, up, used, aborted, history>>

\* stop_ind_event: the search, without the lock.
FindEvent ==
    /\ LoopAt("find")
    /\ LoopGoes(IF ~Registered(agent.msg.id) THEN "answer"
                ELSE IF agent.msg.id \in Aperiodic THEN "unlist" ELSE "extract")
    /\ UNCHANGED <<batch, setups, ran, maps, channel, socket, ric, aborted, history>>

\* Mutant: the subscription stays in the list.
KeepListed(s, id) == s

\* The first entry of the id is erased.
Unlisted(s, id) ==
    LET at == {i \in DOMAIN s : s[i] = id} IN
    IF at = {} THEN s ELSE Without(s, CHOOSE i \in at : \A j \in at : i <= j)

\* free_subs_aperiodic: remove_rc_subs_data, in every list.
UnlistSubscription ==
    /\ LoopAt("unlist")
    /\ rc_subs' = [l \in Lists |-> Unlisted(rc_subs[l], agent.msg.id)]
    /\ LoopGoes("extract")
    /\ UNCHANGED <<batch, setups, ran, ind_event, listed, repeated, channel, socket, ric,
                   aborted, history>>

\* bi_map_extract_right takes an entry of the id out of one tree, and the first
\* entry it finds with the same descriptor out of the other.  A timer has its own
\* descriptor; all aperiodic subscriptions have descriptor 0, and which of them is
\* found depends on the shape of the tree.
SameDescriptor(id) ==
    IF id \in Aperiodic THEN {i \in DOMAIN ind_event : ind_event[i] \in Aperiodic}
                        ELSE Entries(id)

\* bi_map_extract_right under no lock: a RAN thread may search meanwhile.
BeginExtract ==
    /\ LoopAt("extract") /\ LoopGoes("extracting")
    /\ UNCHANGED <<batch, setups, ran, maps, channel, socket, ric, aborted, history>>

\* One step of bi_map_extract_right: an entry leaves both trees.
EndExtract ==
    /\ LoopAt("extracting")
    /\ \E i \in SameDescriptor(agent.msg.id) :
          \/ /\ ind_event[i] = agent.msg.id /\ UNCHANGED aborted
             /\ ind_event' = Without(ind_event, i) /\ LoopGoes("answer")
          \/ /\ ind_event[i] # agent.msg.id /\ UNCHANGED <<ind_event, agent>>
             /\ Abort("maps disagree")
    /\ UNCHANGED <<batch, setups, ran, rc_subs, listed, repeated, channel, socket, ric,
                   history>>

-----------------------------------------------------------------------------
(* The event loop: the setup procedure.                                     *)

\* Mutant: a response without a pending setup is not noticed.
StopUnchecked ==
    /\ LoopAt("stop setup")
    /\ setups' = setups - 1 /\ agent' = LoopIdle
    /\ UNCHANGED <<batch, ran, maps, channel, socket, ric, aborted, history>>

\* e2ap_handle_setup_response_agent: stop_pending_event.
StopSetup ==
    /\ LoopAt("stop setup")
    /\ \/ setups > 0 /\ setups' = setups - 1 /\ agent' = LoopIdle /\ UNCHANGED aborted
       \/ setups = 0 /\ Abort("no pending setup") /\ UNCHANGED <<setups, agent>>
    /\ UNCHANGED <<batch, ran, maps, channel, socket, ric, history>>

\* notification_handle_ag: another timer, after which the setup request is sent.
AddSetup ==
    /\ LoopAt("add setup")
    /\ setups' = setups + 1 /\ agent' = LoopIdle
    /\ UNCHANGED <<batch, ran, maps, channel, socket, ric, aborted, history>>

\* pend_event, and the PENDING_EVENT of the loop: the setup request is sent again.
SetupTimeout ==
    /\ LoopAt("idle") /\ setups > 0 /\ resends < MaxResends
    /\ resends' = resends + 1
    /\ \/ setups = 1 /\ owed' = owed + 1 /\ UNCHANGED aborted
       \/ setups # 1 /\ Abort("two pending setups") /\ UNCHANGED owed
    /\ UNCHANGED <<loopVars, ran, maps, channel, socket, up, used, served, unsent,
                   requests, signals, losses>>

-----------------------------------------------------------------------------
(* The event loop: aperiodic indications.                                   *)

\* Mutant: one indication is taken for every report of the pipe.
TakeOne ==
    /\ LoopAt("idle") /\ edge /\ pipe > 0 /\ aind # <<>>
    /\ edge' = FALSE /\ batch' = <<Head(aind)>> /\ aind' = Tail(aind) /\ LoopGoes("send")
    /\ UNCHANGED <<setups, ran, maps, pipe, socket, ric, aborted, history>>

\* aind_event: epoll reports the pipe, and all of the queue is taken.
TakeBatch ==
    /\ LoopAt("idle") /\ edge /\ pipe > 0
    /\ edge' = FALSE
    /\ \/ aind # <<>> /\ batch' = aind /\ LoopGoes("send") /\ UNCHANGED aborted
       \/ aind = <<>> /\ Abort("queue is empty") /\ UNCHANGED <<batch, agent>>
    /\ aind' = <<>>
    /\ UNCHANGED <<setups, ran, maps, pipe, socket, ric, history>>

\* The indication is sent, or dropped when the service model has none after all.
SendIndication ==
    /\ LoopAt("send")
    /\ unsent' = unsent - 1 /\ LoopGoes("consume")
    /\ UNCHANGED <<batch, setups, ran, maps, channel, socket, ric, aborted, requests,
                   signals, resends, losses>>

\* The size of read_buf in consume_fd_async.
ReadSize == 4

\* consume_fd_async: the read blocks while the pipe is empty.
ConsumePipe ==
    LET bytes == IF pipe < ReadSize THEN pipe ELSE ReadSize IN
    /\ LoopAt("consume") /\ pipe > 0
    /\ pipe' = pipe - bytes
    /\ \/ /\ bytes # 1 /\ UNCHANGED aborted
          /\ batch' = Tail(batch)
          /\ agent' = IF Len(batch) = 1 THEN LoopIdle ELSE [agent EXCEPT !.at = "send"]
       \/ bytes = 1 /\ Abort("no bytes in the pipe") /\ UNCHANGED <<batch, agent>>
    /\ UNCHANGED <<setups, ran, maps, aind, edge, socket, ric, history>>

-----------------------------------------------------------------------------
(* The RAN thread: signal_rrc_msg, signal_ue_id, signal_rrc_state_changed_to. *)

RanAt(step) == Running /\ ran.at = step

\* The number of subscriptions is read once.
Signal ==
    /\ RanAt("idle") /\ signals < MaxSignals
    /\ signals' = signals + 1
    /\ \E l \in Lists :
          ran' = [RanIdle EXCEPT !.at = "walk", !.list = l, !.i = 1, !.n = Len(rc_subs[l])]
    /\ UNCHANGED <<loopVars, maps, channel, socket, ric, aborted, unsent, requests, resends,
                   losses>>

\* The list that the thread walks.
Walked == rc_subs[ran.list]

NextEntry == ran' = [ran EXCEPT !.at = "walk", !.i = @ + 1, !.id = 0, !.left = 0]

\* seq_arr_at: the entry at the index.  None, one or several of its conditions match
\* the event.
ReadEntry ==
    /\ RanAt("walk")
    /\ \/ ran.i > ran.n /\ ran' = RanIdle /\ UNCHANGED aborted
       \/ ran.i <= ran.n /\ ran.i > Len(Walked) /\ Abort("list index") /\ UNCHANGED ran
       \/ /\ ran.i <= ran.n /\ ran.i <= Len(Walked) /\ UNCHANGED aborted
          /\ \/ \E k \in 1 .. Conditions[Walked[ran.i]] :
                   ran' = [ran EXCEPT !.at = "search", !.id = Walked[ran.i], !.left = k]
             \/ NextEntry
    /\ UNCHANGED <<loopVars, maps, channel, socket, ric, history>>

\* Mutant: the search takes no lock and races the insertion of an event too.
SearchUnlocked ==
    /\ RanAt("search")
    /\ \/ /\ Registered(ran.id) /\ UNCHANGED aborted
          /\ ran' = [ran EXCEPT !.at = "push", !.tries = 0]
       \/ /\ ~Registered(ran.id) \/ agent.at \in {"register", "extracting"}
          /\ ran' = [ran EXCEPT !.tries = @ + 1]
          /\ IF ran.tries + 1 = Tries THEN Abort("not found RIC Request ID")
                                      ELSE UNCHANGED aborted
    /\ UNCHANGED <<loopVars, maps, channel, socket, ric, history>>

\* e2_async_event_agent: the search under mtx_ind_event.  While the loop extracts an
\* entry the outcome of the race is either.
SearchEvent ==
    /\ RanAt("search")
    /\ \/ /\ Registered(ran.id) /\ UNCHANGED aborted
          /\ ran' = [ran EXCEPT !.at = "push", !.tries = 0]
       \/ /\ ~Registered(ran.id) \/ agent.at = "extracting"
          /\ ran' = [ran EXCEPT !.tries = @ + 1]
          /\ IF ran.tries + 1 = Tries THEN Abort("not found RIC Request ID")
                                      ELSE UNCHANGED aborted
    /\ UNCHANGED <<loopVars, maps, channel, socket, ric, history>>

\* Mutant: the queue is a stack.
PushInFront ==
    /\ RanAt("push")
    /\ aind' = <<ran.id>> \o aind /\ unsent' = unsent + 1
    /\ ran' = [ran EXCEPT !.at = "write"]
    /\ UNCHANGED <<loopVars, maps, pipe, edge, socket, ric, aborted, requests, signals,
                   resends, losses>>

\* The indication is put into the queue, then epoll is told through the pipe.
PushEvent ==
    /\ RanAt("push")
    /\ aind' = Append(aind, ran.id) /\ unsent' = unsent + 1
    /\ ran' = [ran EXCEPT !.at = "write"]
    /\ UNCHANGED <<loopVars, maps, pipe, edge, socket, ric, aborted, requests, signals,
                   resends, losses>>

\* Mutant: the terminating zero is written too.
WithTerminator(id) == IF id < 1000 THEN 4 ELSE IF id < 10000 THEN 5 ELSE 6

\* The number of characters of a request id that is printed with %u.
Digits(id) ==
    IF id < 10 THEN 1 ELSE IF id < 100 THEN 2 ELSE IF id < 1000 THEN 3
    ELSE IF id < 10000 THEN 4 ELSE 5

WritePipe ==
    /\ RanAt("write")
    /\ pipe' = pipe + Digits(ran.id) /\ edge' = TRUE
    /\ \/ ran.left > 1 /\ ran' = [ran EXCEPT !.at = "search", !.left = @ - 1]
       \/ ran.left = 1 /\ NextEntry
    /\ UNCHANGED <<loopVars, maps, aind, socket, ric, aborted, history>>

-----------------------------------------------------------------------------
(* The near-RT RIC, as the agent meets it.                                  *)

Arrives(m) == inbox' = Append(inbox, m) /\ ready' = TRUE

RicAnswersSetup ==
    /\ Running /\ owed > 0
    /\ owed' = owed - 1 /\ up' = TRUE /\ Arrives(SetupResponse)
    /\ UNCHANGED <<loopVars, ran, maps, channel, used, served, aborted, history>>

RicRequests(id) ==
    /\ Running /\ up /\ id \in Ids \ used /\ requests < MaxRequests
    /\ used' = used \cup {id} /\ requests' = requests + 1
    /\ Arrives([op |-> IF id \in Controls THEN "control" ELSE "sub", id |-> id])
    /\ UNCHANGED <<loopVars, ran, maps, channel, owed, up, served, aborted, unsent, signals,
                   resends, losses>>

RicDeletes(id) ==
    /\ Running /\ up /\ id \in served
    /\ served' = served \ {id}
    /\ Arrives([op |-> "del", id |-> id])
    /\ UNCHANGED <<loopVars, ran, maps, channel, owed, up, used, aborted, history>>

\* The connection is lost.  A RIC that starts again knows nothing of the agent and
\* gives the same ids anew.
RicIsLost ==
    /\ Running /\ losses < MaxLosses
    /\ losses' = losses + 1
    /\ owed' = 0 /\ up' = FALSE /\ used' = {} /\ served' = {}
    /\ Arrives(Shutdown)
    /\ UNCHANGED <<loopVars, ran, maps, channel, aborted, unsent, requests, signals,
                   resends>>

-----------------------------------------------------------------------------
Next ==
    \/ ReadMessage \/ ListParameter \/ EndOfReport \/ WrongStyle \/ RegisterEvent \/ Answer
    \/ FindEvent \/ UnlistSubscription \/ BeginExtract \/ EndExtract
    \/ StopSetup \/ AddSetup \/ SetupTimeout
    \/ TakeBatch \/ SendIndication \/ ConsumePipe
    \/ Signal \/ ReadEntry \/ SearchEvent \/ PushEvent \/ WritePipe
    \/ RicAnswersSetup
    \/ \E id \in Ids : RicRequests(id)
    \/ \E id \in Ids : RicDeletes(id)
    \/ RicIsLost

Spec == Init /\ [][Next]_vars

\* The loop and the RAN thread go on with what they have begun, and epoll reports
\* what is ready.  Nothing is assumed of the timers, the RAN's events or the RIC.
Fairness ==
    /\ WF_vars(ReadMessage) /\ WF_vars(TakeBatch)
    /\ WF_vars(\/ ListParameter \/ EndOfReport \/ RegisterEvent \/ Answer \/ FindEvent
               \/ UnlistSubscription \/ BeginExtract \/ EndExtract \/ StopSetup
               \/ AddSetup \/ SendIndication \/ ConsumePipe)
    /\ WF_vars(ReadEntry \/ SearchEvent \/ PushEvent \/ WritePipe)

FairSpec == Spec /\ Fairness

-----------------------------------------------------------------------------
(* Properties.                                                              *)

\* The variables have their types.
TypeOK ==
    /\ agent \in [at: {"idle", "list", "register", "answer", "find", "unlist", "extract",
                       "extracting", "stop setup", "add setup", "send", "consume"},
                  msg: Message]
    /\ batch \in Seq(Ids) /\ setups \in Nat
    /\ ran \in [at: {"idle", "walk", "search", "push", "write"}, list: Lists \cup {"none"},
                i: Nat, n: Nat, id: Ids \cup {0}, left: Nat, tries: Nat]
    /\ ind_event \in Seq(Ids) /\ rc_subs \in [Lists -> Seq(Ids)]
    /\ listed \in Seq(Lists) /\ repeated \subseteq Ids /\ aind \in Seq(Ids)
    /\ pipe \in Nat /\ edge \in BOOLEAN
    /\ inbox \in Seq(Message) /\ ready \in BOOLEAN
    /\ owed \in Nat /\ up \in BOOLEAN /\ used \subseteq Ids /\ served \subseteq Ids
    /\ aborted \in Assertions \cup {"no"}
    /\ unsent \in Nat /\ requests \in Nat /\ signals \in Nat /\ resends \in Nat
    /\ losses \in Nat

\* The RIC numbers its requests from 1021: the first 8979 of them have four digits.
FourDigits == Ids \subseteq 1000 .. 9999

\* The pipe and the queue agree: the loop never meets an empty queue
\* (e2_agent.c:224), nor a single byte (e2_agent.c:357, :370), whenever a RAN thread
\* queues an indication and writes to the pipe.
PipeSound == aborted \notin {"queue is empty", "no bytes in the pipe"}

\* Between two events of the loop no list names an aperiodic subscription more often
\* than it has indication events, unless its report repeated a parameter: what a RAN
\* thread then reads from a list has an event, though a subscription is listed once
\* per parameter, is unlisted by its id and is given anew by a RIC that was lost.
Occurrences(s, id) == Cardinality({i \in DOMAIN s : s[i] = id})
ListedIsRegistered ==
    LoopAt("idle") =>
        \A l \in Lists, id \in Aperiodic \ repeated :
            Occurrences(rc_subs[l], id) <= Occurrences(ind_event, id)

\* What the other failures need.  A RAN thread that finds no indication event
\* (e2_agent.c:561) has met a subscription that the loop is adding, one that was
\* deleted since it was read from the list, or one whose report repeated a parameter;
\* the two trees disagree (bimap.c:126) only when another aperiodic subscription
\* exists; a setup response without a pending setup needs a request that was sent
\* twice, and two pending setups (e2_agent.c:242) a lost connection.
AbortCauses ==
    /\ aborted = "not found RIC Request ID" =>
          \/ agent.at = "extracting"
          \/ agent.at \in {"list", "register"} /\ agent.msg.id = ran.id
          \/ ~Has(Walked, ran.id)
          \/ ran.id \in repeated
    /\ aborted = "maps disagree" =>
          \E i, j \in DOMAIN ind_event :
              /\ ind_event[i] \in Aperiodic /\ ind_event[j] \in Aperiodic
              /\ ind_event[i] # ind_event[j]
    /\ aborted = "no pending setup" => resends > 0
    /\ aborted = "two pending setups" => losses > 0

\* The agent implements the queue of indications: what the loop took and has not
\* sent comes before what is still in the queue, so that none is lost, sent twice or
\* overtaken when a RAN thread queues more while the loop sends and reads the pipe.
Unsent == (IF agent.at = "consume" THEN Tail(batch) ELSE batch) \o aind
Indications == INSTANCE IndicationQueue WITH waiting <- Unsent
IndicationsSpec == Indications!Spec

\* Every indication that a RAN thread has queued is sent, though epoll reports the
\* pipe once for several of them.
IndicationSent == unsent > 0 ~> (unsent = 0 \/ ~Running)

\* A request that is alone in the socket is answered.  One of several that arrive
\* between two events waits for the next message: the socket is edge-triggered and
\* one message is read per event.
RequestAnswered ==
    \A id \in Ids :
        (ready /\ \E op \in {"sub", "del"} : inbox = <<[op |-> op, id |-> id]>>) ~>
        ((agent.at = "answer" /\ agent.msg.id = id) \/ ~Running)
=============================================================================
