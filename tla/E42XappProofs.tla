--------------------------- MODULE E42XappProofs ---------------------------
(***************************************************************************)
(* Theorems about E42Xapp, for every value of the constants.               *)
(***************************************************************************)
EXTENDS E42Xapp, FiniteSetTheorems, TLAPS

\* A control is never at the step that arms a timer.
ArmsTimer == ui.at = "arm" => ui.proc.op \in {"sub", "del"}

\* The actions that leave the UI thread, the registry and the application
\* alone: the event loop, the RIC and time.
Background ==
    \/ StartXapp \/ HandleSetupResponse
    \/ HandleControlAnswer \/ HandleSubscriptionAnswer \/ Disarm \/ SignalSyncUi
    \/ TimerFires \/ RicAnswers \/ RicAnswersSetup \/ Tick

LEMMA BackgroundFrame ==
    ASSUME Background
    PROVE  UNCHANGED <<ui, act_proc, key_id, subs, success, failed>>
  BY DEF Background, StartXapp, HandleSetupResponse, HandleControlAnswer,
         HandleSubscriptionAnswer, Disarm, SignalSyncUi, TimerFires, RicAnswers,
         RicAnswersSetup, Tick, app

LEMMA FollowingType ==
    ASSUME NEW op \in Ops, NEW step \in {"call", "prepare", "arm", "send"}
    PROVE  /\ Following(op, step) \in {"prepare", "arm", "send", "enter"}
           /\ Following(op, step) = "arm" => op \in {"sub", "del"}
  BY DEF Following, Ops

LEMMA ConstantTypes == ReqIdLimit \in Nat /\ SubWait \in Nat /\ DelWait \in Nat
                       /\ UiWait \in Nat /\ SetupWait \in Nat
  BY XappConstants

-----------------------------------------------------------------------------
(* Type correctness.                                                        *)

LEMMA InitType == Init => TypeOK /\ ArmsTimer
<1> SUFFICES ASSUME Init PROVE TypeOK /\ ArmsTimer
  OBVIOUS
<1>1. NoProc \in Proc
  BY DEF NoProc, Proc, Ops
<1>2. ui \in [proc: Proc, at: Steps] /\ ArmsTimer
  BY <1>1 DEF Init, ArmsTimer, Steps
<1>3. loop \in [at: {"start", "poll", "disarm", "signal"}, proc: Proc]
  BY <1>1 DEF Init
<1>4. act_proc \in SUBSET (1 .. key_id - 1) /\ key_id \in Nat \ {0}
  BY DEF Init
<1>5. flag_sync \in BOOLEAN /\ connected \in BOOLEAN
  BY DEF Init
<1> QED
  BY <1>2, <1>3, <1>4, <1>5 DEF Init, TypeOK

LEMMA CallType ==
    ASSUME TypeOK, NEW op \in {"control", "sub"}, Call(op)
    PROVE  TypeOK' /\ ArmsTimer'
<1>1. key_id \in Nat \ {0} /\ act_proc \in SUBSET (1 .. key_id - 1)
  BY DEF TypeOK
<1>2. act_proc' \in SUBSET (1 .. key_id' - 1) /\ key_id' \in Nat \ {0}
  <2>1. key_id' = key_id + 1 /\ act_proc' = act_proc \cup {key_id}
    BY DEF Call, AddActProc, NewKey
  <2>2. key_id' - 1 = key_id
    BY <1>1, <2>1
  <2> QED
    BY <1>1, <2>1, <2>2
<1>3. ui' \in [proc: Proc, at: Steps] /\ ArmsTimer' /\ aborted' \in Assertions \cup {"no"}
  <2>1. op \in Ops
    BY DEF Ops
  <2>2. CASE Start(op, NewKey) /\ UNCHANGED aborted
    <3>1. Following(op, "call") = "prepare"
      BY DEF Following
    <3> QED
      BY <1>1, <2>1, <2>2, <3>1 DEF Start, NewKey, TypeOK, ArmsTimer, Proc, Steps
  <2>3. CASE Abort("req_id overflow") /\ UNCHANGED ui
    <3>1. ui.at = "idle"
      BY DEF Call, At
    <3> QED
      BY <2>3, <3>1 DEF Abort, Assertions, TypeOK, ArmsTimer
  <2> QED
    BY <2>2, <2>3 DEF Call
<1> QED
  BY <1>2, <1>3 DEF Call, TypeOK, app, sync, setup, net

LEMMA CallRmReportType ==
    ASSUME TypeOK, CallRmReport
    PROVE  TypeOK' /\ ArmsTimer'
<1>1. ui' \in [proc: Proc, at: Steps] /\ ArmsTimer' /\ aborted' \in Assertions \cup {"no"}
  <2>1. PICK h \in subs :
           \/ Registered(h) /\ Start("del", h) /\ UNCHANGED aborted
           \/ ~Registered(h) /\ Abort("handle not registered") /\ UNCHANGED ui
    BY DEF CallRmReport
  <2>2. CASE Start("del", h) /\ UNCHANGED aborted
    <3>1. Following("del", "call") = "prepare" /\ h \in Nat
      BY DEF Following, TypeOK
    <3> QED
      BY <2>2, <3>1 DEF Start, TypeOK, ArmsTimer, Proc, Steps, Ops
  <2>3. CASE Abort("handle not registered") /\ UNCHANGED ui
    <3>1. ui.at = "idle"
      BY DEF CallRmReport, At
    <3> QED
      BY <2>3, <3>1 DEF Abort, Assertions, TypeOK, ArmsTimer
  <2> QED
    BY <2>1, <2>2, <2>3
<1> QED
  BY <1>1 DEF CallRmReport, TypeOK, app, sync, setup, net

LEMMA GoToType ==
    ASSUME TypeOK, NEW step \in Steps, GoTo(step)
    PROVE  ui' \in [proc: Proc, at: Steps] /\ ui'.proc = ui.proc /\ ui'.at = step
  BY DEF TypeOK, GoTo

LEMMA AdvanceType ==
    ASSUME TypeOK, Advance, ui.at \in {"prepare", "arm", "send"}
    PROVE  /\ ui' \in [proc: Proc, at: Steps] /\ ArmsTimer'
           /\ ui'.proc = ui.proc /\ ui'.at = Following(ui.proc.op, ui.at)
<1>1. ui.proc.op \in Ops
  BY DEF TypeOK, Proc
<1>2. /\ Following(ui.proc.op, ui.at) \in {"prepare", "arm", "send", "enter"}
      /\ Following(ui.proc.op, ui.at) = "arm" => ui.proc.op \in {"sub", "del"}
  BY <1>1, FollowingType
<1>3. Following(ui.proc.op, ui.at) \in Steps
  BY <1>2 DEF Steps
<1> QED
  BY <1>2, <1>3, GoToType DEF Advance, ArmsTimer

LEMMA ReturnType ==
    ASSUME TypeOK, NEW ok \in BOOLEAN, Return(ok)
    PROVE  TypeOK' /\ ArmsTimer'
<1>1. act_proc' \subseteq act_proc /\ key_id' = key_id
  BY DEF Return, Release
<1>2. subs' \in SUBSET Nat /\ success' \in SUBSET Nat
  <2>1. ui.proc.id \in Nat
    BY DEF TypeOK, Proc
  <2>2. subs' \in {subs, subs \cup {ui.proc.id}, subs \ {ui.proc.id}}
    BY DEF Return
  <2>3. success' \in {success, success \cup {ui.proc.id}}
    BY DEF Return
  <2> QED
    BY <2>1, <2>2, <2>3 DEF TypeOK
<1>3. ui' \in [proc: Proc, at: Steps] /\ ArmsTimer' /\ ui_left' \in Nat
  BY DEF Return, ArmsTimer, Proc, Ops, NoProc, Steps
<1> QED
  BY <1>1, <1>2, <1>3 DEF Return, TypeOK, sync, setup, net

LEMMA SetupEventType == SetupEvent \in Event
  BY ConstantTypes DEF SetupEvent, Event

LEMMA TickType ==
    ASSUME TypeOK, Tick
    PROVE  ui_left' \in Nat /\ pending' \in SUBSET Event
<1>1. \A n \in Nat : Less(n) \in Nat
  BY DEF Less
<1>2. ui_left' \in Nat
  BY <1>1 DEF Tick, TypeOK
<1>3. \A e \in Event : [e EXCEPT !.left = Less(@)] \in Event
  BY <1>1 DEF Event
<1>4. pending \subseteq Event
  BY DEF TypeOK
<1> QED
  BY <1>2, <1>3, <1>4 DEF Tick

LEMMA UIType ==
    ASSUME TypeOK, ArmsTimer, UI
    PROVE  TypeOK' /\ ArmsTimer'
<1>1. CASE InitDone
  <2>1. ui' \in [proc: Proc, at: Steps] /\ ui'.at = "idle"
    BY <1>1, GoToType, "idle" \in Steps DEF InitDone, Steps
  <2> QED
    BY <1>1, <2>1 DEF InitDone, TypeOK, ArmsTimer, app, sync, setup, net
<1>2. CASE PrepareSyncUi
  <2>1. ui' \in [proc: Proc, at: Steps] /\ ArmsTimer'
    BY <1>2, AdvanceType DEF PrepareSyncUi, At
  <2>2. flag_sync' \in BOOLEAN
    BY <1>2 DEF PrepareSyncUi
  <2> QED
    BY <1>2, <2>1, <2>2 DEF PrepareSyncUi, TypeOK, app, setup, net
<1>3. CASE SendRequest
  <2>1. ui' \in [proc: Proc, at: Steps] /\ ArmsTimer'
    BY <1>3, AdvanceType DEF SendRequest, At
  <2>2. toRic' \in SUBSET Proc
    BY <1>3 DEF SendRequest, TypeOK
  <2> QED
    BY <1>3, <2>1, <2>2 DEF SendRequest, TypeOK, app, sync, setup
<1>4. CASE ArmTimer
  <2>1. ui' \in [proc: Proc, at: Steps] /\ ArmsTimer'
    BY <1>4, AdvanceType DEF ArmTimer, At
  <2>2. ui.proc.op \in {"sub", "del"} /\ ui.proc.id \in Nat /\ WaitOf(ui.proc.op) \in Nat
    BY <1>4, ConstantTypes DEF ArmTimer, At, ArmsTimer, TypeOK, Proc, WaitOf
  <2>3. pending' \in SUBSET Event
    BY <1>4, <2>2 DEF ArmTimer, TypeOK, Event
  <2> QED
    BY <1>4, <2>1, <2>3 DEF ArmTimer, TypeOK, app, sync, setup, net
<1>5. CASE EnterWait
  <2>1. ui' \in [proc: Proc, at: Steps] /\ ui'.at = "wait"
    BY <1>5, GoToType, "wait" \in Steps DEF EnterWait, Steps
  <2> QED
    BY <1>5, <2>1, ConstantTypes DEF EnterWait, TypeOK, ArmsTimer, app, sync, setup, net
<1>6. CASE DeadlinePasses
  <2>1. ui' \in [proc: Proc, at: Steps] /\ ui'.at = "expired"
    BY <1>6, GoToType, "expired" \in Steps DEF DeadlinePasses, Steps
  <2> QED
    BY <1>6, <2>1 DEF DeadlinePasses, TypeOK, ArmsTimer, app, sync, setup, net
<1>7. CASE WakeUp \/ TimeOut
  BY <1>7, ReturnType DEF WakeUp, TimeOut
<1> QED
  BY <1>1, <1>2, <1>3, <1>4, <1>5, <1>6, <1>7 DEF UI

\* An answer stops one timer, of its own kind, if there is one.
LEMMA DisarmEffect ==
    ASSUME TypeOK, Disarm
    PROVE  /\ pending' \subseteq pending /\ \A e \in pending \ pending' : e.ev # "setup"
           /\ \/ /\ loop' = [loop EXCEPT !.at = "signal"] /\ aborted' = aborted
                 /\ \E e \in pending : e.ev = loop.proc.op /\ pending' = pending \ {e}
              \/ /\ \A e \in pending : e.ev # loop.proc.op
                 /\ loop' = loop /\ pending' = pending
                 /\ aborted' = "pending event not found"
<1>1. \/ /\ loop' = [loop EXCEPT !.at = "signal"] /\ aborted' = aborted
         /\ \E e \in pending : e.ev = loop.proc.op /\ pending' = pending \ {e}
      \/ /\ \A e \in pending : e.ev # loop.proc.op
         /\ loop' = loop /\ pending' = pending
         /\ aborted' = "pending event not found"
  <2>1. CASE RmPendingEvent(loop.proc) /\ loop' = [loop EXCEPT !.at = "signal"] /\ UNCHANGED aborted
    BY <2>1 DEF RmPendingEvent, TimersOf
  <2>2. CASE /\ TimersOf(loop.proc) = {} /\ Abort("pending event not found")
             /\ UNCHANGED <<pending, loop>>
    BY <2>2 DEF Abort, TimersOf
  <2> QED
    BY <2>1, <2>2, Zenon DEF Disarm
<1>2. loop.proc.op # "setup"
  BY DEF TypeOK, Proc, Ops
<1> QED
  BY <1>1, <1>2

LEMMA BackgroundType ==
    ASSUME TypeOK, ArmsTimer, Background
    PROVE  TypeOK' /\ ArmsTimer'
<1>1. /\ ui' = ui /\ act_proc' = act_proc /\ key_id' = key_id
      /\ subs' = subs /\ success' = success /\ failed' = failed /\ ArmsTimer'
  BY BackgroundFrame DEF ArmsTimer
<1>2. CASE StartXapp
  <2>1. loop' \in [at: {"start", "poll", "disarm", "signal"}, proc: Proc]
    BY <1>2 DEF StartXapp, TypeOK
  <2> QED
    BY <1>1, <1>2, <2>1, SetupEventType DEF StartXapp, TypeOK, sync, net
<1>3. CASE HandleSetupResponse
  <2>1. setup_rx' \in Nat
    <3>1. setup_rx > 0 /\ setup_rx' = setup_rx - 1
      BY <1>3, Zenon DEF HandleSetupResponse
    <3> QED
      BY <3>1 DEF TypeOK
  <2>2. pending' \in SUBSET Event /\ setup_tx' \in Nat
    <3>1. \E rest \in SUBSET pending :
             /\ pending' = rest \/ pending' = rest \cup {SetupEvent}
             /\ setup_tx' = setup_tx \/ setup_tx' = setup_tx + 1
      <4> DEFINE timers == {e \in pending : e.ev = "setup"}
      <4>1. pending \ timers \in SUBSET pending /\ pending \in SUBSET pending
        OBVIOUS
      <4>2. \/ pending' = pending /\ setup_tx' = setup_tx
            \/ RetrySetup(pending \ timers)
            \/ pending' = pending \ timers /\ setup_tx' = setup_tx
        BY <1>3, Zenon DEF HandleSetupResponse
      <4> HIDE DEF timers
      <4> QED
        BY <4>1, <4>2, Zenon DEF RetrySetup
    <3> QED
      BY <3>1, SetupEventType DEF TypeOK
  <2>3. connected' \in BOOLEAN
    <3>1. connected' = connected \/ connected' = TRUE
      BY <1>3, Zenon DEF HandleSetupResponse
    <3> QED
      BY <3>1, Zenon DEF TypeOK
  <2>4. aborted' \in Assertions \cup {"no"}
    <3>1. aborted' = aborted \/ aborted' = "pending event not found"
      BY <1>3, Zenon DEF HandleSetupResponse, Abort
    <3> QED
      BY <3>1 DEF Assertions, TypeOK
  <2> QED
    BY <1>1, <1>3, <2>1, <2>2, <2>3, <2>4 DEF HandleSetupResponse, TypeOK, sync, net
<1>4. CASE HandleControlAnswer
  <2>1. PICK a \in toXapp :
           /\ Receive(a)
           /\ loop' = IF Registered(a.id) THEN [at |-> "signal", proc |-> a] ELSE loop
    BY <1>4 DEF HandleControlAnswer
  <2>2. loop' \in [at: {"start", "poll", "disarm", "signal"}, proc: Proc]
    BY <2>1 DEF TypeOK
  <2>3. toXapp' \in SUBSET Proc /\ answered' \in SUBSET Proc
    BY <2>1 DEF Receive, TypeOK
  <2> QED
    BY <1>1, <1>4, <2>2, <2>3 DEF HandleControlAnswer, TypeOK, sync, setup
<1>5. CASE HandleSubscriptionAnswer
  <2>1. PICK a \in toXapp :
           /\ Receive(a)
           /\ \/ loop' = [at |-> "disarm", proc |-> a] /\ UNCHANGED aborted
              \/ Abort("ric_req_id not registered") /\ UNCHANGED loop
    BY <1>5 DEF HandleSubscriptionAnswer
  <2>2. loop' \in [at: {"start", "poll", "disarm", "signal"}, proc: Proc]
    <3>1. loop' = loop \/ loop' = [at |-> "disarm", proc |-> a]
      BY <2>1, Zenon
    <3> QED
      BY <3>1 DEF TypeOK
  <2>3. toXapp' \in SUBSET Proc /\ answered' \in SUBSET Proc
    BY <2>1 DEF Receive, TypeOK
  <2>4. aborted' \in Assertions \cup {"no"}
    BY <2>1 DEF Abort, Assertions, TypeOK
  <2> QED
    BY <1>1, <1>5, <2>2, <2>3, <2>4 DEF HandleSubscriptionAnswer, TypeOK, sync, setup
<1>6. CASE Disarm
  <2>1. loop' \in [at: {"start", "poll", "disarm", "signal"}, proc: Proc]
    BY <1>6 DEF Disarm, TypeOK
  <2>2. pending' \in SUBSET Event
    BY <1>6, DisarmEffect DEF TypeOK
  <2>3. aborted' \in Assertions \cup {"no"}
    <3>1. aborted' = aborted \/ aborted' = "pending event not found"
      BY <1>6, Zenon DEF Disarm, Abort
    <3> QED
      BY <3>1 DEF Assertions, TypeOK
  <2> QED
    BY <1>1, <1>6, <2>1, <2>2, <2>3 DEF Disarm, TypeOK, sync, setup, net
<1>7. CASE SignalSyncUi
  <2>1. loop' \in [at: {"start", "poll", "disarm", "signal"}, proc: Proc]
    BY <1>7 DEF SignalSyncUi, NoProc, Proc, Ops
  <2>2. signalled' \in SUBSET Proc
    BY <1>7 DEF SignalSyncUi, TypeOK
  <2>3. flag_sync' \in BOOLEAN
    BY <1>7 DEF SignalSyncUi
  <2> QED
    BY <1>1, <1>7, <2>1, <2>2, <2>3 DEF SignalSyncUi, TypeOK, setup, net
<1>8. CASE TimerFires
  <2>1. pending' \in SUBSET Event /\ setup_tx' \in Nat
    <3>1. \E e \in pending :
             \/ pending' = (pending \ {e}) \cup {SetupEvent} /\ setup_tx' = setup_tx + 1
             \/ pending' = pending /\ setup_tx' = setup_tx
      BY <1>8, Zenon DEF TimerFires
    <3> QED
      BY <3>1, SetupEventType DEF TypeOK
  <2>2. aborted' \in Assertions \cup {"no"}
    <3>1. aborted' = aborted \/ aborted' = "timeout of a pending event"
      BY <1>8, Zenon DEF TimerFires, Abort
    <3> QED
      BY <3>1 DEF Assertions, TypeOK
  <2> QED
    BY <1>1, <1>8, <2>1, <2>2 DEF TimerFires, TypeOK, sync, net
<1>9. CASE RicAnswers
  <2>1. toRic' \in SUBSET Proc /\ toXapp' \in SUBSET Proc
    BY <1>9 DEF RicAnswers, TypeOK
  <2> QED
    BY <1>1, <1>9, <2>1 DEF RicAnswers, TypeOK, sync, setup
<1>10. CASE RicAnswersSetup
  BY <1>1, <1>10 DEF RicAnswersSetup, TypeOK, sync, net
<1>11. CASE Tick
  BY <1>1, <1>11, TickType DEF Tick, TypeOK, sync, setup, net
<1> QED
  BY <1>2, <1>3, <1>4, <1>5, <1>6, <1>7, <1>8, <1>9, <1>10, <1>11 DEF Background

LEMMA NextIsOneOf ==
    ASSUME Next
    PROVE  Call("control") \/ Call("sub") \/ CallRmReport \/ UI \/ Background
  BY DEF Next, Background, EventLoop

LEMMA TypeStep == TypeOK /\ ArmsTimer /\ [Next]_vars => TypeOK' /\ ArmsTimer'
<1> SUFFICES ASSUME TypeOK, ArmsTimer, [Next]_vars PROVE TypeOK' /\ ArmsTimer'
  OBVIOUS
<1>1. CASE UNCHANGED vars
  BY <1>1 DEF vars, TypeOK, ArmsTimer, app, sync, setup, net
<1>2. CASE Next
  BY <1>2, NextIsOneOf, CallType, CallRmReportType, UIType, BackgroundType
<1> QED
  BY <1>1, <1>2

\* Every variable of the xApp runtime stays in its domain: the registry holds
\* only ids it gave out, and only subscriptions and deletes arm a timer.
THEOREM TypeCorrect == Spec => []TypeOK
<1>1. Init => TypeOK /\ ArmsTimer
  BY InitType
<1>2. TypeOK /\ ArmsTimer /\ [Next]_vars => TypeOK' /\ ArmsTimer'
  BY TypeStep
<1> QED
  BY <1>1, <1>2, PTL DEF Spec

-----------------------------------------------------------------------------
(* The inductive invariants.                                                *)

\* While the process runs the registry is the application's subscriptions,
\* plus the procedure of a control or subscription call in progress; a delete
\* works on a subscription the application still holds.
Registry ==
    Running =>
        /\ ~InCall => act_proc = subs
        /\ InCall /\ ui.proc.op = "del" => act_proc = subs /\ ui.proc.id \in subs
        /\ InCall /\ ui.proc.op # "del" =>
              act_proc = subs \cup {ui.proc.id} /\ ui.proc.id \notin subs

\* The procedures some message or the flag spoke of, and those with a timer.
Messages == toRic \cup toXapp \cup answered \cup signalled \cup {loop.proc}
Timers == {[op |-> e.ev, id |-> e.id] : e \in {e \in pending : e.ev # "setup"}}

\* Every id in use was given out by the registry.
IdsGiven == /\ ui.proc.id < key_id
            /\ \A m \in Messages \cup Timers : m.id < key_id

\* The call in progress has not sent its request, has not armed its timer.
Unsent == ui.at \in {"prepare", "send"} \/ (ui.at = "arm" /\ ui.proc.op = "sub")
Unarmed == ui.at \in {"prepare", "arm"} \/ (ui.at = "send" /\ ui.proc.op = "del")

\* No message and no timer knows of the delete of a subscription that is still
\* held, except in the delete call itself.
DeletesFresh ==
    Running =>
        \A m \in Messages \cup Timers :
            m.op = "del" =>
                /\ m.id \in subs => InCall /\ ui.proc = m /\ ui.at # "prepare"
                /\ InCall /\ ui.proc.op = "sub" => m.id # ui.proc.id

RequestFresh ==
    Running => /\ Unsent => ui.proc \notin Messages
               /\ Unarmed => ui.proc \notin Timers

-----------------------------------------------------------------------------
(* The registry of procedures.                                              *)

LEMMA CallEffect ==
    ASSUME TypeOK, NEW op \in {"control", "sub"}, Call(op)
    PROVE  /\ Running /\ ui.at = "idle" /\ subs' = subs
           /\ act_proc' = act_proc \cup {key_id} /\ key_id' = key_id + 1
           /\ \/ ui' = [proc |-> [op |-> op, id |-> key_id], at |-> "prepare"]
              \/ ui' = ui /\ ~Running'
<1>1. Following(op, "call") = "prepare"
  BY DEF Following
<1>2. \/ Start(op, NewKey) /\ UNCHANGED aborted
      \/ Abort("req_id overflow") /\ UNCHANGED ui
  BY Zenon DEF Call
<1>3. Abort("req_id overflow") => ~Running'
  BY DEF Abort, Running
<1>4. Running /\ ui.at = "idle" /\ subs' = subs
  BY DEF Call, At, app
<1>5. act_proc' = act_proc \cup {key_id} /\ key_id' = key_id + 1
  BY DEF Call, AddActProc, NewKey
<1>6. Start(op, NewKey) => ui' = [proc |-> [op |-> op, id |-> key_id], at |-> "prepare"]
  BY <1>1, Zenon DEF Start, NewKey
<1> QED
  BY <1>2, <1>3, <1>4, <1>5, <1>6, Zenon

LEMMA CallRmReportEffect ==
    ASSUME TypeOK, CallRmReport
    PROVE  /\ Running /\ ui.at = "idle"
           /\ act_proc' = act_proc /\ subs' = subs /\ key_id' = key_id
           /\ \/ \E h \in subs : ui' = [proc |-> [op |-> "del", id |-> h], at |-> "prepare"]
              \/ ui' = ui /\ ~Running'
<1>1. Following("del", "call") = "prepare"
  BY DEF Following
<1>2. PICK h \in subs : \/ Start("del", h) /\ UNCHANGED aborted
                        \/ Abort("handle not registered") /\ UNCHANGED ui
  BY Zenon DEF CallRmReport
<1>3. Abort("handle not registered") => ~Running'
  BY DEF Abort, Running
<1>4. /\ Running /\ ui.at = "idle"
      /\ act_proc' = act_proc /\ subs' = subs /\ key_id' = key_id
  BY DEF CallRmReport, At, app
<1>5. Start("del", h) => ui' = [proc |-> [op |-> "del", id |-> h], at |-> "prepare"]
  BY <1>1, Zenon DEF Start
<1> QED
  BY <1>2, <1>3, <1>4, <1>5, Zenon

\* The steps inside a call move on in the call and leave the registry alone.
Inside ==
    PrepareSyncUi \/ SendRequest \/ ArmTimer \/ EnterWait \/ DeadlinePasses

LEMMA InsideEffect ==
    ASSUME TypeOK, Inside
    PROVE  /\ Running /\ InCall /\ InCall' /\ ui'.proc = ui.proc
           /\ act_proc' = act_proc /\ subs' = subs /\ key_id' = key_id
<1>1. act_proc' = act_proc /\ subs' = subs /\ key_id' = key_id /\ Running
  BY DEF Inside, PrepareSyncUi, SendRequest, ArmTimer, EnterWait, DeadlinePasses, app, At
<1>2. InCall
  BY DEF Inside, PrepareSyncUi, SendRequest, ArmTimer, EnterWait, DeadlinePasses, At, InCall
<1>3. ui'.proc = ui.proc /\ ui'.at \in {"prepare", "arm", "send", "enter", "wait", "expired"}
  <2>1. CASE PrepareSyncUi \/ SendRequest \/ ArmTimer
    <3>1. Advance /\ ui.at \in {"prepare", "arm", "send"}
      BY <2>1 DEF PrepareSyncUi, SendRequest, ArmTimer, At
    <3>2. ui.proc.op \in Ops
      BY DEF TypeOK, Proc
    <3> QED
      BY <3>1, <3>2, AdvanceType, FollowingType
  <2>2. CASE EnterWait
    BY <2>2, GoToType DEF EnterWait, Steps
  <2>3. CASE DeadlinePasses
    BY <2>3, GoToType DEF DeadlinePasses, Steps
  <2> QED
    BY <2>1, <2>2, <2>3 DEF Inside
<1> QED
  BY <1>1, <1>2, <1>3 DEF InCall

LEMMA ReturnEffect ==
    ASSUME WakeUp \/ TimeOut
    PROVE  /\ Running /\ InCall
           /\ ui' = [proc |-> NoProc, at |-> "idle"] /\ key_id' = key_id
           /\ ui.proc.op = "control" =>
                 act_proc' = act_proc \ {ui.proc.id} /\ subs' = subs
           /\ ui.proc.op = "del" =>
                 act_proc' = act_proc \ {ui.proc.id} /\ subs' = subs \ {ui.proc.id}
           /\ ui.proc.op = "sub" =>
                 \/ act_proc' = act_proc /\ subs' = subs \cup {ui.proc.id}
                 \/ act_proc' = act_proc \ {ui.proc.id} /\ subs' = subs
<1>1. PICK ok \in BOOLEAN : Return(ok)
  BY Zenon DEF WakeUp, TimeOut
<1>2. Running /\ InCall
  BY DEF WakeUp, TimeOut, At, InCall
<1>3. CASE ok
  BY <1>1, <1>2, <1>3 DEF Return, Release
<1>4. CASE ~ok
  BY <1>1, <1>2, <1>4 DEF Return, Release
<1> QED
  BY <1>3, <1>4

LEMMA RegistryStep ==
    ASSUME TypeOK, Registry, [Next]_vars
    PROVE  Registry'
<1>1. ASSUME NEW op \in {"control", "sub"}, Call(op) PROVE Registry'
  <2>1. key_id \notin act_proc
    BY DEF TypeOK
  <2>2. act_proc = subs
    BY <1>1, CallEffect DEF Registry, InCall
  <2> QED
    BY <1>1, <2>1, <2>2, CallEffect DEF Registry, InCall
<1>2. CASE CallRmReport
  <2>1. act_proc = subs
    BY <1>2, CallRmReportEffect DEF Registry, InCall
  <2> QED
    BY <1>2, <2>1, CallRmReportEffect DEF Registry, InCall
<1>3. CASE InitDone
  BY <1>3 DEF InitDone, At, GoTo, TypeOK, Registry, InCall, Running, app
<1>4. CASE Inside
  BY <1>4, InsideEffect DEF Registry
<1>5. CASE WakeUp \/ TimeOut
  <2>1. ui.proc.op \in {"control", "sub", "del"}
    BY DEF TypeOK, Proc, Ops
  <2>2. act_proc' = subs'
    BY <1>5, <2>1, ReturnEffect DEF Registry
  <2> QED
    BY <1>5, <2>2, ReturnEffect DEF Registry, InCall
<1>6. CASE Background
  <2>1. Running
    BY <1>6 DEF Background, StartXapp, HandleSetupResponse, HandleControlAnswer,
           HandleSubscriptionAnswer, Receive, Disarm, SignalSyncUi, TimerFires, RicAnswers,
           RicAnswersSetup, Tick, LoopAt
  <2> QED
    BY <1>6, <2>1, BackgroundFrame DEF Registry, InCall
<1>7. CASE UNCHANGED vars
  BY <1>7 DEF vars, Registry, InCall, Running, app
<1> QED
  BY <1>1, <1>2, <1>3, <1>4, <1>5, <1>6, <1>7, NextIsOneOf DEF UI, Inside

\* A finished call, answered or timed out, leaves nothing in the registry but
\* the subscriptions the application holds.
THEOREM NothingLeaks == Spec => []NoLeakedProcedure
<1>1. Init => TypeOK /\ ArmsTimer
  BY InitType
<1>2. Init => Registry
  BY DEF Init, Registry, InCall
<1>3. TypeOK /\ ArmsTimer /\ [Next]_vars => TypeOK' /\ ArmsTimer'
  BY TypeStep
<1>4. TypeOK /\ Registry /\ [Next]_vars => Registry'
  BY RegistryStep
<1>5. Registry => NoLeakedProcedure
  BY DEF Registry, NoLeakedProcedure
<1> QED
  BY <1>1, <1>2, <1>3, <1>4, <1>5, PTL DEF Spec

-----------------------------------------------------------------------------
(* What the steps do to messages and timers.                                *)

\* The steps that neither send, receive, signal, arm nor disarm.
Still ==
    \/ Call("control") \/ Call("sub") \/ CallRmReport \/ InitDone
    \/ PrepareSyncUi \/ EnterWait \/ DeadlinePasses \/ WakeUp \/ TimeOut

LEMMA StillFrame ==
    ASSUME Still
    PROVE  Messages' = Messages /\ Timers' = Timers
<1>1. UNCHANGED <<toRic, toXapp, answered, signalled, loop, pending>>
  BY DEF Still, Call, CallRmReport, InitDone, PrepareSyncUi, EnterWait, DeadlinePasses,
         WakeUp, TimeOut, Return, sync, net
<1> QED
  BY <1>1 DEF Messages, Timers

LEMMA SendEffect ==
    ASSUME SendRequest
    PROVE  /\ Running /\ ui.at = "send"
           /\ Messages' = Messages \cup {ui.proc}
           /\ Timers' = Timers
<1>1. /\ toRic' = toRic \cup {ui.proc} /\ pending' = pending
      /\ UNCHANGED <<toXapp, answered, signalled, loop>> /\ Running /\ ui.at = "send"
  BY DEF SendRequest, At, sync
<1> QED
  BY <1>1 DEF Messages, Timers

LEMMA ArmEffect ==
    ASSUME TypeOK, ArmsTimer, ArmTimer
    PROVE  /\ Running /\ ui.at = "arm"
           /\ Messages' = Messages
           /\ Timers' = Timers \cup {ui.proc}
<1> DEFINE new == [ev |-> ui.proc.op, id |-> ui.proc.id, left |-> WaitOf(ui.proc.op)]
<1>1. /\ pending' = pending \cup {new} /\ Running /\ ui.at = "arm"
      /\ UNCHANGED <<toRic, toXapp, answered, signalled, loop>>
  BY DEF ArmTimer, At, sync, net
<1>2. new.ev = ui.proc.op /\ new.id = ui.proc.id /\ new.ev # "setup"
  BY <1>1 DEF ArmsTimer
<1>3. [op |-> new.ev, id |-> new.id] = ui.proc
  BY <1>2 DEF TypeOK, Proc
<1> HIDE DEF new
<1>4. Timers' = Timers \cup {ui.proc}
  BY <1>1, <1>2, <1>3, Zenon DEF Timers
<1> QED
  BY <1>1, <1>4 DEF Messages

\* Time changes what is left on a timer, not which timers there are.
LEMMA TickTimers ==
    ASSUME TypeOK, Tick
    PROVE  Timers' \subseteq Timers
<1>1. SUFFICES ASSUME NEW t \in Timers' PROVE t \in Timers
  OBVIOUS
<1>2. PICK f \in pending' : f.ev # "setup" /\ t = [op |-> f.ev, id |-> f.id]
  BY DEF Timers
<1>3. PICK e \in pending : f = [e EXCEPT !.left = Less(@)]
  BY DEF Tick
<1>4. e \in Event
  BY DEF TypeOK
<1>5. f.ev = e.ev /\ f.id = e.id
  BY <1>3, <1>4 DEF Event
<1> QED
  BY <1>2, <1>5 DEF Timers

LEMMA ReceiveEffect ==
    ASSUME NEW a \in toXapp, Receive(a), UNCHANGED <<toRic, signalled>>,
           loop'.proc \in {a, loop.proc}
    PROVE  Messages' \subseteq Messages
  BY DEF Receive, Messages

LEMMA BackgroundTraces ==
    ASSUME TypeOK, Background
    PROVE  Messages' \subseteq Messages \cup {NoProc} /\ Timers' \subseteq Timers
<1>1. CASE StartXapp
  <2>1. UNCHANGED <<toRic, toXapp, answered, signalled>> /\ loop'.proc = loop.proc
    BY <1>1 DEF StartXapp, sync, net, TypeOK
  <2>2. pending' = pending \cup {SetupEvent}
    BY <1>1 DEF StartXapp
  <2>3. SetupEvent.ev = "setup"
    BY DEF SetupEvent
  <2> QED
    BY <2>1, <2>2, <2>3 DEF Messages, Timers
<1>2. CASE HandleSetupResponse
  <2>1. UNCHANGED <<toRic, toXapp, answered, signalled, loop>>
    BY <1>2 DEF HandleSetupResponse, sync, net
  <2>2. \A e \in pending' : e \in pending \/ e = SetupEvent
    <3> DEFINE timers == {e \in pending : e.ev = "setup"}
    <3>1. \/ pending' = pending
          \/ RetrySetup(pending \ timers)
          \/ pending' = pending \ timers
      BY <1>2, Zenon DEF HandleSetupResponse
    <3> HIDE DEF timers
    <3>2. RetrySetup(pending \ timers) => pending' = (pending \ timers) \cup {SetupEvent}
      BY DEF RetrySetup
    <3> QED
      BY <3>1, <3>2, Zenon
  <2>3. SetupEvent.ev = "setup"
    BY DEF SetupEvent
  <2> QED
    BY <2>1, <2>2, <2>3 DEF Messages, Timers
<1>3. CASE HandleControlAnswer
  <2>1. PICK a \in toXapp :
           /\ Receive(a)
           /\ loop' = IF Registered(a.id) THEN [at |-> "signal", proc |-> a] ELSE loop
    BY <1>3 DEF HandleControlAnswer
  <2>2. UNCHANGED <<toRic, signalled, pending>>
    BY <1>3 DEF HandleControlAnswer, sync
  <2>3. loop'.proc \in {a, loop.proc}
    BY <2>1
  <2> QED
    BY <2>1, <2>2, <2>3, ReceiveEffect DEF Timers
<1>4. CASE HandleSubscriptionAnswer
  <2>1. PICK a \in toXapp :
           /\ Receive(a)
           /\ loop' = loop \/ loop' = [at |-> "disarm", proc |-> a]
    BY <1>4, Zenon DEF HandleSubscriptionAnswer
  <2>2. UNCHANGED <<toRic, signalled, pending>>
    BY <1>4 DEF HandleSubscriptionAnswer, sync
  <2>3. loop'.proc \in {a, loop.proc}
    BY <2>1
  <2> QED
    BY <2>1, <2>2, <2>3, ReceiveEffect DEF Timers
<1>5. CASE Disarm
  <2>1. UNCHANGED <<toRic, toXapp, answered, signalled>>
    BY <1>5 DEF Disarm, sync, net
  <2>2. loop' = loop \/ loop' = [loop EXCEPT !.at = "signal"]
    BY <1>5, Zenon DEF Disarm
  <2>3. loop'.proc = loop.proc
    BY <2>2 DEF TypeOK
  <2>4. pending' \subseteq pending
    BY <1>5, DisarmEffect
  <2> QED
    BY <2>1, <2>3, <2>4 DEF Messages, Timers
<1>6. CASE SignalSyncUi
  <2>1. /\ UNCHANGED <<toRic, toXapp, answered, pending>> /\ signalled' = signalled \cup {loop.proc}
        /\ loop'.proc = NoProc
    BY <1>6 DEF SignalSyncUi, net
  <2> QED
    BY <2>1 DEF Messages, Timers
<1>7. CASE TimerFires
  <2>1. UNCHANGED <<toRic, toXapp, answered, signalled, loop>>
    BY <1>7 DEF TimerFires, sync, net
  <2>2. PICK e \in pending : \/ pending' = (pending \ {e}) \cup {SetupEvent}
                             \/ pending' = pending
    BY <1>7, Zenon DEF TimerFires
  <2>3. SetupEvent.ev = "setup"
    BY DEF SetupEvent
  <2> QED
    BY <2>1, <2>2, <2>3 DEF Messages, Timers
<1>8. CASE RicAnswers
  <2>1. UNCHANGED <<answered, signalled, loop, pending>>
    BY <1>8 DEF RicAnswers, sync
  <2>2. toRic' \cup toXapp' \subseteq toRic \cup toXapp
    BY <1>8 DEF RicAnswers
  <2> QED
    BY <2>1, <2>2 DEF Messages, Timers
<1>9. CASE RicAnswersSetup
  BY <1>9 DEF RicAnswersSetup, Messages, Timers, sync, net
<1>10. CASE Tick
  BY <1>10, TickTimers DEF Tick, Messages, sync, net
<1> QED
  BY <1>1, <1>2, <1>3, <1>4, <1>5, <1>6, <1>7, <1>8, <1>9, <1>10 DEF Background

-----------------------------------------------------------------------------
(* Request ids.                                                             *)

LEMMA IdsStep ==
    ASSUME TypeOK, ArmsTimer, Registry, IdsGiven, [Next]_vars
    PROVE  IdsGiven'
<1>1. key_id \in Nat \ {0} /\ NoProc.id = 0
  BY DEF TypeOK, NoProc
<1>2. \A m \in Messages \cup Timers : m.id < key_id /\ m.id \in Int
  <2>1. \A m \in Messages : m.id \in Nat
    BY DEF Messages, TypeOK, Proc
  <2>2. \A m \in Timers : m.id \in Nat
    BY DEF Timers, TypeOK, Event
  <2> QED
    BY <2>1, <2>2 DEF IdsGiven
<1>3. ui.proc.id < key_id /\ ui.proc.id \in Int
  BY DEF IdsGiven, TypeOK, Proc
<1>4. ASSUME NEW op \in {"control", "sub"}, Call(op) PROVE IdsGiven'
  <2>1. Still
    BY <1>4 DEF Still
  <2>2. key_id' = key_id + 1 /\ ui'.proc.id \in {key_id, ui.proc.id}
    BY <1>4, CallEffect
  <2>3. \A n \in Int : n < key_id => n < key_id'
    BY <1>1, <2>2
  <2>4. key_id < key_id'
    BY <1>1, <2>2
  <2> QED
    BY <1>2, <1>3, <2>1, <2>2, <2>3, <2>4, StillFrame, Zenon DEF IdsGiven
<1>5. CASE CallRmReport
  <2>1. Still
    BY <1>5 DEF Still
  <2>2. act_proc = subs
    BY <1>5, CallRmReportEffect DEF Registry, InCall
  <2>3. \A h \in subs : h < key_id
    BY <2>2 DEF TypeOK
  <2>4. key_id' = key_id /\ ui'.proc.id < key_id
    BY <1>3, <1>5, <2>3, CallRmReportEffect
  <2> QED
    BY <1>2, <2>1, <2>4, StillFrame DEF IdsGiven
<1>6. CASE InitDone
  <2>1. Still /\ ui'.proc = ui.proc /\ key_id' = key_id
    BY <1>6 DEF Still, InitDone, GoTo, TypeOK
  <2> QED
    BY <2>1, StillFrame DEF IdsGiven
<1>7. CASE WakeUp \/ TimeOut
  <2>1. Still /\ ui'.proc = NoProc /\ key_id' = key_id
    BY <1>7, ReturnEffect DEF Still
  <2> QED
    BY <1>1, <2>1, StillFrame DEF IdsGiven
<1>8. CASE Inside
  <2>1. ui'.proc = ui.proc /\ key_id' = key_id
    BY <1>8, InsideEffect
  <2>2. Messages' \cup Timers' \subseteq Messages \cup Timers \cup {ui.proc}
    BY <1>8, StillFrame, SendEffect, ArmEffect DEF Inside, Still
  <2> QED
    BY <2>1, <2>2 DEF IdsGiven
<1>9. CASE Background
  <2>1. Messages' \cup Timers' \subseteq Messages \cup Timers \cup {NoProc}
    BY <1>9, BackgroundTraces
  <2>2. ui' = ui /\ key_id' = key_id
    BY <1>9, BackgroundFrame
  <2> QED
    BY <1>1, <2>1, <2>2 DEF IdsGiven
<1>10. CASE UNCHANGED vars
  BY <1>10 DEF vars, IdsGiven, Messages, Timers, sync, net
<1> QED
  BY <1>4, <1>5, <1>6, <1>7, <1>8, <1>9, <1>10, NextIsOneOf DEF UI, Inside

LEMMA InitIds == Init => Registry /\ IdsGiven
<1> SUFFICES ASSUME Init PROVE Registry /\ IdsGiven
  OBVIOUS
<1>1. Registry
  BY DEF Init, Registry, InCall
<1>2. Messages = {NoProc} /\ Timers = {}
  BY DEF Init, Messages, Timers
<1>3. ui.proc = NoProc /\ key_id = 1 /\ NoProc.id = 0
  BY DEF Init, NoProc
<1> QED
  BY <1>1, <1>2, <1>3 DEF IdsGiven

\* What is known of every reachable state about procedures and their ids.
ProcInv == TypeOK /\ ArmsTimer /\ Registry /\ IdsGiven

LEMMA ProcInvStep == ProcInv /\ [Next]_vars => ProcInv'
  BY TypeStep, RegistryStep, IdsStep DEF ProcInv

LEMMA InitProcInv == Init => ProcInv
  BY InitType, InitIds DEF ProcInv

LEMMA OnlyCallsRegister ==
    ASSUME ProcInv, [Next]_vars
    PROVE  \A r \in act_proc' \ act_proc :
              \A m \in toRic \cup toXapp \cup signalled \cup {loop.proc} : m.id # r
<1>1. act_proc' \ act_proc \subseteq {key_id}
  <2>1. ASSUME NEW op \in {"control", "sub"}, Call(op)
        PROVE  act_proc' \ act_proc \subseteq {key_id}
    BY <2>1, CallEffect DEF ProcInv
  <2>2. CASE CallRmReport
    BY <2>2, CallRmReportEffect DEF ProcInv
  <2>3. CASE InitDone \/ Background \/ UNCHANGED vars
    BY <2>3, BackgroundFrame DEF InitDone, vars
  <2>4. CASE Inside
    BY <2>4, InsideEffect DEF ProcInv
  <2>5. CASE WakeUp \/ TimeOut
    BY <2>5 DEF WakeUp, TimeOut, Return, Release
  <2> QED
    BY <2>1, <2>2, <2>3, <2>4, <2>5, NextIsOneOf DEF UI, Inside
<1>2. \A m \in Messages : m.id < key_id /\ m.id \in Int /\ key_id \in Int
  BY DEF ProcInv, IdsGiven, Messages, TypeOK, Proc
<1>3. \A a, b \in Int : a < b => a # b
  OBVIOUS
<1>4. \A m \in Messages : m.id # key_id
  BY <1>2, <1>3, Zenon
<1> QED
  BY <1>1, <1>4 DEF Messages

\* A ric_req_id given to a new procedure is in no message, flag or handler of
\* an earlier one: the registry's keys only grow.
THEOREM IdsAreFresh == Spec => FreshReqId
<1>1. Init => ProcInv
  BY InitProcInv
<1>2. ProcInv /\ [Next]_vars => ProcInv'
  BY ProcInvStep
<1>3. ProcInv /\ [Next]_vars =>
         [\A r \in act_proc' \ act_proc :
             \A m \in toRic \cup toXapp \cup signalled \cup {loop.proc} : m.id # r]_vars
  BY OnlyCallsRegister
<1> QED
  BY <1>1, <1>2, <1>3, PTL DEF Spec, FreshReqId

-----------------------------------------------------------------------------
(* Wakeups and timers.                                                      *)

LEMMA BackgroundRuns == ASSUME Background PROVE Running
  BY DEF Background, StartXapp, HandleSetupResponse, HandleControlAnswer,
         HandleSubscriptionAnswer, Receive, Disarm, SignalSyncUi, TimerFires, RicAnswers,
         RicAnswersSetup, Tick, LoopAt

\* What is known of every reachable state about messages and timers.
FreshInv == DeletesFresh /\ RequestFresh

\* A procedure that starts is in no message and has no timer.
LEMMA StartsFresh ==
    ASSUME ProcInv, FreshInv, ui.at = "idle", Running,
           Messages' = Messages, Timers' = Timers, subs' = subs,
           NEW op \in Ops, NEW id, ui' = [proc |-> [op |-> op, id |-> id], at |-> "prepare"],
           (op # "del" /\ id = key_id) \/ (op = "del" /\ id \in subs)
    PROVE  FreshInv'
<1>1. ~InCall
  BY DEF InCall
<1>2. \A m \in Messages \cup Timers : m.op = "del" => m.id \notin subs
  BY <1>1 DEF FreshInv, DeletesFresh
<1>3. \A m \in Messages \cup Timers : m.id # key_id
  <2>1. \A m \in Messages \cup Timers : m.id < key_id
    BY DEF ProcInv, IdsGiven
  <2>2. \A m \in Messages \cup Timers : m.id \in Int
    BY DEF ProcInv, TypeOK, Messages, Timers, Proc, Event
  <2>3. key_id \in Int
    BY DEF ProcInv, TypeOK
  <2>4. \A a, b \in Int : a < b => a # b
    OBVIOUS
  <2> QED
    BY <2>1, <2>2, <2>3, <2>4, Zenon
<1>4. ui'.proc.op = op /\ ui'.proc.id = id
  OBVIOUS
<1>5. ui'.proc \notin Messages \cup Timers
  BY <1>2, <1>3, <1>4
<1>7. RequestFresh'
  BY <1>5 DEF RequestFresh
<1>8. DeletesFresh'
  BY <1>2, <1>3, <1>4 DEF DeletesFresh
<1> QED
  BY <1>7, <1>8 DEF FreshInv

LEMMA InsideFresh ==
    ASSUME ProcInv, FreshInv, Inside
    PROVE  FreshInv'
<1>1. TypeOK /\ ArmsTimer
  BY DEF ProcInv
<1>2. Running /\ InCall /\ InCall' /\ ui'.proc = ui.proc /\ subs' = subs
  BY <1>1, InsideEffect
<1>3. ui.proc.op \in {"control", "sub", "del"}
  BY <1>1 DEF TypeOK, Proc, Ops
<1>4. /\ \A m \in Messages \cup Timers : m.op = "del" =>
            /\ m.id \in subs => ui.proc = m /\ ui.at # "prepare"
            /\ ui.proc.op = "sub" => m.id # ui.proc.id
      /\ Unsent => ui.proc \notin Messages
      /\ Unarmed => ui.proc \notin Timers
  BY <1>2 DEF FreshInv, DeletesFresh, RequestFresh
<1>5. CASE PrepareSyncUi
  <2>1. Messages' = Messages /\ Timers' = Timers
    BY <1>5, StillFrame DEF Still
  <2>2. ui.at = "prepare" /\ Unsent /\ Unarmed
    BY <1>5 DEF PrepareSyncUi, At, Unsent, Unarmed
  <2> QED
    BY <1>2, <1>4, <2>1, <2>2 DEF FreshInv, DeletesFresh, RequestFresh
<1>6. CASE SendRequest
  <2>1. /\ ui.at = "send" /\ Messages' = Messages \cup {ui.proc}
        /\ Timers' = Timers
    BY <1>6, SendEffect
  <2>2. ui'.at = Following(ui.proc.op, "send")
    BY <1>1, <1>6, <2>1, AdvanceType DEF SendRequest
  <2>3. ui'.at = IF ui.proc.op = "del" THEN "arm" ELSE "enter"
    BY <2>2 DEF Following
  <2>4. ~Unsent' /\ (Unarmed' => Unarmed) /\ ui'.at # "prepare"
    BY <1>2, <1>3, <2>1, <2>3 DEF Unsent, Unarmed
  <2>5. DeletesFresh'
    BY <1>2, <1>4, <2>1, <2>4 DEF DeletesFresh
  <2> QED
    BY <1>2, <1>4, <2>1, <2>4, <2>5 DEF FreshInv, RequestFresh
<1>7. CASE ArmTimer
  <2>1. /\ ui.at = "arm" /\ Messages' = Messages
        /\ Timers' = Timers \cup {ui.proc}
    BY <1>1, <1>7, ArmEffect
  <2>2. ui'.at = Following(ui.proc.op, "arm")
    BY <1>1, <1>7, <2>1, AdvanceType DEF ArmTimer
  <2>3. ui'.at = IF ui.proc.op = "sub" THEN "send" ELSE "enter"
    BY <2>2 DEF Following
  <2>4. ~Unarmed' /\ (Unsent' => Unsent) /\ ui'.at # "prepare" /\ Unarmed
    BY <1>2, <1>3, <2>1, <2>3 DEF Unsent, Unarmed
  <2>5. DeletesFresh'
    BY <1>2, <1>4, <2>1, <2>4 DEF DeletesFresh
  <2> QED
    BY <1>2, <1>4, <2>1, <2>4, <2>5 DEF FreshInv, RequestFresh
<1>8. CASE EnterWait \/ DeadlinePasses
  <2>1. Messages' = Messages /\ Timers' = Timers
    BY <1>8, StillFrame DEF Still
  <2>2. ui'.at \in {"wait", "expired"}
    BY <1>1, <1>8, GoToType DEF EnterWait, DeadlinePasses, Steps
  <2>3. ~Unsent' /\ ~Unarmed' /\ ui'.at # "prepare"
    BY <2>2 DEF Unsent, Unarmed
  <2> QED
    BY <1>2, <1>4, <2>1, <2>3 DEF FreshInv, DeletesFresh, RequestFresh
<1> QED
  BY <1>5, <1>6, <1>7, <1>8 DEF Inside

LEMMA ReturnFresh ==
    ASSUME ProcInv, FreshInv, WakeUp \/ TimeOut
    PROVE  FreshInv'
<1>1. Messages' = Messages /\ Timers' = Timers
  BY StillFrame DEF Still
<1>2. Running /\ InCall /\ ui'.at = "idle"
  BY ReturnEffect
<1>3. ui.proc.op \in {"control", "sub", "del"}
  BY DEF ProcInv, TypeOK, Proc, Ops
<1>4. ASSUME NEW m \in Messages \cup Timers, m.op = "del" PROVE m.id \notin subs'
  <2>1. /\ m.id \in subs => ui.proc = m
        /\ ui.proc.op = "sub" => m.id # ui.proc.id
    BY <1>2, <1>4 DEF FreshInv, DeletesFresh
  <2>2. CASE ui.proc.op = "control"
    BY <1>4, <2>1, <2>2, ReturnEffect
  <2>3. CASE ui.proc.op = "del"
    BY <1>4, <2>1, <2>3, ReturnEffect
  <2>4. CASE ui.proc.op = "sub"
    BY <1>4, <2>1, <2>4, ReturnEffect
  <2> QED
    BY <1>3, <2>2, <2>3, <2>4
<1>5. ~InCall' /\ ~Unsent' /\ ~Unarmed'
  BY <1>2 DEF InCall, Unsent, Unarmed
<1> QED
  BY <1>1, <1>4, <1>5 DEF FreshInv, DeletesFresh, RequestFresh

LEMMA BackgroundFresh ==
    ASSUME ProcInv, FreshInv, Background
    PROVE  FreshInv'
<1>1. /\ Messages' \subseteq Messages \cup {NoProc} /\ Timers' \subseteq Timers
      /\ ui' = ui /\ subs' = subs /\ Running
  BY BackgroundTraces, BackgroundFrame, BackgroundRuns DEF ProcInv
<1>2. /\ DeletesFresh
      /\ Unsent => ui.proc \notin Messages
      /\ Unarmed => ui.proc \notin Timers
  BY <1>1 DEF FreshInv, RequestFresh
<1>3. NoProc.op = "control" /\ NoProc.id = 0
  BY DEF NoProc
<1>4. DeletesFresh'
  BY <1>1, <1>2, <1>3 DEF DeletesFresh, InCall
<1>5. Unsent' => ui'.proc \notin Messages'
  <2>1. SUFFICES ASSUME Unsent PROVE ui.proc \notin Messages \cup {NoProc}
    BY <1>1 DEF Unsent
  <2>2. InCall
    BY <2>1 DEF Unsent, InCall
  <2>3. ui.proc.id \in act_proc
    BY <1>1, <2>2 DEF ProcInv, Registry
  <2>4. ui.proc.id # 0
    BY <2>3 DEF ProcInv, TypeOK
  <2> QED
    BY <1>2, <1>3, <2>1, <2>4
<1>6. Unarmed' => ui'.proc \notin Timers'
  BY <1>1, <1>2 DEF Unarmed
<1> QED
  BY <1>4, <1>5, <1>6 DEF FreshInv, RequestFresh

LEMMA FreshStep == ProcInv /\ FreshInv /\ [Next]_vars => FreshInv'
<1> SUFFICES ASSUME ProcInv, FreshInv, [Next]_vars PROVE FreshInv'
  OBVIOUS
<1>1. ASSUME NEW op \in {"control", "sub"}, Call(op) PROVE FreshInv'
  <2>1. Messages' = Messages /\ Timers' = Timers
    BY <1>1, StillFrame DEF Still
  <2>2. ui.at = "idle" /\ Running /\ subs' = subs
    BY <1>1, CallEffect DEF ProcInv
  <2>3. \/ ui' = [proc |-> [op |-> op, id |-> key_id], at |-> "prepare"]
        \/ ui' = ui /\ ~Running'
    BY <1>1, CallEffect DEF ProcInv
  <2>4. CASE ui' = [proc |-> [op |-> op, id |-> key_id], at |-> "prepare"]
    <3>1. op \in Ops /\ op # "del"
      BY DEF Ops
    <3> QED
      BY <2>1, <2>2, <2>4, <3>1, StartsFresh
  <2>5. CASE ui' = ui /\ ~Running'
    BY <2>1, <2>5 DEF FreshInv, DeletesFresh, RequestFresh
  <2> QED
    BY <2>3, <2>4, <2>5
<1>2. CASE CallRmReport
  <2>1. Messages' = Messages /\ Timers' = Timers
    BY <1>2, StillFrame DEF Still
  <2>2. ui.at = "idle" /\ Running /\ subs' = subs
    BY <1>2, CallRmReportEffect DEF ProcInv
  <2>3. \/ \E h \in subs : ui' = [proc |-> [op |-> "del", id |-> h], at |-> "prepare"]
        \/ ui' = ui /\ ~Running'
    BY <1>2, CallRmReportEffect DEF ProcInv
  <2>4. ASSUME NEW h \in subs, ui' = [proc |-> [op |-> "del", id |-> h], at |-> "prepare"]
        PROVE  FreshInv'
    BY <2>1, <2>2, <2>4, StartsFresh, "del" \in Ops DEF Ops
  <2>5. CASE ui' = ui /\ ~Running'
    BY <2>1, <2>5 DEF FreshInv, DeletesFresh, RequestFresh
  <2> QED
    BY <2>3, <2>4, <2>5
<1>3. CASE InitDone
  <2>1. Messages' = Messages /\ Timers' = Timers
    BY <1>3, StillFrame DEF Still
  <2>2. Running /\ ui.at = "connect" /\ ui'.at = "idle" /\ subs' = subs
    BY <1>3 DEF InitDone, At, GoTo, app, ProcInv, TypeOK
  <2>3. ~InCall /\ ~InCall' /\ ~Unsent' /\ ~Unarmed'
    BY <2>2 DEF InCall, Unsent, Unarmed
  <2> QED
    BY <2>1, <2>2, <2>3 DEF FreshInv, DeletesFresh, RequestFresh
<1>4. CASE UNCHANGED vars
  BY <1>4 DEF vars, FreshInv, DeletesFresh, RequestFresh, Messages, Timers,
              InCall, Unsent, Unarmed, Running, app, sync, net
<1> QED
  BY <1>1, <1>2, <1>3, <1>4, InsideFresh, ReturnFresh, BackgroundFresh, NextIsOneOf
     DEF UI, Inside

LEMMA InitFresh == Init => FreshInv
<1> SUFFICES ASSUME Init PROVE FreshInv
  OBVIOUS
<1>1. Messages = {NoProc} /\ Timers = {} /\ ui.at = "connect"
  BY DEF Init, Messages, Timers
<1>2. NoProc.op = "control"
  BY DEF NoProc
<1> QED
  BY <1>1, <1>2 DEF FreshInv, DeletesFresh, RequestFresh, Unsent, Unarmed

\* Only prepare_sync_ui lowers the flag, and only signal_sync_ui adds to what
\* was signalled, raising the flag.
LEMMA FlagStep ==
    ASSUME [Next]_vars
    PROVE  \/ flag_sync' = flag_sync /\ signalled' = signalled
           \/ PrepareSyncUi /\ signalled' = signalled
           \/ flag_sync' = TRUE
<1>1. CASE Call("control") \/ Call("sub") \/ CallRmReport
  BY <1>1, Zenon DEF Call, CallRmReport, sync
<1>2. CASE InitDone \/ SendRequest \/ ArmTimer \/ EnterWait \/ DeadlinePasses
  BY <1>2, Zenon DEF InitDone, SendRequest, ArmTimer, EnterWait, DeadlinePasses, sync
<1>3. CASE PrepareSyncUi
  BY <1>3, Zenon DEF PrepareSyncUi
<1>4. CASE WakeUp \/ TimeOut
  BY <1>4, Zenon DEF WakeUp, TimeOut, Return, sync
<1>5. CASE SignalSyncUi
  BY <1>5, Zenon DEF SignalSyncUi
<1>6. CASE \/ StartXapp \/ HandleSetupResponse \/ HandleControlAnswer
           \/ HandleSubscriptionAnswer \/ Disarm
  BY <1>6, Zenon DEF StartXapp, HandleSetupResponse, HandleControlAnswer,
                     HandleSubscriptionAnswer, Disarm, sync
<1>7. CASE TimerFires \/ RicAnswers \/ RicAnswersSetup \/ Tick
  BY <1>7, Zenon DEF TimerFires, RicAnswers, RicAnswersSetup, Tick, sync
<1>8. CASE UNCHANGED vars
  BY <1>8, Zenon DEF vars, sync
<1> QED
  BY <1>1, <1>2, <1>3, <1>4, <1>5, <1>6, <1>7, <1>8, NextIsOneOf, Zenon DEF UI, Background

\* A step of the system keeps the call, leaves every call, or starts a call
\* whose procedure was never signalled.
LEMMA CallStep ==
    ASSUME ProcInv, FreshInv, [Next]_vars
    PROVE  \/ ui'.proc = ui.proc /\ (InCall' => InCall)
           \/ ~InCall'
           \/ ui'.proc \notin signalled
<1>1. ASSUME NEW op \in {"control", "sub"}, Call(op)
      PROVE  (ui'.proc = ui.proc /\ (InCall' => InCall)) \/ ui'.proc \notin signalled
  <2>1. \/ ui' = [proc |-> [op |-> op, id |-> key_id], at |-> "prepare"]
        \/ ui' = ui
    BY <1>1, CallEffect DEF ProcInv
  <2>2. \A m \in signalled : m.id < key_id /\ m.id \in Int /\ key_id \in Int
    BY DEF ProcInv, IdsGiven, Messages, TypeOK, Proc
  <2>3. \A a, b \in Int : a < b => a # b
    OBVIOUS
  <2>4. \A m \in signalled : m.id # key_id
    BY <2>2, <2>3, Zenon
  <2>5. CASE ui' = [proc |-> [op |-> op, id |-> key_id], at |-> "prepare"]
    BY <2>4, <2>5
  <2>6. CASE ui' = ui
    BY <2>6 DEF InCall
  <2> QED
    BY <2>1, <2>5, <2>6
<1>2. CASE CallRmReport
  <2>1. \/ \E h \in subs : ui' = [proc |-> [op |-> "del", id |-> h], at |-> "prepare"]
        \/ ui' = ui
    BY <1>2, CallRmReportEffect DEF ProcInv
  <2>2. \A m \in signalled : m.op = "del" => m.id \notin subs
    <3>1. Running /\ ~InCall
      BY <1>2, CallRmReportEffect DEF ProcInv, InCall
    <3> QED
      BY <3>1 DEF FreshInv, DeletesFresh, Messages
  <2>3. ASSUME NEW h \in subs, ui' = [proc |-> [op |-> "del", id |-> h], at |-> "prepare"]
        PROVE  ui'.proc \notin signalled
    BY <2>2, <2>3
  <2>4. CASE ui' = ui
    BY <2>4 DEF InCall
  <2> QED
    BY <2>1, <2>3, <2>4
<1>3. CASE InitDone
  BY <1>3 DEF InitDone, GoTo, InCall, ProcInv, TypeOK
<1>4. CASE Inside
  BY <1>4, InsideEffect DEF ProcInv
<1>5. CASE WakeUp \/ TimeOut
  BY <1>5, ReturnEffect DEF InCall
<1>6. CASE Background
  BY <1>6, BackgroundFrame DEF InCall
<1>7. CASE UNCHANGED vars
  BY <1>7 DEF vars, InCall
<1> QED
  BY <1>1, <1>2, <1>3, <1>4, <1>5, <1>6, <1>7, NextIsOneOf DEF UI, Inside

LEMMA WakeupStep ==
    ASSUME ProcInv, FreshInv, NoLostWakeup, [Next]_vars
    PROVE  NoLostWakeup'
<1>1. CASE flag_sync' = flag_sync /\ signalled' = signalled
  <2>1. CASE ui'.proc = ui.proc /\ (InCall' => InCall)
    BY <1>1, <2>1, Zenon DEF NoLostWakeup
  <2>2. CASE ~InCall' \/ ui'.proc \notin signalled
    BY <1>1, <2>2, Zenon DEF NoLostWakeup
  <2> QED
    BY <2>1, <2>2, CallStep, Zenon
<1>2. CASE PrepareSyncUi /\ signalled' = signalled
  <2>1. ui'.proc = ui.proc /\ Running
    BY <1>2, InsideEffect DEF ProcInv, Inside
  <2>2. ui.proc \notin signalled
    BY <1>2, <2>1 DEF PrepareSyncUi, At, FreshInv, RequestFresh, Unsent, Messages
  <2> QED
    BY <1>2, <2>1, <2>2, Zenon DEF NoLostWakeup
<1>3. CASE flag_sync' = TRUE
  BY <1>3, Zenon DEF NoLostWakeup
<1> QED
  BY <1>1, <1>2, <1>3, FlagStep, Zenon

\* However early the answer to a call comes, the flag it raised is still up
\* when the UI thread looks: prepare_sync_ui precedes the send in every call.
THEOREM WakeupsAreKept == Spec => []NoLostWakeup
<1>1. Init => ProcInv /\ FreshInv
  BY InitProcInv, InitFresh
<1>2. Init => NoLostWakeup
  BY DEF Init, NoLostWakeup, InCall
<1>3. ProcInv /\ [Next]_vars => ProcInv'
  BY ProcInvStep
<1>4. ProcInv /\ FreshInv /\ [Next]_vars => FreshInv'
  BY FreshStep
<1>5. ProcInv /\ FreshInv /\ NoLostWakeup /\ [Next]_vars => NoLostWakeup'
  BY WakeupStep
<1> QED
  BY <1>1, <1>2, <1>3, <1>4, <1>5, PTL DEF Spec

-----------------------------------------------------------------------------
(* The setup request.                                                       *)

SetupTimers == {e \in pending : e.ev = "setup"}

\* SetupGuarded, with what holds before the event loop has sent a request.
SetupInv ==
    Running => IF loop.at = "start" THEN ~connected /\ SetupTimers = {}
               ELSE connected <=> SetupTimers = {}

\* A step that keeps the setup timers, the connection and the loop's start.
LEMMA SetupFrame ==
    ASSUME SetupInv, Running, connected' = connected,
           loop'.at = "start" <=> loop.at = "start",
           SetupTimers' = {} <=> SetupTimers = {}
    PROVE  SetupInv'
  BY Zenon DEF SetupInv

LEMMA SetupStep ==
    ASSUME TypeOK, ArmsTimer, SetupInv, [Next]_vars
    PROVE  SetupInv'
<1>0. SetupEvent.ev = "setup"
  BY DEF SetupEvent
<1>1. CASE Still
  <2>1. UNCHANGED <<connected, pending, loop>> /\ Running
    BY <1>1 DEF Still, Call, CallRmReport, InitDone, PrepareSyncUi, EnterWait,
                DeadlinePasses, WakeUp, TimeOut, Return, setup, At
  <2> QED
    BY <2>1, SetupFrame DEF SetupTimers
<1>2. CASE SendRequest
  BY <1>2, SetupFrame DEF SendRequest, At, setup, SetupTimers
<1>3. CASE ArmTimer
  <2> DEFINE new == [ev |-> ui.proc.op, id |-> ui.proc.id, left |-> WaitOf(ui.proc.op)]
  <2>1. /\ pending' = pending \cup {new} /\ Running /\ ui.at = "arm"
        /\ UNCHANGED <<connected, loop>>
    BY <1>3 DEF ArmTimer, At, setup
  <2>2. new.ev # "setup"
    BY <2>1 DEF ArmsTimer
  <2> HIDE DEF new
  <2>3. SetupTimers' = SetupTimers
    BY <2>1, <2>2 DEF SetupTimers
  <2> QED
    BY <2>1, <2>3, SetupFrame
<1>4. CASE StartXapp
  <2>1. /\ loop.at = "start" /\ loop'.at = "poll" /\ connected' = connected
        /\ pending' = pending \cup {SetupEvent} /\ Running
    BY <1>4 DEF StartXapp, LoopAt, TypeOK
  <2>2. SetupTimers' # {} /\ ~connected
    BY <1>0, <2>1 DEF SetupTimers, SetupInv
  <2> QED
    BY <2>1, <2>2 DEF SetupInv
<1>5. CASE HandleSetupResponse
  <2>1. loop' = loop /\ loop.at = "poll" /\ Running
    BY <1>5 DEF HandleSetupResponse, LoopAt
  <2>2. \/ connected' = connected /\ pending' = pending
        \/ pending' = (pending \ SetupTimers) \cup {SetupEvent} /\ ~connected'
        \/ connected' /\ pending' = pending \ SetupTimers
    <3>1. \/ connected' = connected /\ pending' = pending
          \/ /\ ~connected /\ connected' = connected
             /\ RetrySetup(pending \ SetupTimers)
          \/ connected' = TRUE /\ pending' = pending \ SetupTimers
      BY <1>5, Zenon DEF HandleSetupResponse, SetupTimers
    <3> QED
      BY <3>1, Zenon DEF RetrySetup
  <2>3. CASE connected' = connected /\ pending' = pending
    BY <2>1, <2>3, SetupFrame DEF SetupTimers
  <2>4. CASE pending' = (pending \ SetupTimers) \cup {SetupEvent} /\ ~connected'
    <3>1. SetupTimers' # {}
      BY <1>0, <2>4 DEF SetupTimers
    <3> QED
      BY <2>1, <2>4, <3>1 DEF SetupInv
  <2>5. CASE connected' /\ pending' = pending \ SetupTimers
    <3>1. SetupTimers' = {}
      BY <2>5 DEF SetupTimers
    <3> QED
      BY <2>1, <2>5, <3>1 DEF SetupInv
  <2> QED
    BY <2>2, <2>3, <2>4, <2>5
<1>6. CASE HandleControlAnswer \/ HandleSubscriptionAnswer
  <2>1. PICK a \in toXapp :
           \/ loop' = loop
           \/ loop' = [at |-> "signal", proc |-> a]
           \/ loop' = [at |-> "disarm", proc |-> a]
    BY <1>6, Zenon DEF HandleControlAnswer, HandleSubscriptionAnswer
  <2>2. UNCHANGED <<connected, pending>> /\ loop.at = "poll" /\ Running
    BY <1>6 DEF HandleControlAnswer, HandleSubscriptionAnswer, Receive, LoopAt, setup
  <2>3. loop'.at # "start"
    BY <2>1, <2>2
  <2> QED
    BY <2>2, <2>3, SetupFrame DEF SetupTimers
<1>7. CASE Disarm
  <2>1. connected' = connected /\ loop.at = "disarm" /\ Running
    BY <1>7 DEF Disarm, LoopAt, setup
  <2>2. loop' = loop \/ loop' = [loop EXCEPT !.at = "signal"]
    BY <1>7, Zenon DEF Disarm
  <2>3. loop'.at # "start"
    BY <2>1, <2>2 DEF TypeOK
  <2>4. pending' \subseteq pending /\ \A e \in pending \ pending' : e.ev # "setup"
    BY <1>7, DisarmEffect
  <2>6. SetupTimers' = SetupTimers
    BY <2>4 DEF SetupTimers
  <2> QED
    BY <2>1, <2>3, <2>6, SetupFrame
<1>8. CASE SignalSyncUi
  BY <1>8, SetupFrame DEF SignalSyncUi, LoopAt, setup, SetupTimers
<1>9. CASE TimerFires
  <2>1. connected' = connected /\ loop' = loop /\ Running
    BY <1>9 DEF TimerFires, LoopAt
  <2>2. PICK e \in pending :
           \/ e.ev = "setup" /\ pending' = (pending \ {e}) \cup {SetupEvent}
           \/ pending' = pending
    BY <1>9, Zenon DEF TimerFires
  <2>3. SetupTimers' = {} <=> SetupTimers = {}
    BY <1>0, <2>2 DEF SetupTimers
  <2> QED
    BY <2>1, <2>3, SetupFrame
<1>10. CASE RicAnswers \/ RicAnswersSetup
  BY <1>10, SetupFrame DEF RicAnswers, RicAnswersSetup, setup, SetupTimers
<1>11. CASE Tick
  <2>1. connected' = connected /\ loop' = loop /\ Running
    BY <1>11 DEF Tick, setup
  <2>2. pending' = {[e EXCEPT !.left = Less(@)] : e \in pending}
    BY <1>11 DEF Tick
  <2>3. \A e \in pending : [e EXCEPT !.left = Less(@)].ev = e.ev
    BY DEF TypeOK, Event
  <2>4. ASSUME NEW e \in SetupTimers
        PROVE  [e EXCEPT !.left = Less(@)] \in SetupTimers'
    <3>1. e \in pending /\ e.ev = "setup"
      BY DEF SetupTimers
    <3>2. [e EXCEPT !.left = Less(@)] \in pending'
      BY <2>2, <3>1
    <3> QED
      BY <2>3, <3>1, <3>2 DEF SetupTimers
  <2>5. ASSUME NEW f \in SetupTimers'
        PROVE  \E e \in pending : e \in SetupTimers
    <3>1. f \in pending' /\ f.ev = "setup"
      BY DEF SetupTimers
    <3>2. PICK e \in pending : f = [e EXCEPT !.left = Less(@)]
      BY <2>2, <3>1
    <3> QED
      BY <2>3, <3>1, <3>2 DEF SetupTimers
  <2>6. SetupTimers' = {} <=> SetupTimers = {}
    BY <2>4, <2>5, Zenon
  <2> QED
    BY <2>1, <2>6, SetupFrame
<1>12. CASE UNCHANGED vars
  BY <1>12 DEF vars, SetupInv, SetupTimers, Running, setup
<1> QED
  BY <1>1, <1>2, <1>3, <1>4, <1>5, <1>6, <1>7, <1>8, <1>9, <1>10, <1>11, <1>12,
     NextIsOneOf DEF UI, Still, Background

\* From its first setup request until it is connected the xApp always has a
\* timer that sends the request again, and none afterwards.
THEOREM SetupIsGuarded == Spec => []SetupGuarded
<1>1. Init => TypeOK /\ ArmsTimer
  BY InitType
<1>2. Init => SetupInv
  BY DEF Init, SetupInv, SetupTimers
<1>3. TypeOK /\ ArmsTimer /\ [Next]_vars => TypeOK' /\ ArmsTimer'
  BY TypeStep
<1>4. TypeOK /\ ArmsTimer /\ SetupInv /\ [Next]_vars => SetupInv'
  BY SetupStep
<1>5. SetupInv => SetupGuarded
  BY DEF SetupInv, SetupGuarded, SetupTimers
<1> QED
  BY <1>1, <1>2, <1>3, <1>4, <1>5, PTL DEF Spec
-----------------------------------------------------------------------------
(* One answer, one timer.                                                   *)

Disarming == {p \in {loop.proc} : loop.at = "disarm"}
Sending == {p \in {ui.proc} : ui.at = "send" /\ p.op = "sub"}
Due == {p \in {ui.proc} : ui.at = "arm" /\ p.op = "del"}

\* A request is on its way, answered or neither, and is answered once.
OneAnswer ==
    /\ toRic \cap toXapp = {} /\ (toRic \cup toXapp) \cap answered = {}
    /\ Disarming \subseteq answered
    /\ \A p \in Disarming : p.op # "control"

\* A procedure arms one timer.
OneTimer ==
    \A e, f \in pending : e.ev # "setup" /\ e.ev = f.ev /\ e.id = f.id => e = f

\* A delete about to arm its timer has sent its request; once it is answered no
\* other delete's answer is in hand.
CallAnswered ==
    Running /\ ui.proc.op = "del" =>
        /\ ui.at = "arm" => ui.proc \in toRic \cup toXapp \cup answered
        /\ InCall /\ ui.proc \in answered =>
              \A p \in Disarming : p.op = "del" => p = ui.proc

AnswerInv == OneAnswer /\ OneTimer /\ CallAnswered

LEMMA InitAnswers == Init => AnswerInv
  BY DEF Init, AnswerInv, OneAnswer, OneTimer, CallAnswered, Disarming, InCall

\* The steps of the event loop, the RIC and time that receive no answer and stop
\* no timer keep the timers and what the handler is at.
LEMMA QuietTimers ==
    ASSUME TypeOK, StartXapp \/ HandleSetupResponse \/ TimerFires \/ RicAnswersSetup \/ Tick
    PROVE  Timers' = Timers /\ Disarming' = Disarming /\ UNCHANGED <<ui, toRic, toXapp, answered>>
<1>1. UNCHANGED <<ui, toRic, toXapp, answered>> /\ Disarming' = Disarming
  <2>1. UNCHANGED <<ui, toRic, toXapp, answered>>
    BY DEF StartXapp, HandleSetupResponse, TimerFires, RicAnswersSetup, Tick, net
  <2>2. CASE StartXapp
    <3>1. loop.at = "start" /\ loop'.at = "poll"
      BY <2>2 DEF StartXapp, LoopAt, TypeOK
    <3> QED
      BY <2>1, <3>1 DEF Disarming
  <2>3. CASE HandleSetupResponse \/ TimerFires \/ RicAnswersSetup \/ Tick
    <3>1. loop' = loop
      BY <2>3 DEF HandleSetupResponse, TimerFires, RicAnswersSetup, Tick
    <3> QED
      BY <2>1, <3>1 DEF Disarming
  <2> QED
    BY <2>2, <2>3
<1>2. Timers' \subseteq Timers
  BY BackgroundTraces DEF Background
<1>3. Timers \subseteq Timers'
  <2>1. SUFFICES ASSUME NEW e \in pending, e.ev # "setup"
                 PROVE  \E f \in pending' : f.ev = e.ev /\ f.id = e.id
    BY DEF Timers
  <2>2. CASE Tick
    <3>1. [e EXCEPT !.left = Less(@)] \in pending'
      BY <2>2 DEF Tick
    <3>2. e \in Event
      BY DEF TypeOK
    <3> QED
      BY <3>1, <3>2 DEF Event
  <2>3. CASE HandleSetupResponse
    <3> DEFINE timers == {x \in pending : x.ev = "setup"}
    <3>1. \/ pending' = pending
          \/ RetrySetup(pending \ timers)
          \/ pending' = pending \ timers
      BY <2>3, Zenon DEF HandleSetupResponse
    <3>2. e \in pending'
      BY <2>1, <3>1 DEF RetrySetup
    <3> QED
      BY <3>2
  <2>4. CASE TimerFires
    <3>1. PICK x \in pending : \/ x.ev = "setup" /\ pending' = (pending \ {x}) \cup {SetupEvent}
                               \/ pending' = pending
      BY <2>4, Zenon DEF TimerFires
    <3>2. e \in pending'
      BY <2>1, <3>1
    <3> QED
      BY <3>2
  <2>5. CASE StartXapp \/ RicAnswersSetup
    BY <2>5 DEF StartXapp, RicAnswersSetup
  <2> QED
    BY <2>2, <2>3, <2>4, <2>5
<1> QED
  BY <1>1, <1>2, <1>3

\* Time moves every timer, and no two of them together.
LEMMA QuietOneTimer ==
    ASSUME TypeOK, OneTimer,
           StartXapp \/ HandleSetupResponse \/ TimerFires \/ RicAnswersSetup \/ Tick
    PROVE  OneTimer'
<1>1. CASE Tick
  <2>1. SUFFICES ASSUME NEW e \in pending', NEW f \in pending',
                        e.ev # "setup", e.ev = f.ev, e.id = f.id
                 PROVE  e = f
    BY DEF OneTimer
  <2>2. PICK x \in pending : e = [x EXCEPT !.left = Less(@)]
    BY <1>1 DEF Tick
  <2>3. PICK y \in pending : f = [y EXCEPT !.left = Less(@)]
    BY <1>1 DEF Tick
  <2>4. x \in Event /\ y \in Event
    BY DEF TypeOK
  <2>5. e.ev = x.ev /\ e.id = x.id /\ f.ev = y.ev /\ f.id = y.id
    BY <2>2, <2>3, <2>4 DEF Event
  <2>6. x = y
    BY <2>1, <2>5 DEF OneTimer
  <2> QED
    BY <2>2, <2>3, <2>6
<1>2. CASE StartXapp \/ HandleSetupResponse \/ TimerFires \/ RicAnswersSetup
  <2>1. \A e \in pending' : e \in pending \/ e.ev = "setup"
    <3>1. SetupEvent.ev = "setup"
      BY DEF SetupEvent
    <3>2. CASE StartXapp \/ RicAnswersSetup
      BY <3>1, <3>2 DEF StartXapp, RicAnswersSetup
    <3>3. CASE HandleSetupResponse
      <4> DEFINE timers == {x \in pending : x.ev = "setup"}
      <4>1. \/ pending' = pending
            \/ RetrySetup(pending \ timers)
            \/ pending' = pending \ timers
        BY <3>3, Zenon DEF HandleSetupResponse
      <4> QED
        BY <3>1, <4>1 DEF RetrySetup
    <3>4. CASE TimerFires
      <4>1. PICK x \in pending : \/ pending' = (pending \ {x}) \cup {SetupEvent}
                                 \/ pending' = pending
        BY <3>4, Zenon DEF TimerFires
      <4> QED
        BY <3>1, <4>1
    <3> QED
      BY <1>2, <3>2, <3>3, <3>4
  <2> QED
    BY <2>1 DEF OneTimer
<1> QED
  BY <1>1, <1>2

\* What the handlers of answers do, up to find_act_proc.
LEMMA HandleEffect ==
    ASSUME HandleControlAnswer \/ HandleSubscriptionAnswer
    PROVE  /\ UNCHANGED <<ui, toRic, pending, subs, failed, success, flag_sync, signalled>>
           /\ Running /\ loop.at = "poll"
           /\ \E a \in toXapp :
                 /\ toXapp' = toXapp \ {a} /\ answered' = answered \cup {a}
                 /\ \/ /\ a.op = "control"
                       /\ loop' = [at |-> "signal", proc |-> a] \/ loop' = loop
                    \/ /\ a.op # "control" /\ Registered(a.id)
                       /\ loop' = [at |-> "disarm", proc |-> a]
                    \/ /\ a.op # "control" /\ ~Registered(a.id)
                       /\ loop' = loop /\ ~Running'
                       /\ aborted' = "ric_req_id not registered"
<1>1. UNCHANGED <<ui, toRic, pending, subs, failed, success, flag_sync, signalled>>
  BY DEF HandleControlAnswer, HandleSubscriptionAnswer, app, sync
<1>2. CASE HandleControlAnswer
  <2>1. PICK a \in toXapp :
           /\ a.op = "control" /\ Receive(a)
           /\ loop' = IF Registered(a.id) THEN [at |-> "signal", proc |-> a] ELSE loop
    BY <1>2, Zenon DEF HandleControlAnswer
  <2> QED
    BY <1>1, <2>1 DEF Receive, LoopAt
<1>3. CASE HandleSubscriptionAnswer
  <2>1. PICK a \in toXapp :
           /\ a.op # "control" /\ Receive(a)
           /\ \/ Registered(a.id) /\ loop' = [at |-> "disarm", proc |-> a]
              \/ /\ ~Registered(a.id) /\ loop' = loop
                 /\ Abort("ric_req_id not registered")
    BY <1>3, Zenon DEF HandleSubscriptionAnswer
  <2>2. Abort("ric_req_id not registered") =>
           aborted' = "ric_req_id not registered" /\ ~Running'
    BY DEF Abort, Running
  <2> QED
    BY <1>1, <2>1, <2>2 DEF Receive, LoopAt
<1> QED
  BY <1>2, <1>3

LEMMA StillAnswers ==
    ASSUME ProcInv, FreshInv, AnswerInv, Still
    PROVE  AnswerInv'
<1>1. UNCHANGED <<toRic, toXapp, answered, loop, pending>> /\ Running
  BY DEF Still, Call, CallRmReport, InitDone, PrepareSyncUi, EnterWait, DeadlinePasses,
         WakeUp, TimeOut, Return, net, At
<1>2. Disarming' = Disarming
  BY <1>1 DEF Disarming
<1>3. OneAnswer' /\ OneTimer'
  BY <1>1, <1>2 DEF AnswerInv, OneAnswer, OneTimer
<1>4. CASE PrepareSyncUi \/ EnterWait \/ DeadlinePasses
  <2>1. Inside
    BY <1>4 DEF Inside
  <2>2. InCall /\ ui'.proc = ui.proc
    BY <2>1, InsideEffect DEF ProcInv
  <2>3. ui.proc.op = "del" => ui'.at # "arm"
    <3>1. CASE PrepareSyncUi
      <4>1. ui.at = "prepare" /\ Advance
        BY <3>1 DEF PrepareSyncUi, At
      <4>2. ui'.at = Following(ui.proc.op, ui.at)
        BY <4>1, AdvanceType DEF ProcInv
      <4> QED
        BY <4>1, <4>2 DEF Following
    <3>2. CASE EnterWait \/ DeadlinePasses
      BY <3>2, GoToType DEF EnterWait, DeadlinePasses, Steps, ProcInv
    <3> QED
      BY <1>4, <3>1, <3>2
  <2> QED
    BY <1>1, <1>2, <1>3, <2>2, <2>3 DEF AnswerInv, CallAnswered
<1>5. CASE InitDone \/ WakeUp \/ TimeOut
  <2>1. ui'.at = "idle"
    BY <1>5, ReturnEffect, GoToType DEF InitDone, Steps, ProcInv
  <2> QED
    BY <1>3, <2>1 DEF AnswerInv, CallAnswered, InCall
<1>6. CASE Call("control") \/ Call("sub")
  <2>1. ui'.proc.op # "del" \/ ~Running'
    BY <1>6, CallEffect DEF ProcInv
  <2> QED
    BY <1>3, <2>1 DEF AnswerInv, CallAnswered
<1>7. CASE CallRmReport
  <2>1. \/ \E h \in subs : ui' = [proc |-> [op |-> "del", id |-> h], at |-> "prepare"]
        \/ ~Running'
    BY <1>7, CallRmReportEffect DEF ProcInv
  <2>2. \A m \in answered : m.op = "del" => m.id \notin subs
    <3>1. ~InCall
      BY <1>7, CallRmReportEffect DEF ProcInv, InCall
    <3> QED
      BY <1>1, <3>1 DEF FreshInv, DeletesFresh, Messages
  <2>3. ASSUME NEW h \in subs, ui' = [proc |-> [op |-> "del", id |-> h], at |-> "prepare"]
        PROVE  ui'.proc \notin answered /\ ui'.at # "arm"
    BY <2>2, <2>3
  <2> QED
    BY <1>1, <1>3, <2>1, <2>3 DEF AnswerInv, CallAnswered
<1> QED
  BY <1>4, <1>5, <1>6, <1>7 DEF Still

LEMMA SendAnswers ==
    ASSUME ProcInv, FreshInv, AnswerInv, SendRequest
    PROVE  AnswerInv'
<1>1. /\ toRic' = toRic \cup {ui.proc} /\ Running /\ ui.at = "send"
      /\ UNCHANGED <<toXapp, answered, loop, pending>>
  BY DEF SendRequest, At
<1>2. ui.proc \notin Messages
  BY <1>1 DEF FreshInv, RequestFresh, Unsent
<1>3. Disarming' = Disarming /\ ui'.proc = ui.proc
  BY <1>1, AdvanceType DEF Disarming, SendRequest, ProcInv
<1>4. OneAnswer' /\ OneTimer'
  BY <1>1, <1>2, <1>3 DEF AnswerInv, OneAnswer, OneTimer, Messages
<1>5. CallAnswered'
  BY <1>1, <1>2, <1>3 DEF CallAnswered, Messages
<1> QED
  BY <1>4, <1>5 DEF AnswerInv

LEMMA ArmAnswers ==
    ASSUME ProcInv, FreshInv, AnswerInv, ArmTimer
    PROVE  AnswerInv'
<1> DEFINE new == [ev |-> ui.proc.op, id |-> ui.proc.id, left |-> WaitOf(ui.proc.op)]
<1>1. /\ pending' = pending \cup {new} /\ Running /\ ui.at = "arm"
      /\ UNCHANGED <<toRic, toXapp, answered, loop>>
  BY DEF ArmTimer, At, net
<1>2. ui'.proc = ui.proc /\ ui'.at = Following(ui.proc.op, "arm")
  BY <1>1, AdvanceType DEF ArmTimer, ProcInv
<1>3. ui'.at # "arm" /\ InCall
  BY <1>1, <1>2 DEF Following, InCall
<1>4. Disarming' = Disarming
  BY <1>1 DEF Disarming
<1>5. new.ev = ui.proc.op /\ new.id = ui.proc.id
  OBVIOUS
<1> HIDE DEF new
<1>6. \A e \in pending : e.ev = new.ev /\ e.ev # "setup" => e.id # new.id
  <2>1. ui.proc \notin Timers
    BY <1>1 DEF FreshInv, RequestFresh, Unarmed
  <2>2. ui.proc = [op |-> ui.proc.op, id |-> ui.proc.id]
    BY DEF ProcInv, TypeOK, Proc
  <2>3. ASSUME NEW e \in pending, e.ev = new.ev, e.ev # "setup", e.id = new.id
        PROVE  FALSE
    <3>1. [op |-> e.ev, id |-> e.id] \in Timers
      BY <2>3 DEF Timers
    <3> QED
      BY <1>5, <2>1, <2>2, <2>3, <3>1
  <2> QED
    BY <2>3
<1>7. OneTimer'
  BY <1>1, <1>6 DEF AnswerInv, OneTimer
<1>8. OneAnswer' /\ CallAnswered'
  BY <1>1, <1>2, <1>3, <1>4 DEF AnswerInv, OneAnswer, CallAnswered
<1> QED
  BY <1>7, <1>8 DEF AnswerInv

LEMMA ReceiveAnswers ==
    ASSUME ProcInv, FreshInv, AnswerInv, HandleControlAnswer \/ HandleSubscriptionAnswer
    PROVE  AnswerInv'
<1>1. UNCHANGED <<ui, toRic, pending>> /\ Running /\ loop.at = "poll"
  BY HandleEffect
<1>2. PICK a \in toXapp :
         /\ toXapp' = toXapp \ {a} /\ answered' = answered \cup {a}
         /\ \/ /\ a.op = "control"
               /\ loop' = [at |-> "signal", proc |-> a] \/ loop' = loop
            \/ /\ a.op # "control" /\ Registered(a.id)
               /\ loop' = [at |-> "disarm", proc |-> a]
            \/ loop' = loop /\ ~Running'
  BY HandleEffect
<1>3. \/ Disarming' = {}
      \/ a.op # "control" /\ Registered(a.id) /\ Disarming' = {a}
  BY <1>1, <1>2 DEF Disarming
<1>4. OneAnswer' /\ OneTimer'
  BY <1>1, <1>2, <1>3 DEF AnswerInv, OneAnswer, OneTimer
<1>5. CallAnswered'
  <2>1. ASSUME InCall, ui.proc.op = "del", a.op = "del", Registered(a.id)
        PROVE  a = ui.proc
    <3>1. a.id \in subs
      BY <1>1, <2>1 DEF ProcInv, Registry, Registered
    <3> QED
      BY <1>1, <2>1, <3>1 DEF FreshInv, DeletesFresh, Messages
  <2>2. InCall' = InCall /\ ui' = ui
    BY <1>1 DEF InCall
  <2> QED
    BY <1>1, <1>2, <1>3, <2>1, <2>2 DEF AnswerInv, CallAnswered
<1> QED
  BY <1>4, <1>5 DEF AnswerInv

LEMMA AnswersStep == ProcInv /\ FreshInv /\ AnswerInv /\ [Next]_vars => AnswerInv'
<1> SUFFICES ASSUME ProcInv, FreshInv, AnswerInv, [Next]_vars PROVE AnswerInv'
  OBVIOUS
<1>1. CASE StartXapp \/ HandleSetupResponse \/ TimerFires \/ RicAnswersSetup \/ Tick
  <2>1. Disarming' = Disarming /\ UNCHANGED <<ui, toRic, toXapp, answered>>
    BY <1>1, QuietTimers DEF ProcInv
  <2>2. Running
    BY <1>1, BackgroundRuns DEF Background
  <2>3. OneTimer'
    BY <1>1, QuietOneTimer DEF ProcInv, AnswerInv
  <2> QED
    BY <2>1, <2>2, <2>3 DEF AnswerInv, OneAnswer, CallAnswered, InCall
<1>2. CASE RicAnswers
  <2>1. PICK q \in toRic : toRic' = toRic \ {q} /\ toXapp' = toXapp \cup {q}
    BY <1>2 DEF RicAnswers
  <2>2. UNCHANGED <<ui, loop, pending, answered>> /\ Running
    BY <1>2 DEF RicAnswers
  <2>3. Disarming' = Disarming
    BY <2>2 DEF Disarming
  <2> QED
    BY <2>1, <2>2, <2>3 DEF AnswerInv, OneAnswer, OneTimer, CallAnswered, InCall
<1>3. CASE SignalSyncUi
  <2>1. UNCHANGED <<ui, toRic, toXapp, answered, pending>> /\ Running
    BY <1>3 DEF SignalSyncUi, net, LoopAt
  <2>2. Disarming = {} /\ Disarming' = {}
    BY <1>3, <2>1 DEF SignalSyncUi, LoopAt, Disarming
  <2> QED
    BY <2>1, <2>2 DEF AnswerInv, OneAnswer, OneTimer, CallAnswered, InCall
<1>4. CASE Disarm
  <2>1. UNCHANGED <<ui, toRic, toXapp, answered>> /\ Running
    BY <1>4 DEF Disarm, net, LoopAt
  <2>2. pending' \subseteq pending /\ (loop' = loop \/ loop' = [loop EXCEPT !.at = "signal"])
    BY <1>4, DisarmEffect DEF ProcInv
  <2>3. Disarming' \subseteq Disarming
    BY <2>2 DEF Disarming, ProcInv, TypeOK
  <2> QED
    BY <2>1, <2>2, <2>3 DEF AnswerInv, OneAnswer, OneTimer, CallAnswered, InCall
<1>5. CASE UNCHANGED vars
  BY <1>5 DEF vars, AnswerInv, OneAnswer, OneTimer, CallAnswered, Disarming, InCall,
              Running, net
<1> QED
  BY <1>1, <1>2, <1>3, <1>4, <1>5, StillAnswers, SendAnswers, ArmAnswers, ReceiveAnswers,
     NextIsOneOf DEF Still, UI, Background

-----------------------------------------------------------------------------
(* As many timers as requests without an answer.                            *)

Waiting == toRic \cup toXapp \cup Disarming \cup Sending
Guarding == Timers \cup Due
OfKind(S, op) == {p \in S : p.op = op}

Balanced(G, W) == IsFiniteSet(G) /\ IsFiniteSet(W) /\ Cardinality(G) = Cardinality(W)

Balance ==
    Running => \A op \in {"sub", "del"} : Balanced(OfKind(Guarding, op), OfKind(Waiting, op))

LEMMA GuardsAreGuarding ==
    \A op \in {"sub", "del"} :
        Guards(op) = OfKind(Guarding, op) /\ Awaiting(op) = OfKind(Waiting, op)
<1> SUFFICES ASSUME NEW op \in {"sub", "del"}
             PROVE  Guards(op) = OfKind(Guarding, op) /\ Awaiting(op) = OfKind(Waiting, op)
  OBVIOUS
<1>1. Awaiting(op) = OfKind(Waiting, op)
  BY DEF Awaiting, OfKind, Waiting, Disarming, Sending
<1>2. {[op |-> e.ev, id |-> e.id] : e \in {f \in pending : f.ev = op}} = OfKind(Timers, op)
  BY DEF OfKind, Timers
<1>3. {p \in {ui.proc} : ui.at = "arm" /\ p.op = op /\ op = "del"} = OfKind(Due, op)
  BY DEF OfKind, Due
<1>4. OfKind(Guarding, op) = OfKind(Timers, op) \cup OfKind(Due, op)
  BY DEF OfKind, Guarding
<1> QED
  BY <1>1, <1>2, <1>3, <1>4 DEF Guards

LEMMA BalancedAdd ==
    ASSUME NEW G, NEW W, Balanced(G, W), NEW g, g \notin G, NEW w, w \notin W
    PROVE  Balanced(G \cup {g}, W \cup {w})
  BY FS_AddElement DEF Balanced

LEMMA BalancedRemove ==
    ASSUME NEW G, NEW W, Balanced(G, W), NEW g \in G, NEW w \in W
    PROVE  Balanced(G \ {g}, W \ {w})
  BY FS_RemoveElement DEF Balanced

LEMMA BalanceSame ==
    ASSUME Balance, Running, Guarding' = Guarding,
           \A p : p.op # "control" => (p \in Waiting' <=> p \in Waiting)
    PROVE  Balance'
<1>1. \A op \in {"sub", "del"} : OfKind(Waiting', op) = OfKind(Waiting, op)
  BY DEF OfKind
<1> QED
  BY <1>1 DEF Balance

LEMMA BalanceAdds ==
    ASSUME Balance, Running, NEW p, p \notin Guarding, p \notin Waiting,
           Guarding' = Guarding \cup {p}, Waiting' = Waiting \cup {p}
    PROVE  Balance'
<1> SUFFICES ASSUME NEW op \in {"sub", "del"}
             PROVE  Balanced(OfKind(Guarding \cup {p}, op), OfKind(Waiting \cup {p}, op))
  BY DEF Balance
<1>1. Balanced(OfKind(Guarding, op), OfKind(Waiting, op))
  BY DEF Balance
<1>2. CASE p.op = op
  <2>1. OfKind(Guarding \cup {p}, op) = OfKind(Guarding, op) \cup {p}
    BY <1>2 DEF OfKind
  <2>2. OfKind(Waiting \cup {p}, op) = OfKind(Waiting, op) \cup {p}
    BY <1>2 DEF OfKind
  <2>3. p \notin OfKind(Guarding, op) /\ p \notin OfKind(Waiting, op)
    BY DEF OfKind
  <2> QED
    BY <1>1, <2>1, <2>2, <2>3, BalancedAdd
<1>3. CASE p.op # op
  <2>1. /\ OfKind(Guarding \cup {p}, op) = OfKind(Guarding, op)
        /\ OfKind(Waiting \cup {p}, op) = OfKind(Waiting, op)
    BY <1>3 DEF OfKind
  <2> QED
    BY <1>1, <2>1
<1> QED
  BY <1>2, <1>3

LEMMA BalanceRemoves ==
    ASSUME Balance, Running, NEW g \in Guarding, NEW w \in Waiting, g.op = w.op,
           Guarding' = Guarding \ {g}, Waiting' = Waiting \ {w}
    PROVE  Balance'
<1> SUFFICES ASSUME NEW op \in {"sub", "del"}
             PROVE  Balanced(OfKind(Guarding \ {g}, op), OfKind(Waiting \ {w}, op))
  BY DEF Balance
<1>1. Balanced(OfKind(Guarding, op), OfKind(Waiting, op))
  BY DEF Balance
<1>2. CASE g.op = op
  <2>1. OfKind(Guarding \ {g}, op) = OfKind(Guarding, op) \ {g}
    BY DEF OfKind
  <2>2. OfKind(Waiting \ {w}, op) = OfKind(Waiting, op) \ {w}
    BY DEF OfKind
  <2>3. g \in OfKind(Guarding, op) /\ w \in OfKind(Waiting, op)
    BY <1>2 DEF OfKind
  <2>4. Balanced(OfKind(Guarding, op) \ {g}, OfKind(Waiting, op) \ {w})
    BY <1>1, <2>3, BalancedRemove, Zenon
  <2> QED
    BY <2>1, <2>2, <2>4
<1>3. CASE g.op # op
  <2>1. /\ OfKind(Guarding \ {g}, op) = OfKind(Guarding, op)
        /\ OfKind(Waiting \ {w}, op) = OfKind(Waiting, op)
    BY <1>3 DEF OfKind
  <2> QED
    BY <1>1, <2>1
<1> QED
  BY <1>2, <1>3

LEMMA StillBalance ==
    ASSUME ProcInv, Balance, Still
    PROVE  Balance'
<1>1. UNCHANGED <<toRic, toXapp, loop, pending>> /\ Running /\ ui.at \notin {"arm", "send"}
  BY DEF Still, Call, CallRmReport, InitDone, PrepareSyncUi, EnterWait, DeadlinePasses,
         WakeUp, TimeOut, Return, net, At
<1>2. Timers' = Timers /\ Disarming' = Disarming /\ Sending = {} /\ Due = {}
  BY <1>1 DEF Timers, Disarming, Sending, Due
<1>3. ~Running' \/ (Sending' = {} /\ Due' = {})
  <2>1. CASE PrepareSyncUi
    <3>1. ui.at = "prepare" /\ Advance
      BY <2>1 DEF PrepareSyncUi, At
    <3>2. ui'.proc = ui.proc /\ ui'.at = Following(ui.proc.op, ui.at)
      BY <3>1, AdvanceType DEF ProcInv
    <3>3. ui'.at = IF ui.proc.op = "sub" THEN "arm" ELSE "send"
      BY <3>1, <3>2 DEF Following
    <3> QED
      BY <3>2, <3>3 DEF Sending, Due
  <2>2. CASE ~PrepareSyncUi
    <3>1. ~Running' \/ ui'.at \notin {"arm", "send"}
      <4>1. ASSUME NEW op \in {"control", "sub"}, Call(op)
            PROVE  ~Running' \/ ui'.at \notin {"arm", "send"}
        BY <4>1, CallEffect DEF ProcInv
      <4>2. CASE CallRmReport
        BY <4>2, CallRmReportEffect DEF ProcInv
      <4>3. CASE InitDone \/ EnterWait \/ DeadlinePasses
        BY <4>3, GoToType DEF InitDone, EnterWait, DeadlinePasses, Steps, ProcInv
      <4>4. CASE WakeUp \/ TimeOut
        BY <4>4, ReturnEffect
      <4> QED
        BY <2>2, <4>1, <4>2, <4>3, <4>4 DEF Still
    <3> QED
      BY <3>1 DEF Sending, Due
  <2> QED
    BY <2>1, <2>2
<1>4. CASE ~Running'
  BY <1>4 DEF Balance
<1>5. CASE Sending' = {} /\ Due' = {}
  <2>1. Guarding' = Guarding /\ Waiting' = Waiting
    BY <1>1, <1>2, <1>5 DEF Guarding, Waiting
  <2> QED
    BY <1>1, <2>1, BalanceSame
<1> QED
  BY <1>3, <1>4, <1>5

LEMMA SendBalance ==
    ASSUME ProcInv, FreshInv, Balance, SendRequest
    PROVE  Balance'
<1>1. /\ toRic' = toRic \cup {ui.proc} /\ Running /\ ui.at = "send"
      /\ UNCHANGED <<toXapp, loop, pending>>
  BY DEF SendRequest, At
<1>2. ui'.proc = ui.proc /\ ui'.at = Following(ui.proc.op, "send")
  BY <1>1, AdvanceType DEF SendRequest, ProcInv
<1>3. ui'.at = IF ui.proc.op = "del" THEN "arm" ELSE "enter"
  BY <1>2 DEF Following
<1>4. Timers' = Timers /\ Disarming' = Disarming /\ Due = {} /\ Sending' = {}
  BY <1>1, <1>3 DEF Timers, Disarming, Due, Sending
<1>5. ui.proc \notin toRic \cup toXapp \cup Disarming
  BY <1>1 DEF FreshInv, RequestFresh, Unsent, Messages, Disarming
<1>6. CASE ui.proc.op = "del"
  <2>1. Sending = {} /\ Due' = {ui.proc}
    BY <1>2, <1>3, <1>6 DEF Sending, Due
  <2>2. ui.proc \notin Timers
    BY <1>1, <1>6 DEF FreshInv, RequestFresh, Unarmed
  <2>3. ui.proc \notin Guarding /\ ui.proc \notin Waiting
    BY <1>4, <1>5, <2>1, <2>2 DEF Guarding, Waiting
  <2>4. Guarding' = Guarding \cup {ui.proc} /\ Waiting' = Waiting \cup {ui.proc}
    BY <1>1, <1>4, <2>1 DEF Guarding, Waiting
  <2> QED
    BY <1>1, <2>3, <2>4, BalanceAdds
<1>7. CASE ui.proc.op # "del"
  <2>1. Guarding' = Guarding
    BY <1>2, <1>4, <1>7 DEF Guarding, Due
  <2>2. Sending = IF ui.proc.op = "sub" THEN {ui.proc} ELSE {}
    BY <1>1 DEF Sending
  <2>3. ui.proc.op \in {"control", "sub"}
    BY <1>7 DEF ProcInv, TypeOK, Proc, Ops
  <2>4. \A p : p.op # "control" => (p \in Waiting' <=> p \in Waiting)
    BY <1>1, <1>4, <2>2, <2>3 DEF Waiting
  <2> QED
    BY <1>1, <2>1, <2>4, BalanceSame
<1> QED
  BY <1>6, <1>7

LEMMA ArmBalance ==
    ASSUME ProcInv, FreshInv, Balance, ArmTimer
    PROVE  Balance'
<1>1. Running /\ ui.at = "arm" /\ Timers' = Timers \cup {ui.proc}
  BY ArmEffect DEF ProcInv
<1>2. UNCHANGED <<toRic, toXapp, loop>>
  BY DEF ArmTimer, net
<1>3. ui'.proc = ui.proc /\ ui'.at = Following(ui.proc.op, "arm")
  BY <1>1, AdvanceType DEF ArmTimer, ProcInv
<1>4. ui'.at = IF ui.proc.op = "sub" THEN "send" ELSE "enter"
  BY <1>3 DEF Following
<1>5. ui.proc.op \in {"sub", "del"}
  BY <1>1 DEF ProcInv, ArmsTimer
<1>6. Disarming' = Disarming /\ Due' = {} /\ Sending = {}
  BY <1>1, <1>2, <1>4 DEF Disarming, Due, Sending
<1>7. CASE ui.proc.op = "sub"
  <2>1. Due = {} /\ Sending' = {ui.proc}
    BY <1>3, <1>4, <1>7 DEF Due, Sending
  <2>2. ui.proc \notin Timers /\ ui.proc \notin Messages
    BY <1>1, <1>7 DEF FreshInv, RequestFresh, Unarmed, Unsent
  <2>3. ui.proc \notin Guarding /\ ui.proc \notin Waiting
    BY <1>6, <2>1, <2>2 DEF Guarding, Waiting, Messages, Disarming
  <2>4. Guarding' = Guarding \cup {ui.proc} /\ Waiting' = Waiting \cup {ui.proc}
    BY <1>1, <1>2, <1>6, <2>1 DEF Guarding, Waiting
  <2> QED
    BY <1>1, <2>3, <2>4, BalanceAdds
<1>8. CASE ui.proc.op = "del"
  <2>1. Due = {ui.proc} /\ Sending' = {}
    BY <1>1, <1>3, <1>8 DEF Due, Sending
  <2>2. Guarding' = Guarding /\ Waiting' = Waiting
    BY <1>1, <1>2, <1>6, <2>1 DEF Guarding, Waiting
  <2> QED
    BY <1>1, <2>2, BalanceSame
<1> QED
  BY <1>5, <1>7, <1>8

LEMMA ReceiveBalance ==
    ASSUME ProcInv, Balance, HandleControlAnswer \/ HandleSubscriptionAnswer
    PROVE  Balance'
<1>1. UNCHANGED <<ui, toRic, pending>> /\ Running /\ loop.at = "poll"
  BY HandleEffect
<1>2. PICK a \in toXapp :
         /\ toXapp' = toXapp \ {a}
         /\ \/ /\ a.op = "control"
               /\ loop' = [at |-> "signal", proc |-> a] \/ loop' = loop
            \/ a.op # "control" /\ loop' = [at |-> "disarm", proc |-> a]
            \/ ~Running'
  BY HandleEffect
<1>3. Disarming = {} /\ Sending' = Sending /\ Due' = Due /\ Timers' = Timers
  BY <1>1 DEF Disarming, Sending, Due, Timers
<1>4. \/ a.op = "control" /\ Disarming' = {}
      \/ a.op # "control" /\ Disarming' = {a}
      \/ ~Running'
  BY <1>1, <1>2 DEF Disarming
<1>5. CASE ~Running'
  BY <1>5 DEF Balance
<1>6. CASE Running'
  <2>1. Guarding' = Guarding
    BY <1>3 DEF Guarding
  <2>2. \A p : p.op # "control" => (p \in Waiting' <=> p \in Waiting)
    BY <1>1, <1>2, <1>3, <1>4, <1>6 DEF Waiting
  <2> QED
    BY <1>1, <2>1, <2>2, BalanceSame
<1> QED
  BY <1>5, <1>6

LEMMA DisarmBalance ==
    ASSUME ProcInv, FreshInv, AnswerInv, Balance, Disarm
    PROVE  Balance'
<1>1. UNCHANGED <<ui, toRic, toXapp>> /\ Running /\ loop.at = "disarm"
  BY DEF Disarm, LoopAt, net
<1>2. TypeOK /\ loop.proc \in Proc
  BY DEF ProcInv, TypeOK
<1>3. CASE aborted' = "pending event not found"
  BY <1>3 DEF Balance, Running
<1>4. CASE /\ loop' = [loop EXCEPT !.at = "signal"]
           /\ \E e \in pending : e.ev = loop.proc.op /\ pending' = pending \ {e}
  <2>1. PICK e \in pending : e.ev = loop.proc.op /\ pending' = pending \ {e}
    BY <1>4
  <2> DEFINE g == [op |-> e.ev, id |-> e.id]
  <2>2. e.ev # "setup" /\ g.op = loop.proc.op
    BY <1>2, <2>1 DEF Proc, Ops
  <2>3. g \in Timers
    BY <2>2 DEF Timers
  <2>4. \A f \in pending' : f.ev # "setup" => [op |-> f.ev, id |-> f.id] # g
    <3>1. SUFFICES ASSUME NEW f \in pending', f.ev # "setup", [op |-> f.ev, id |-> f.id] = g
                   PROVE  FALSE
      OBVIOUS
    <3>2. f.ev = e.ev /\ f.id = e.id /\ f \in pending /\ f # e
      BY <2>1, <3>1
    <3> QED
      BY <3>1, <3>2 DEF AnswerInv, OneTimer
  <2>5. \A f \in pending : f \in pending' \/ f = e
    BY <2>1
  <2>6. pending' \subseteq pending
    BY <2>1
  <2> HIDE DEF g
  <2>7. Timers' = Timers \ {g}
    BY <2>4, <2>5, <2>6 DEF Timers, g
  <2>8. g \notin Due
    BY <1>1, <2>3 DEF Due, FreshInv, RequestFresh, Unarmed
  <2>9. Due' = Due /\ Sending' = Sending /\ Disarming = {loop.proc} /\ Disarming' = {}
    BY <1>1, <1>4 DEF Due, Sending, Disarming, ProcInv, TypeOK
  <2>10. loop.proc \notin toRic \cup toXapp
    BY <2>9 DEF AnswerInv, OneAnswer
  <2>11. loop.proc \notin Sending
    BY <1>1 DEF Sending, FreshInv, RequestFresh, Unsent, Messages
  <2>12. g \in Guarding /\ Guarding' = Guarding \ {g}
    BY <2>3, <2>7, <2>8, <2>9 DEF Guarding
  <2>13. loop.proc \in Waiting /\ Waiting' = Waiting \ {loop.proc}
    BY <1>1, <2>9, <2>10, <2>11 DEF Waiting
  <2> QED
    BY <1>1, <2>2, <2>12, <2>13, BalanceRemoves
<1> QED
  BY <1>2, <1>3, <1>4, DisarmEffect

LEMMA BalanceStep ==
    ProcInv /\ FreshInv /\ AnswerInv /\ Balance /\ [Next]_vars => Balance'
<1> SUFFICES ASSUME ProcInv, FreshInv, AnswerInv, Balance, [Next]_vars PROVE Balance'
  OBVIOUS
<1>1. CASE StartXapp \/ HandleSetupResponse \/ TimerFires \/ RicAnswersSetup \/ Tick
  <2>1. /\ Timers' = Timers /\ Disarming' = Disarming
        /\ UNCHANGED <<ui, toRic, toXapp>>
    BY <1>1, QuietTimers DEF ProcInv
  <2>2. Running
    BY <1>1, BackgroundRuns DEF Background
  <2>3. Guarding' = Guarding /\ Waiting' = Waiting
    BY <2>1 DEF Guarding, Waiting, Due, Sending
  <2> QED
    BY <2>2, <2>3, BalanceSame
<1>2. CASE RicAnswers
  <2>1. toRic' \cup toXapp' = toRic \cup toXapp
    BY <1>2 DEF RicAnswers
  <2>2. UNCHANGED <<ui, loop, pending>> /\ Running
    BY <1>2 DEF RicAnswers
  <2>3. Guarding' = Guarding
    BY <2>2 DEF Guarding, Timers, Due
  <2>4. Disarming' = Disarming /\ Sending' = Sending
    BY <2>2 DEF Disarming, Sending
  <2>5. Waiting' = Waiting
    BY <2>1, <2>4 DEF Waiting
  <2> QED
    BY <2>2, <2>3, <2>5, BalanceSame
<1>3. CASE SignalSyncUi
  <2>1. UNCHANGED <<ui, toRic, toXapp, pending>> /\ Running
    BY <1>3 DEF SignalSyncUi, net, LoopAt
  <2>2. Disarming = {} /\ Disarming' = {}
    BY <1>3 DEF SignalSyncUi, LoopAt, Disarming
  <2>3. Guarding' = Guarding /\ Waiting' = Waiting
    BY <2>1, <2>2 DEF Guarding, Timers, Due, Waiting, Sending
  <2> QED
    BY <2>1, <2>3, BalanceSame
<1>4. CASE UNCHANGED vars
  <2>1. UNCHANGED <<ui, toRic, toXapp, loop, pending, aborted>>
    BY <1>4 DEF vars, net
  <2>2. Guarding' = Guarding /\ Waiting' = Waiting
    BY <2>1 DEF Guarding, Timers, Due, Waiting, Sending, Disarming
  <2> QED
    BY <2>1, <2>2 DEF Balance, Running
<1> QED
  BY <1>1, <1>2, <1>3, <1>4, StillBalance, SendBalance, ArmBalance, ReceiveBalance,
     DisarmBalance, NextIsOneOf DEF Still, UI, Background

LEMMA InitBalance == Init => Balance
<1> SUFFICES ASSUME Init PROVE Balance
  OBVIOUS
<1>1. Guarding = {} /\ Waiting = {}
  BY DEF Init, Guarding, Waiting, Timers, Due, Disarming, Sending
<1>2. \A op \in {"sub", "del"} : OfKind(Guarding, op) = {} /\ OfKind(Waiting, op) = {}
  BY <1>1 DEF OfKind
<1>3. Balanced({}, {})
  BY FS_EmptySet DEF Balanced
<1> QED
  BY <1>2, <1>3 DEF Balance

\* TimersCountRequests, for any number of calls: an answer may stop the timer of
\* another procedure of its kind, but there are always as many timers of a kind as
\* requests of the kind without an answer.
THEOREM TimersAreBalanced == Spec => []TimersCountRequests
<1>1. Init => ProcInv /\ FreshInv /\ AnswerInv /\ Balance
  BY InitProcInv, InitFresh, InitAnswers, InitBalance
<1>2. ProcInv /\ [Next]_vars => ProcInv'
  BY ProcInvStep
<1>3. ProcInv /\ FreshInv /\ [Next]_vars => FreshInv'
  BY FreshStep
<1>4. ProcInv /\ FreshInv /\ AnswerInv /\ [Next]_vars => AnswerInv'
  BY AnswersStep
<1>5. ProcInv /\ FreshInv /\ AnswerInv /\ Balance /\ [Next]_vars => Balance'
  BY BalanceStep
<1>6. Balance => TimersCountRequests
  BY GuardsAreGuarding DEF Balance, Balanced, TimersCountRequests
<1> QED
  BY <1>1, <1>2, <1>3, <1>4, <1>5, <1>6, PTL DEF Spec

-----------------------------------------------------------------------------
(* Success is earned.                                                       *)

\* The procedure whose answer a handler is working on.
InHand == {p \in {loop.proc} : loop.at \in {"disarm", "signal"}}

SignalledOnce == signalled \subseteq answered /\ InHand \subseteq answered \ signalled

\* As long as no answer was credited too late, the flag that a call finds was
\* raised for it, and every request still under way or in hand is that of the
\* call in progress or of one that has timed out.
Earned ==
    signalled \cap failed = {} =>
        /\ \A r \in success : [op |-> "control", id |-> r] \in signalled
        /\ \A h \in subs : [op |-> "sub", id |-> h] \in signalled
        /\ Running =>
              /\ InCall /\ ui.at # "prepare" /\ flag_sync => ui.proc \in signalled
              /\ \A p \in toRic \cup toXapp \cup InHand :
                    p \in failed \/ (InCall /\ p = ui.proc)

LEMMA EarnedUI ==
    ASSUME ProcInv, OneAnswer, SignalledOnce, Earned,
           \/ Call("control") \/ Call("sub") \/ CallRmReport \/ UI
    PROVE  SignalledOnce' /\ Earned'
<1>1. UNCHANGED <<signalled, answered, loop>> /\ InHand' = InHand /\ Running
  <2>1. UNCHANGED <<signalled, answered, loop>> /\ Running
    BY DEF Call, CallRmReport, UI, InitDone, PrepareSyncUi, SendRequest, ArmTimer,
           EnterWait, DeadlinePasses, WakeUp, TimeOut, Return, sync, At
  <2> QED
    BY <2>1 DEF InHand
<1>2. SignalledOnce'
  BY <1>1 DEF SignalledOnce
<1>3. CASE Call("control") \/ Call("sub") \/ CallRmReport \/ InitDone
  <2>1. ui.at \in {"idle", "connect"} /\ UNCHANGED <<subs, success, failed, toRic, toXapp>>
    BY <1>3 DEF Call, CallRmReport, InitDone, At, app, net
  <2>2. ~Running' \/ ui'.at \in {"prepare", "idle"}
    <3>1. ASSUME NEW op \in {"control", "sub"}, Call(op)
          PROVE  ~Running' \/ ui'.at \in {"prepare", "idle"}
      BY <3>1, CallEffect DEF ProcInv
    <3>2. CASE CallRmReport
      BY <3>2, CallRmReportEffect DEF ProcInv
    <3>3. CASE InitDone
      BY <3>3, GoToType DEF InitDone, Steps, ProcInv
    <3> QED
      BY <1>3, <3>1, <3>2, <3>3
  <2>3. ~InCall
    BY <2>1 DEF InCall
  <2> QED
    BY <1>1, <1>2, <2>1, <2>2, <2>3 DEF Earned, InCall
<1>4. CASE Inside
  <2>1. InCall /\ InCall' /\ ui'.proc = ui.proc /\ UNCHANGED <<subs, success, failed>>
    BY <1>4, InsideEffect DEF ProcInv, Inside, PrepareSyncUi, SendRequest, ArmTimer,
           EnterWait, DeadlinePasses, app
  <2>2. flag_sync' => flag_sync /\ ui.at # "prepare"
    BY <1>4 DEF Inside, PrepareSyncUi, SendRequest, ArmTimer, EnterWait,
           DeadlinePasses, sync, At
  <2>3. toRic' \cup toXapp' \subseteq toRic \cup toXapp \cup {ui.proc}
    BY <1>4 DEF Inside, PrepareSyncUi, SendRequest, ArmTimer, EnterWait,
           DeadlinePasses, net
  <2> QED
    BY <1>1, <1>2, <2>1, <2>2, <2>3 DEF Earned
<1>5. CASE WakeUp
  <2>1. ui.at = "wait" /\ flag_sync /\ InCall /\ Return(TRUE) /\ ~InCall'
    BY <1>5 DEF WakeUp, At, InCall, Return
  <2>2. /\ subs' \subseteq subs \cup {h \in {ui.proc.id} : ui.proc.op = "sub"}
        /\ success' \subseteq success \cup {r \in {ui.proc.id} : ui.proc.op = "control"}
        /\ failed' = failed /\ UNCHANGED <<toRic, toXapp>>
    BY <2>1 DEF Return, net
  <2>3. ui.proc = [op |-> ui.proc.op, id |-> ui.proc.id]
    BY DEF ProcInv, TypeOK, Proc
  <2>4. ASSUME signalled' \cap failed' = {} PROVE Earned'
    <3>1. ui.proc \in signalled
      BY <1>1, <2>1, <2>2, <2>4 DEF Earned
    <3>2. \A p \in toRic \cup toXapp \cup InHand : p # ui.proc
      BY <3>1 DEF SignalledOnce, OneAnswer
    <3>3. /\ \A r \in success' : [op |-> "control", id |-> r] \in signalled
          /\ \A h \in subs' : [op |-> "sub", id |-> h] \in signalled
      BY <1>1, <2>2, <2>3, <2>4, <3>1 DEF Earned
    <3>4. \A p \in toRic \cup toXapp \cup InHand : p \in failed
      BY <1>1, <2>2, <2>4, <3>2 DEF Earned
    <3> QED
      BY <1>1, <2>1, <2>2, <3>3, <3>4 DEF Earned
  <2> QED
    BY <1>2, <2>4 DEF Earned
<1>6. CASE TimeOut
  <2>1. InCall /\ Return(FALSE) /\ ~InCall'
    BY <1>6 DEF TimeOut, At, InCall, Return
  <2>2. subs' \subseteq subs /\ success' = success /\ failed' = failed \cup {ui.proc}
    BY <2>1 DEF Return
  <2>3. UNCHANGED <<toRic, toXapp>>
    BY <2>1 DEF Return, net
  <2> QED
    BY <1>1, <1>2, <2>1, <2>2, <2>3 DEF Earned
<1> QED
  BY <1>3, <1>4, <1>5, <1>6 DEF UI, Inside

LEMMA EarnedBackground ==
    ASSUME ProcInv, OneAnswer, SignalledOnce, Earned, Background
    PROVE  SignalledOnce' /\ Earned'
<1>1. UNCHANGED <<ui, subs, success, failed>> /\ Running /\ InCall' = InCall
  BY BackgroundFrame, BackgroundRuns DEF InCall
<1>2. CASE HandleControlAnswer \/ HandleSubscriptionAnswer
  <2>1. UNCHANGED <<toRic, flag_sync, signalled>> /\ loop.at = "poll"
    BY <1>2, HandleEffect
  <2>2. PICK a \in toXapp :
           /\ toXapp' = toXapp \ {a} /\ answered' = answered \cup {a}
           /\ \/ loop' = loop
              \/ loop' = [at |-> "signal", proc |-> a]
              \/ loop' = [at |-> "disarm", proc |-> a]
    BY <1>2, HandleEffect
  <2>3. InHand = {} /\ InHand' \subseteq {a}
    BY <2>1, <2>2 DEF InHand
  <2>4. a \notin signalled
    BY DEF OneAnswer, SignalledOnce
  <2>5. SignalledOnce'
    BY <2>1, <2>2, <2>3, <2>4 DEF SignalledOnce
  <2>6. toRic' \cup toXapp' \cup InHand' \subseteq toRic \cup toXapp
    BY <2>1, <2>2, <2>3
  <2> QED
    BY <1>1, <2>1, <2>5, <2>6 DEF Earned
<1>3. CASE SignalSyncUi
  <2>1. /\ loop.proc \in InHand /\ signalled' = signalled \cup {loop.proc}
        /\ answered' = answered /\ InHand' = {} /\ UNCHANGED <<toRic, toXapp>>
    BY <1>3 DEF SignalSyncUi, LoopAt, InHand, net
  <2>2. SignalledOnce'
    BY <2>1 DEF SignalledOnce
  <2> QED
    BY <1>1, <2>1, <2>2 DEF Earned
<1>4. CASE \/ StartXapp \/ HandleSetupResponse \/ Disarm \/ TimerFires
           \/ RicAnswers \/ RicAnswersSetup \/ Tick
  <2>1. UNCHANGED <<flag_sync, signalled, answered>>
    BY <1>4 DEF StartXapp, HandleSetupResponse, Disarm, TimerFires, RicAnswers,
           RicAnswersSetup, Tick, sync
  <2>2. InHand' = InHand
    <3>1. CASE Disarm
      <4>1. loop.at = "disarm" /\ (loop' = loop \/ loop' = [loop EXCEPT !.at = "signal"])
        BY <3>1, Zenon DEF Disarm, LoopAt
      <4>2. loop'.proc = loop.proc /\ loop'.at \in {"disarm", "signal"}
        BY <4>1 DEF ProcInv, TypeOK
      <4> QED
        BY <4>1, <4>2 DEF InHand
    <3>2. CASE StartXapp
      <4>1. loop.at = "start" /\ loop'.at = "poll"
        BY <3>2 DEF StartXapp, LoopAt, ProcInv, TypeOK
      <4> QED
        BY <4>1 DEF InHand
    <3>3. CASE \/ HandleSetupResponse \/ TimerFires \/ RicAnswers \/ RicAnswersSetup \/ Tick
      <4>1. loop' = loop
        BY <3>3 DEF HandleSetupResponse, TimerFires, RicAnswers, RicAnswersSetup, Tick
      <4> QED
        BY <4>1 DEF InHand
    <3> QED
      BY <1>4, <3>1, <3>2, <3>3
  <2>3. toRic' \cup toXapp' = toRic \cup toXapp
    <3>1. CASE RicAnswers
      BY <3>1 DEF RicAnswers
    <3>2. CASE ~RicAnswers
      BY <1>4, <3>2 DEF StartXapp, HandleSetupResponse, Disarm, TimerFires,
             RicAnswersSetup, Tick, net
    <3> QED
      BY <3>1, <3>2
  <2> QED
    BY <1>1, <2>1, <2>2, <2>3 DEF SignalledOnce, Earned
<1> QED
  BY <1>2, <1>3, <1>4 DEF Background

\* What is known of every reachable state about answers and the calls they end.
CreditInv == SignalledOnce /\ Earned

LEMMA InitCredit == Init => CreditInv
  BY DEF Init, CreditInv, SignalledOnce, Earned, InHand

LEMMA CreditStep == ProcInv /\ AnswerInv /\ CreditInv /\ [Next]_vars => CreditInv'
<1> SUFFICES ASSUME ProcInv, AnswerInv, CreditInv, [Next]_vars PROVE CreditInv'
  OBVIOUS
<1>1. CASE UNCHANGED vars
  BY <1>1 DEF vars, CreditInv, SignalledOnce, Earned, InHand, InCall, Running, app, sync, net
<1>2. CASE Next
  BY <1>2, NextIsOneOf, EarnedUI, EarnedBackground DEF CreditInv, AnswerInv
<1> QED
  BY <1>1, <1>2

\* SuccessIsEarned, for any number of calls: all calls wait for one flag, but
\* unless an answer is credited after its own call was reported as timed out, a
\* control reported successful and a subscription handed to the application were
\* really answered.
THEOREM SuccessIsAlwaysEarned == Spec => []SuccessIsEarned
<1>1. Init => ProcInv /\ FreshInv /\ AnswerInv /\ CreditInv
  BY InitProcInv, InitFresh, InitAnswers, InitCredit
<1>2. ProcInv /\ [Next]_vars => ProcInv'
  BY ProcInvStep
<1>3. ProcInv /\ FreshInv /\ [Next]_vars => FreshInv'
  BY FreshStep
<1>4. ProcInv /\ FreshInv /\ AnswerInv /\ [Next]_vars => AnswerInv'
  BY AnswersStep
<1>5. ProcInv /\ AnswerInv /\ CreditInv /\ [Next]_vars => CreditInv'
  BY CreditStep
<1>6. CreditInv => SuccessIsEarned
  BY DEF CreditInv, SignalledOnce, Earned, SuccessIsEarned
<1> QED
  BY <1>1, <1>2, <1>3, <1>4, <1>5, <1>6, PTL DEF Spec

-----------------------------------------------------------------------------
(* Why an assertion fails.                                                  *)

LEMMA BalancedEmpty ==
    ASSUME NEW G, NEW W, Balanced(G, W)
    PROVE  G = {} <=> W = {}
  BY FS_EmptySet DEF Balanced

LEMMA BalancedSingle ==
    ASSUME NEW G, NEW W, NEW g, NEW w \in W, Balanced(G, W), G \subseteq {g}
    PROVE  G = {g} /\ W = {w}
<1>1. G = {g}
  BY BalancedEmpty
<1>2. Cardinality(W) = 1 /\ IsFiniteSet(W)
  BY <1>1, FS_Singleton DEF Balanced
<1>3. PICK x : W = {x}
  BY <1>2, FS_Singleton
<1> QED
  BY <1>1, <1>3

\* A handler finds no timer of its kind only for a delete that has not armed its
\* own yet, and then the answer is to that delete.
LEMMA NoTimerToStop ==
    ASSUME ProcInv, AnswerInv, Balance, Running, loop.at = "disarm",
           \A e \in pending : e.ev # loop.proc.op
    PROVE  ui.at = "arm" /\ ui.proc.op = "del" /\ loop.proc = ui.proc
<1>1. loop.proc \in Disarming /\ loop.proc.op \in {"sub", "del"}
  BY DEF Disarming, AnswerInv, OneAnswer, ProcInv, TypeOK, Proc, Ops
<1> DEFINE op == loop.proc.op
<1>2. OfKind(Timers, op) = {}
  BY DEF OfKind, Timers
<1>3. OfKind(Guarding, op) \subseteq OfKind(Due, op)
  BY <1>2 DEF OfKind, Guarding
<1>4. OfKind(Guarding, op) \subseteq {ui.proc}
  BY <1>3 DEF OfKind, Due
<1>5. loop.proc \in OfKind(Waiting, op)
  BY <1>1 DEF OfKind, Waiting
<1>6. Balanced(OfKind(Guarding, op), OfKind(Waiting, op))
  BY <1>1 DEF Balance
<1> HIDE DEF op
<1>7. OfKind(Guarding, op) = {ui.proc} /\ OfKind(Waiting, op) = {loop.proc}
  BY <1>4, <1>5, <1>6, BalancedSingle
<1>8. ui.proc \in OfKind(Due, op)
  BY <1>3, <1>7
<1>9. ui.at = "arm" /\ ui.proc.op = "del" /\ op = "del"
  BY <1>8 DEF OfKind, Due
<1>10. ui.proc \in toRic \cup toXapp \cup answered /\ InCall
  BY <1>9 DEF AnswerInv, CallAnswered, InCall
<1>11. CASE ui.proc \in toRic \cup toXapp
  <2>1. ui.proc \in OfKind(Waiting, op)
    BY <1>9, <1>11 DEF OfKind, Waiting
  <2> QED
    BY <1>7, <1>9, <2>1
<1>12. CASE ui.proc \in answered
  BY <1>1, <1>9, <1>10, <1>12 DEF AnswerInv, CallAnswered, op
<1> QED
  BY <1>10, <1>11, <1>12, <1>9

\* What holds at the moment an assertion fails.
LEMMA AbortStep ==
    ASSUME ProcInv, FreshInv, SetupInv, AnswerInv, Balance, CreditInv, AbortCauses, [Next]_vars
    PROVE  AbortCauses'
<1>0. TypeOK /\ TypeOK'
  BY ProcInvStep DEF ProcInv
<1>1. ASSUME aborted' = aborted, Running PROVE AbortCauses'
  BY <1>1 DEF AbortCauses, Running
<1>2. ASSUME NEW op \in {"control", "sub"}, Call(op) PROVE AbortCauses'
  <2>1. \/ UNCHANGED aborted
        \/ aborted' = "req_id overflow" /\ key_id >= ReqIdLimit
    BY <1>2, Zenon DEF Call, Abort, NewKey
  <2>2. key_id' = key_id + 1 /\ Running
    BY <1>2, CallEffect DEF ProcInv
  <2>3. key_id >= ReqIdLimit => key_id' > ReqIdLimit
    BY <2>2, ConstantTypes DEF ProcInv, TypeOK
  <2> QED
    BY <1>1, <2>1, <2>2, <2>3 DEF AbortCauses
<1>3. CASE CallRmReport
  <2>1. act_proc = subs /\ Running
    BY <1>3, CallRmReportEffect DEF ProcInv, Registry, InCall
  <2>2. UNCHANGED aborted
    BY <1>3, <2>1, Zenon DEF CallRmReport, Registered
  <2> QED
    BY <1>1, <2>1, <2>2
<1>4. CASE UI
  <2>1. aborted' = aborted /\ Running
    BY <1>4 DEF UI, InitDone, PrepareSyncUi, SendRequest, ArmTimer, EnterWait,
           DeadlinePasses, WakeUp, TimeOut, Return, At
  <2> QED
    BY <1>1, <2>1
<1>5. CASE HandleSetupResponse
  <2>1. Running /\ loop.at = "poll"
    BY <1>5 DEF HandleSetupResponse, LoopAt
  <2>2. ~(~connected /\ SetupTimers = {})
    BY <2>1 DEF SetupInv
  <2>3. UNCHANGED aborted
    BY <1>5, <2>2, Zenon DEF HandleSetupResponse, SetupTimers
  <2> QED
    BY <1>1, <2>1, <2>3
<1>6. CASE HandleSubscriptionAnswer
  <2>1. /\ UNCHANGED <<signalled, failed>> /\ Running /\ act_proc' = act_proc
        /\ \A a \in toXapp : a \notin answered
    BY <1>6, HandleEffect, BackgroundFrame DEF Background, AnswerInv, OneAnswer
  <2>2. PICK a \in toXapp :
           /\ answered' = answered \cup {a}
           /\ \/ aborted' = aborted
              \/ ~Registered(a.id) /\ aborted' = "ric_req_id not registered"
    <3>1. PICK a \in toXapp :
             /\ Receive(a)
             /\ \/ UNCHANGED aborted
                \/ ~Registered(a.id) /\ Abort("ric_req_id not registered")
      BY <1>6, Zenon DEF HandleSubscriptionAnswer
    <3> QED
      BY <3>1 DEF Receive, Abort
  <2>3. CASE ~Registered(a.id) /\ aborted' = "ric_req_id not registered"
    <3>1. a.id \notin act_proc /\ a \notin signalled
      BY <2>1, <2>3 DEF Registered, CreditInv, SignalledOnce
    <3>2. InCall => ui.proc.id \in act_proc
      BY <2>1 DEF ProcInv, Registry
    <3>3. a \in failed \/ signalled \cap failed # {}
      BY <2>1, <3>1, <3>2 DEF CreditInv, Earned
    <3>4. \E p \in answered' \ signalled' :
             p.id \notin act_proc' /\ (p \in failed' \/ signalled' \cap failed' # {})
      BY <2>1, <2>2, <3>1, <3>3
    <3> QED
      BY <2>3, <3>4 DEF AbortCauses
  <2> QED
    BY <1>1, <2>1, <2>2, <2>3
<1>7. CASE Disarm
  <2>1. Running /\ loop.at = "disarm" /\ ui' = ui
    BY <1>7 DEF Disarm, LoopAt
  <2>2. \/ aborted' = aborted
        \/ /\ \A e \in pending : e.ev # loop.proc.op
           /\ loop' = loop /\ aborted' = "pending event not found"
    BY <1>0, <1>7, DisarmEffect
  <2>3. CASE /\ \A e \in pending : e.ev # loop.proc.op
             /\ loop' = loop /\ aborted' = "pending event not found"
    <3>1. ui.at = "arm" /\ ui.proc.op = "del" /\ loop.proc = ui.proc
      BY <1>0, <2>1, <2>3, NoTimerToStop
    <3> QED
      BY <2>1, <2>3, <3>1 DEF AbortCauses
  <2> QED
    BY <1>1, <2>1, <2>2, <2>3
<1>8. CASE TimerFires
  <2>1. PICK e \in pending :
           \/ UNCHANGED aborted
           \/ /\ e.left = 0 /\ e.ev # "setup"
              /\ aborted' = "timeout of a pending event" /\ pending' = pending
    BY <1>8, Zenon DEF TimerFires, Abort
  <2>2. Running /\ UNCHANGED <<ui, loop, toRic, toXapp>>
    BY <1>8 DEF TimerFires, LoopAt, net
  <2>3. CASE /\ e.left = 0 /\ e.ev # "setup"
             /\ aborted' = "timeout of a pending event" /\ pending' = pending
    <3>1. e.ev \in {"sub", "del"}
      BY <1>0, <2>3 DEF TypeOK, Event
    <3>2. [op |-> e.ev, id |-> e.id] \in OfKind(Guarding, e.ev)
      BY <2>3 DEF Timers, Guarding, OfKind
    <3>3. OfKind(Waiting, e.ev) # {}
      BY <2>2, <3>1, <3>2, BalancedEmpty DEF Balance
    <3>4. Awaiting(e.ev) # {}
      BY <3>1, <3>3, GuardsAreGuarding
    <3>5. Awaiting(e.ev)' = Awaiting(e.ev)
      BY <2>2 DEF Awaiting
    <3>6. e \in pending' /\ Awaiting(e.ev)' # {}
      BY <2>3, <3>4, <3>5
    <3> QED
      BY <2>3, <3>6 DEF AbortCauses
  <2> QED
    BY <1>1, <2>1, <2>2, <2>3
<1>9. CASE StartXapp \/ HandleControlAnswer \/ SignalSyncUi \/ RicAnswers
           \/ RicAnswersSetup \/ Tick
  <2>1. aborted' = aborted /\ Running
    BY <1>9 DEF StartXapp, HandleControlAnswer, Receive, SignalSyncUi, RicAnswers,
           RicAnswersSetup, Tick, LoopAt
  <2> QED
    BY <1>1, <2>1
<1>10. CASE UNCHANGED vars
  BY <1>10 DEF vars, AbortCauses, Awaiting, app, sync, net
<1> QED
  BY <1>2, <1>3, <1>4, <1>5, <1>6, <1>7, <1>8, <1>9, <1>10, NextIsOneOf DEF Background

\* AbortCauses, for any number of calls and any timer lengths: an assertion of the
\* runtime fails only when the ids run out, when the answer to a delete overtakes
\* the arming of its timer, when an answer comes to a call that has timed out or
\* that took such a call's flag, or when a timer runs out while a request of its
\* kind has no answer.
THEOREM FailuresHaveCauses == Spec => []AbortCauses
<1> DEFINE Inv == /\ ProcInv /\ FreshInv /\ SetupInv /\ AnswerInv /\ Balance /\ CreditInv
                  /\ AbortCauses
<1>1. Init => Inv
  <2> SUFFICES ASSUME Init PROVE Inv
    OBVIOUS
  <2>1. SetupInv
    BY DEF Init, SetupInv, SetupTimers
  <2>2. AbortCauses
    BY DEF Init, AbortCauses
  <2> QED
    BY <2>1, <2>2, InitProcInv, InitFresh, InitAnswers, InitBalance, InitCredit
<1>2. Inv /\ [Next]_vars => Inv'
  <2> SUFFICES ASSUME Inv, [Next]_vars PROVE Inv'
    OBVIOUS
  <2>1. SetupInv'
    BY SetupStep DEF ProcInv
  <2> QED
    BY <2>1, ProcInvStep, FreshStep, AnswersStep, BalanceStep, CreditStep, AbortStep
<1>3. Inv => AbortCauses
  OBVIOUS
<1> QED
  BY <1>1, <1>2, <1>3, PTL DEF Spec
=============================================================================
