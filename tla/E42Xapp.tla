------------------------------ MODULE E42Xapp ------------------------------
(***************************************************************************)
(* The xApp runtime (E42): synchronous procedures over an asynchronous     *)
(* connection.                                                             *)
(*                                                                         *)
(* The UI thread runs the API calls: control_sm_sync_xapp,                 *)
(* report_sm_sync_xapp and rm_report_sm_sync_xapp register a procedure,    *)
(* reset the flag of sync_ui, send a request and wait for the flag up to a *)
(* deadline.  The event loop thread handles the answers and the timerfds   *)
(* of the pending events; a handler's accesses to shared state (act_proc,  *)
(* pending, sync_ui), each under its own mutex, are separate steps.        *)
(*                                                                         *)
(* A failed assert() ends the process (the build type is Debug): it sets   *)
(* aborted, and nothing happens afterwards.  The RIC is external: it       *)
(* answers requests in any order, late or never.                           *)
(*                                                                         *)
(* Not here: indications and their dispatcher, the database, the stop of   *)
(* the xApp.                                                               *)
(***************************************************************************)
EXTENDS Integers, FiniteSets

CONSTANTS
    ReqIdLimit,   \* 1 << 16: first ric_req_id the overflow assertion refuses
    UiWait,       \* deadline of cond_wait_sync_ui, in ticks (6 s)
    SubWait,      \* timer of a subscription request (5 s)
    DelWait,      \* timer of a subscription delete request (10 s)
    SetupWait,    \* timer of an E42 setup request (1 s)
    MaxCalls,     \* bound: procedures the UI thread starts
    MaxSetups,    \* bound: E42 setup messages in flight
    MaxLateSetups \* bound: those still in flight when the application begins to call

ASSUME XappConstants ==
    /\ ReqIdLimit \in Nat /\ MaxCalls \in Nat /\ MaxSetups \in Nat
    /\ MaxLateSetups \in Nat
    /\ SetupWait \in Nat \ {0} /\ SubWait \in Nat \ {0}
    /\ UiWait \in Nat \ {0} /\ DelWait \in Nat \ {0}
    /\ SubWait < UiWait /\ UiWait < DelWait

VARIABLES
    (* UI thread *)
    ui,          \* the call in progress and the step it is at
    ui_left,     \* ticks to the deadline of cond_wait_sync_ui
    subs,        \* handles of the subscriptions the application holds
    (* shared between the threads *)
    act_proc,    \* registered procedures
    key_id,      \* next ric_req_id of the registry
    flag_sync,   \* sync_ui: flag_sync, and msg_ack, which follows it
    pending,     \* pending events with the ticks left on their timer
    connected,
    (* event loop thread *)
    loop,        \* what the current handler still has to do, and for which answer
    (* network and RIC *)
    toRic,       \* requests on their way
    toXapp,      \* answers on their way
    setup_tx,    \* E42 setup requests on their way
    setup_rx,    \* E42 setup responses on their way
    (* process *)
    aborted,     \* the assertion that ended the process, or "no"
    (* history *)
    signalled,   \* procedures whose answer raised the flag
    answered,    \* procedures whose answer the event loop has received
    success,     \* controls that were reported successful
    failed       \* procedures whose call was reported as timed out

sync == <<flag_sync, signalled>>
net == <<toRic, toXapp>>
setup == <<connected, setup_tx, setup_rx>>
app == <<subs, success, failed>>
vars == <<ui, ui_left, app, act_proc, key_id, sync, pending, setup, loop, net,
          aborted, answered>>

Ops == {"control", "sub", "del"}
Proc == [op: Ops, id: Nat]
\* pending_event_xapp_t; the event of a setup request has the zero id.
Event == [ev: {"setup", "sub", "del"}, id: Nat, left: Nat]
SetupEvent == [ev |-> "setup", id |-> 0, left |-> SetupWait]

NoProc == [op |-> "control", id |-> 0]
Steps == {"connect", "idle", "prepare", "arm", "send", "enter", "wait", "expired"}

Assertions ==
    {"req_id overflow", "handle not registered", "ric_req_id not registered",
     "pending event not found", "timeout of a pending event"}

Running == aborted = "no"
Abort(what) == aborted' = what

-----------------------------------------------------------------------------
(* The UI thread.                                                           *)

\* Mutant: the flag is reset after the request is on its way.
ResetAfterSend(op, step) ==
    CASE step = "call"    -> IF op = "sub" THEN "arm" ELSE "send"
      [] step = "arm"     -> IF op = "sub" THEN "send" ELSE "prepare"
      [] step = "send"    -> IF op = "del" THEN "arm" ELSE "prepare"
      [] step = "prepare" -> "enter"

\* The order of a call's steps: a subscription's timer is armed before its
\* request is sent, a delete's after, and a control has none.
Following(op, step) ==
    CASE step = "call"    -> "prepare"
      [] step = "prepare" -> IF op = "sub" THEN "arm" ELSE "send"
      [] step = "arm"     -> IF op = "sub" THEN "send" ELSE "enter"
      [] step = "send"    -> IF op = "del" THEN "arm" ELSE "enter"

At(step) == Running /\ ui.at = step
GoTo(step) == ui' = [ui EXCEPT !.at = step]
Advance == GoTo(Following(ui.proc.op, ui.at))

Start(op, id) ==
    ui' = [proc |-> [op |-> op, id |-> id], at |-> Following(op, "call")]

\* init_xapp_api returns once the event loop has set connected.
InitDone ==
    /\ At("connect") /\ connected /\ setup_tx + setup_rx <= MaxLateSetups
    /\ GoTo("idle")
    /\ UNCHANGED <<ui_left, app, act_proc, key_id, sync, pending, setup, loop, net,
                   aborted, answered>>

\* Mutant: the smallest key that is not registered.
LowestFreeKey == CHOOSE k \in 1 .. key_id :
                    k \notin act_proc /\ \A m \in 1 .. k - 1 : m \in act_proc

\* Mutant: the key is read after it is incremented.
KeyAfterIncrement == key_id + 1

\* assoc_reg_push_back: the keys grow from 1 and are never given again.
NewKey == key_id

\* find_act_proc.
Registered(id) == id \in act_proc

AddActProc == act_proc' = act_proc \cup {NewKey} /\ key_id' = key_id + 1

\* control_sm_sync_xapp and report_sm_sync_xapp up to generate_ric_gen_id.
Call(op) ==
    /\ At("idle") /\ key_id <= MaxCalls
    /\ AddActProc
    /\ \/ NewKey < ReqIdLimit /\ Start(op, NewKey) /\ UNCHANGED aborted
       \/ NewKey >= ReqIdLimit /\ Abort("req_id overflow") /\ UNCHANGED ui
    /\ UNCHANGED <<ui_left, app, sync, pending, setup, loop, net, answered>>

\* rm_report_sm_sync_xapp: the application passes a handle it holds.
CallRmReport ==
    /\ At("idle")
    /\ \E h \in subs :
          \/ Registered(h) /\ Start("del", h) /\ UNCHANGED aborted
          \/ ~Registered(h) /\ Abort("handle not registered") /\ UNCHANGED ui
    /\ UNCHANGED <<ui_left, app, act_proc, key_id, sync, pending, setup, loop, net,
                   answered>>

\* Mutant: the flag of the last call is not reset.
PrepareWithoutReset ==
    /\ At("prepare")
    /\ Advance
    /\ UNCHANGED <<ui_left, app, act_proc, key_id, sync, pending, setup, loop, net,
                   aborted, answered>>

PrepareSyncUi ==
    /\ At("prepare")
    /\ Advance
    /\ flag_sync' = FALSE
    /\ UNCHANGED <<ui_left, app, act_proc, key_id, signalled, pending, setup, loop,
                   net, aborted, answered>>

SendRequest ==
    /\ At("send")
    /\ Advance
    /\ toRic' = toRic \cup {ui.proc}
    /\ UNCHANGED <<ui_left, app, act_proc, key_id, sync, pending, setup, loop,
                   toXapp, aborted, answered>>

WaitOf(op) == IF op = "sub" THEN SubWait ELSE DelWait

ArmTimer ==
    /\ At("arm")
    /\ Advance
    /\ pending' = pending \cup
          {[ev |-> ui.proc.op, id |-> ui.proc.id, left |-> WaitOf(ui.proc.op)]}
    /\ UNCHANGED <<ui_left, app, act_proc, key_id, sync, setup, loop, net, aborted,
                   answered>>

\* cond_wait_sync_ui computes its deadline; the wait itself begins.
EnterWait ==
    /\ At("enter")
    /\ GoTo("wait")
    /\ ui_left' = UiWait
    /\ UNCHANGED <<app, act_proc, key_id, sync, pending, setup, loop, net, aborted,
                   answered>>

\* Mutant: the loop does not test rc and waits again.
DeadlineIgnored ==
    /\ At("wait") /\ ~flag_sync /\ ui_left = 0
    /\ UNCHANGED vars

\* pthread_cond_timedwait returns ETIMEDOUT.  The thread still has to get the
\* mutex back: a flag raised from now on no longer counts.
DeadlinePasses ==
    /\ At("wait") /\ ~flag_sync /\ ui_left = 0
    /\ GoTo("expired")
    /\ UNCHANGED <<ui_left, app, act_proc, key_id, sync, pending, setup, loop, net,
                   aborted, answered>>

\* Mutant: a timed-out procedure stays registered.
ReleaseOnSuccessOnly(ok) ==
    act_proc' = IF ui.proc.op = "sub" \/ ~ok THEN act_proc ELSE act_proc \ {ui.proc.id}

\* rm_act_proc at the end of a call: only a successful subscription stays.
Release(ok) ==
    act_proc' = IF ui.proc.op = "sub" /\ ok THEN act_proc ELSE act_proc \ {ui.proc.id}

Return(ok) ==
    /\ Release(ok)
    /\ ui' = [proc |-> NoProc, at |-> "idle"]
    /\ ui_left' = 0
    /\ subs' = CASE ui.proc.op = "sub" /\ ok -> subs \cup {ui.proc.id}
                 [] ui.proc.op = "del"       -> subs \ {ui.proc.id}
                 [] OTHER                    -> subs
    /\ success' = IF ui.proc.op = "control" /\ ok
                  THEN success \cup {ui.proc.id} ELSE success
    /\ failed' = IF ok THEN failed ELSE failed \cup {ui.proc}
    /\ UNCHANGED <<key_id, sync, pending, setup, loop, net, aborted, answered>>

WakeUp == At("wait") /\ flag_sync /\ Return(TRUE)
TimeOut == At("expired") /\ Return(FALSE)

UI ==
    \/ InitDone \/ PrepareSyncUi \/ SendRequest \/ ArmTimer
    \/ EnterWait \/ DeadlinePasses \/ WakeUp \/ TimeOut
-----------------------------------------------------------------------------
(* The event loop thread.                                                   *)

LoopAt(step) == Running /\ loop.at = step

\* start_e42_xapp.
StartXapp ==
    /\ LoopAt("start")
    /\ setup_tx' = setup_tx + 1
    /\ pending' = pending \cup {SetupEvent}
    /\ loop' = [loop EXCEPT !.at = "poll"]
    /\ UNCHANGED <<ui, ui_left, app, act_proc, key_id, sync, connected, setup_rx, net,
                   aborted, answered>>

\* Mutant: without E2 nodes the request is sent again but its timer is not armed.
RetrySetupUnarmed(rest) == setup_tx' = setup_tx + 1 /\ pending' = rest

\* The RIC has no E2 node yet: send_setup_request again.
RetrySetup(rest) == setup_tx' = setup_tx + 1 /\ pending' = rest \cup {SetupEvent}

\* e2ap_handle_e42_setup_response_xapp: only the first answer with an E2 node
\* connects; the timer of the request must be pending.
HandleSetupResponse ==
    /\ LoopAt("poll") /\ setup_rx > 0
    /\ setup_rx' = setup_rx - 1
    /\ LET timers == {e \in pending : e.ev = "setup"} IN
       \/ connected /\ UNCHANGED <<connected, setup_tx, pending, aborted>>
       \/ /\ ~connected /\ timers = {}
          /\ Abort("pending event not found")
          /\ UNCHANGED <<connected, setup_tx, pending>>
       \/ /\ ~connected /\ timers # {}       \* no E2 node registered
          /\ RetrySetup(pending \ timers)
          /\ UNCHANGED <<connected, aborted>>
       \/ /\ ~connected /\ timers # {}
          /\ connected' = TRUE /\ pending' = pending \ timers
          /\ UNCHANGED <<setup_tx, aborted>>
    /\ UNCHANGED <<ui, ui_left, app, act_proc, key_id, sync, loop, net, answered>>

\* The event loop reads an answer from the connection.
Receive(a) ==
    /\ LoopAt("poll")
    /\ toXapp' = toXapp \ {a}
    /\ answered' = answered \cup {a}

\* CONTROL ACKNOWLEDGE and CONTROL FAILURE, up to find_act_proc: both handlers
\* drop an unknown procedure and go on to signal a known one.
HandleControlAnswer ==
    /\ \E a \in toXapp :
          /\ a.op = "control" /\ Receive(a)
          /\ loop' = IF Registered(a.id) THEN [at |-> "signal", proc |-> a] ELSE loop
    /\ UNCHANGED <<ui, ui_left, app, act_proc, key_id, sync, pending, setup, toRic,
                   aborted>>

\* SUBSCRIPTION RESPONSE and SUBSCRIPTION DELETE RESPONSE, up to find_act_proc:
\* both handlers assert that the procedure is known.
HandleSubscriptionAnswer ==
    /\ \E a \in toXapp :
          /\ a.op # "control" /\ Receive(a)
          /\ \/ /\ Registered(a.id)
                /\ loop' = [at |-> "disarm", proc |-> a]
                /\ UNCHANGED aborted
             \/ /\ ~Registered(a.id)
                /\ Abort("ric_req_id not registered")
                /\ UNCHANGED loop
    /\ UNCHANGED <<ui, ui_left, app, act_proc, key_id, sync, pending, setup, toRic>>

\* Mutant: an event whose timer has expired, but was not handled yet, is not found.
RunningTimersOf(p) == {e \in pending : e.ev = p.op /\ e.left > 0}

\* cmp_pending_event compares the kind of two events and nothing else: to the
\* tree, all pending events of a kind are equal.
TimersOf(p) == {e \in pending : e.ev = p.op}

\* Mutant: the handler does not stop the timer.
RmPendingEventForgotten(p) == UNCHANGED pending

\* bi_map_extract_right takes one event of the kind, whichever the tree finds
\* first, and stops that event's timer: it may be another procedure's.
RmPendingEvent(p) == \E e \in TimersOf(p) : pending' = pending \ {e}

Disarm ==
    /\ LoopAt("disarm")
    /\ \/ /\ TimersOf(loop.proc) # {}
          /\ RmPendingEvent(loop.proc)
          /\ loop' = [loop EXCEPT !.at = "signal"]
          /\ UNCHANGED aborted
       \/ /\ TimersOf(loop.proc) = {}
          /\ Abort("pending event not found")
          /\ UNCHANGED <<pending, loop>>
    /\ UNCHANGED <<ui, ui_left, app, act_proc, key_id, sync, setup, net, answered>>

SignalSyncUi ==
    /\ LoopAt("signal")
    /\ flag_sync' = TRUE
    /\ signalled' = signalled \cup {loop.proc}
    /\ loop' = [at |-> "poll", proc |-> NoProc]
    /\ UNCHANGED <<ui, ui_left, app, act_proc, key_id, pending, setup, net, aborted,
                   answered>>

\* A timerfd fires: the setup request is sent again, every other timeout is
\* an assertion.  The timers are periodic.
TimerFires ==
    /\ LoopAt("poll")
    /\ \E e \in pending :
          /\ e.left = 0
          /\ \/ /\ e.ev = "setup" /\ setup_tx + setup_rx < MaxSetups
                /\ setup_tx' = setup_tx + 1
                /\ pending' = (pending \ {e}) \cup {SetupEvent}
                /\ UNCHANGED aborted
             \/ /\ e.ev # "setup"
                /\ Abort("timeout of a pending event")
                /\ UNCHANGED <<setup_tx, pending>>
    /\ UNCHANGED <<ui, ui_left, app, act_proc, key_id, sync, connected, setup_rx,
                   loop, net, answered>>

EventLoop ==
    \/ StartXapp \/ HandleSetupResponse
    \/ HandleControlAnswer \/ HandleSubscriptionAnswer \/ Disarm \/ SignalSyncUi
-----------------------------------------------------------------------------
(* The RIC and time.                                                        *)

RicAnswers ==
    /\ Running
    /\ \E q \in toRic : toRic' = toRic \ {q} /\ toXapp' = toXapp \cup {q}
    /\ UNCHANGED <<ui, ui_left, app, act_proc, key_id, sync, pending, setup, loop,
                   aborted, answered>>

RicAnswersSetup ==
    /\ Running
    /\ setup_tx > 0
    /\ setup_tx' = setup_tx - 1 /\ setup_rx' = setup_rx + 1
    /\ UNCHANGED <<ui, ui_left, app, act_proc, key_id, sync, pending, connected, loop,
                   net, aborted, answered>>

Less(n) == IF n = 0 THEN 0 ELSE n - 1

\* Time passes for every running timer at once.  A thread may be late: an
\* expired timer does not stop time.
Tick ==
    /\ Running
    /\ ui_left > 0 \/ \E e \in pending : e.left > 0
    /\ ui_left' = Less(ui_left)
    /\ pending' = {[e EXCEPT !.left = Less(@)] : e \in pending}
    /\ UNCHANGED <<ui, app, act_proc, key_id, sync, setup, loop, net, aborted, answered>>
-----------------------------------------------------------------------------
Init ==
    /\ ui = [proc |-> NoProc, at |-> "connect"]
    /\ ui_left = 0 /\ subs = {}
    /\ act_proc = {} /\ key_id = 1 /\ flag_sync = FALSE
    /\ pending = {} /\ connected = FALSE
    /\ loop = [at |-> "start", proc |-> NoProc]
    /\ toRic = {} /\ toXapp = {} /\ setup_tx = 0 /\ setup_rx = 0
    /\ aborted = "no"
    /\ signalled = {} /\ answered = {} /\ success = {} /\ failed = {}

Next ==
    \/ Call("control") \/ Call("sub") \/ CallRmReport
    \/ UI
    \/ EventLoop \/ TimerFires
    \/ RicAnswers \/ RicAnswersSetup
    \/ Tick

Spec == Init /\ [][Next]_vars

\* The UI thread runs and time passes; nothing is assumed of the event loop or the RIC.
FairSpec == Spec /\ WF_vars(UI) /\ WF_vars(Tick)
-----------------------------------------------------------------------------
(* Properties.                                                              *)

InCall == ui.at \notin {"connect", "idle"}

\* Every variable stays in its domain; in particular the registry only holds
\* ids below the next key of assoc_reg.
TypeOK ==
    /\ ui \in [proc: Proc, at: Steps] /\ ui_left \in Nat
    /\ subs \in SUBSET Nat /\ success \in SUBSET Nat
    /\ act_proc \in SUBSET (1 .. key_id - 1) /\ key_id \in Nat \ {0}
    /\ flag_sync \in BOOLEAN /\ connected \in BOOLEAN
    /\ pending \in SUBSET Event
    /\ loop \in [at: {"start", "poll", "disarm", "signal"}, proc: Proc]
    /\ toRic \in SUBSET Proc /\ toXapp \in SUBSET Proc
    /\ setup_tx \in Nat /\ setup_rx \in Nat
    /\ aborted \in Assertions \cup {"no"}
    /\ signalled \in SUBSET Proc /\ answered \in SUBSET Proc /\ failed \in SUBSET Proc

\* No wakeup is lost: once the answer to the call in progress has raised the
\* flag, the flag is up when the UI thread looks at it, however early the
\* answer came (prepare_sync_ui before every send).
NoLostWakeup == InCall /\ ui.proc \in signalled => flag_sync

\* A finished call leaves nothing behind: between two calls the registry holds
\* exactly the subscriptions the application holds, timeouts included.
NoLeakedProcedure == Running /\ ~InCall => act_proc = subs

\* The requests of a kind that wait for an answer; a subscription counts from the
\* arming of its timer, and an answer in hand until its handler stops a timer.
Awaiting(op) ==
    {p \in toRic \cup toXapp \cup {q \in {loop.proc} : loop.at = "disarm"}
          \cup {q \in {ui.proc} : ui.at = "send" /\ q.op = "sub"} : p.op = op}

\* The procedures of a kind with a timer, and the delete about to arm its own.
Guards(op) ==
    {[op |-> e.ev, id |-> e.id] : e \in {f \in pending : f.ev = op}}
        \cup {p \in {ui.proc} : ui.at = "arm" /\ p.op = op /\ op = "del"}

\* Although an answer stops any timer of its kind, the balance is kept: there are
\* as many timers of a kind as requests of the kind without an answer, so once
\* all are answered no timer is left to end the process.
TimersCountRequests ==
    Running => \A op \in {"sub", "del"} :
                  Cardinality(Guards(op)) = Cardinality(Awaiting(op))

\* Until the xApp is connected its setup request is guarded by a timer (the
\* one the setup response handler extracts), and by none afterwards.
SetupGuarded ==
    Running /\ loop.at # "start" => (connected <=> {e \in pending : e.ev = "setup"} = {})

\* Each assertion of the runtime fails only for the reason stated: the request
\* ids run out; the answer to a delete overtakes the arming of its timer, with no
\* other delete's timer to take; a late answer belongs to a call that timed out,
\* or to one that took such a call's flag for its own; or a timer runs out while
\* some request of its kind, not always the timer's own, has no answer.  A handle
\* the application holds is always registered.
AbortCauses ==
    /\ aborted # "handle not registered"
    /\ aborted = "req_id overflow" => key_id > ReqIdLimit
    /\ aborted = "pending event not found" =>
          /\ loop.at = "disarm" /\ loop.proc = ui.proc
          /\ ui.at = "arm" /\ ui.proc.op = "del"
    /\ aborted = "ric_req_id not registered" =>
          \E p \in answered \ signalled :
              /\ p.id \notin act_proc
              /\ p \in failed \/ signalled \cap failed # {}
    /\ aborted = "timeout of a pending event" =>
          \E e \in pending : /\ e.ev # "setup" /\ e.left = 0
                            /\ Awaiting(e.ev) # {}

\* A ric_req_id is never given to a second procedure while a message of an
\* earlier one is still under way, so an answer cannot meet the wrong call.
FreshReqId ==
    [][\A r \in act_proc' \ act_proc :
          \A m \in toRic \cup toXapp \cup signalled \cup {loop.proc} : m.id # r]_vars

\* Every API call returns, whatever the RIC does, unless an assertion ends
\* the process.
CallReturns == InCall ~> (~InCall \/ ~Running)

\* As long as no answer has been credited after its call was reported as timed
\* out, success is earned: the RIC has answered every control reported successful
\* and every subscription the application holds, although all calls wait for the
\* same flag.
SuccessIsEarned ==
    signalled \cap failed = {} =>
        /\ \A r \in success : [op |-> "control", id |-> r] \in answered
        /\ \A h \in subs : [op |-> "sub", id |-> h] \in answered

\* "Late CONTROL ACK/FAILURE are ignored": a control is reported successful
\* only if its own answer arrived.
LateAckIgnored == \A r \in success : [op |-> "control", id |-> r] \in answered

\* "timeouts release the procedure and report failure": no timeout, and no
\* answer after one, ends the process.
TimeoutsReported ==
    aborted \notin {"timeout of a pending event", "ric_req_id not registered"}

\* "Trying to extract a key not found in the tree": a handler only stops a
\* timer that is armed.
ExtractFindsTimer == aborted # "pending event not found"
=============================================================================
