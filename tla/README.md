# TLA+ verification of the LLM-hRIC slice control loop

LLM-hRIC is an OpenAirInterface 5G gNB with an O-RAN control loop on top: an
actuator xApp sends *slice-level PRB quotas* (E2SM-RC, Style 2 / Action 6)
through the FlexRIC near-RT RIC to the E2 agent of the gNB, which installs them
as the policy table of the downlink MAC scheduler.  This directory models that
loop from the source, checks it with TLC on small instances and proves its main
safety properties with TLAPS for every value of the constants.

Paths below are relative to the repository; `MAC` is
`openair2/LAYER2/NR_MAC_gNB`, `RC` is `openair2/E2AP/RAN_FUNCTION/O-RAN`,
`flexric` is `openair2/E2AP/flexric/src`, and `GITHUB_README` is
`doc/llm_hric_slicing_demo_paper/GITHUB_README.md`.

## 1. Inventory

| Component | State | Operations | Talks to |
|---|---|---|---|
| Slice control and downlink scheduler (`MAC/gNB_scheduler_dlsch*.c`, `RC/rc_ctrl_service_style_2.c`) | policy table, count, enabled flag, PRB counters; per slot: candidates, VRB maps, budgets, counts | install a list of policies; schedule a slot: retransmissions, no-data UEs, one pass per policy, the rest | called by the E2 agent thread (control) and the MAC thread (slot), both under `sched_lock` |
| xApp runtime (`flexric/xApp`) | procedure registry, pending events and their timerfds, the `sync_ui` flag, `connected` | `control_sm_sync_xapp`, `report_sm_sync_xapp`, `rm_report_sm_sync_xapp`, setup; event loop: answers and timers | UI thread and event loop thread share registry, events and flag; SCTP to the iApp |
| iApp (`flexric/ric/iApp`) | `map_ric_id` (xApp request to E2 request), addresses of the xApps, next xApp id | setup, forward subscription, delete and control, route answers back | xApps by SCTP; the RIC core by calls and a callback |
| near-RT RIC core (`flexric/ric`) | connected E2 nodes, pending events, next request id, addresses of the nodes | E2 setup, requests, answers, disconnection; messages are handled by a pool of threads | E2 agents by SCTP |
| E2 agent (`flexric/agent`) | periodic indication events, pending events, queue and pipe of aperiodic indications | subscription, delete, control, indications, setup | RAN functions by calls; their threads push indications |
| RC RAN function (`RC/ran_func_rc*.c`) | three lists of aperiodic subscriptions, one per report parameter, each access under one of two mutexes | subscribe, free, RRC messages and state changes, control | E2 agent, RRC and F1 threads |
| RC slice actuator (`flexric/../examples/xApp/c/rc_slice_ctrl`) | one listening socket, the policies of the current request | load policies, send controls, serve one client at a time | xApp runtime, LLM-hRIC services |
| FlexRIC containers (`flexric/util/alg_ds`) | trees, bimap, registry | insert, extract, find | everything in FlexRIC |
| LLM-hRIC services | only compiled Python is in the repository | | actuator |
| KPM and custom RAN functions, E2AP/E2SM encoders, base 5G stack | | | |

What is hard here:

* **concurrency**: the UI thread and the event loop of an xApp share one
  wakeup flag, used by all procedures; the RIC handles messages in parallel;
  RAN function threads push indications while the agent's loop drains them;
* **timeouts**: a synchronous call has a deadline (6 s) *and*, for
  subscriptions, a timer (5 s; 10 s for a delete) whose expiry is an assertion;
  answers may be late for either;
* **ordering**: an answer may be handled before the sender has finished its
  bookkeeping;
* **partial failure**: a policy list is installed entry by entry into a table
  already zeroed; an allocation may fail after its size was decided;
* **limits**: DCI limit per slot, slice budgets, 16-bit request ids.

What makes each component correct: the *scheduler* never gives a resource block
to two UEs, never exceeds a slice's budget, serves no policed slice in the rest
pass, always reads a whole table and always finishes a slot; the *xApp runtime*
never loses a wakeup, leaks a procedure, has a timer too many or takes an
answer for another call's, and returns from every call; the *iApp and RIC* route
each answer to the xApp that asked, once, whatever disconnects; the *agent*
sends each indication once, and only for live subscriptions; the *actuator*
reports as applied exactly what the gNB acknowledged.

`PROJECT.json` lists the hazards behind these properties at their lines.

## 2. Plan

1. `SlicePrbScheduler`: the scheduler and its control interface. **Done.**
2. `E42Xapp`: the xApp runtime. **Done** (without indications and stop).
3. `RicRouting`: iApp and RIC core together, because the workers of the core call
   the iApp's handlers and both share the maps; several xApps, E2 nodes that shut
   down, a pool of threads. The abstract specification is `RequestService`. **Done.**
4. `E2Agent` with the lists of aperiodic RC subscriptions. **Done.**
5. Abstract specifications of what the scheduler and the agent promise: `SliceGrants`
   and `IndicationQueue`. **Done.**
6. Proofs of every safety property of a passing run, the three refinements included.
   **Done** (section 5).

The modules meet at messages: the RIC that `E42Xapp` talks to and the E2 nodes of
`RicRouting` are external there and detailed in `RicRouting` and `E2Agent`. Their
product is not checked: each module meets a simple peer, a RIC that answers in any
order, late or never, or a node that handles its messages in order and answers
each. A composition with the actuator was considered and left
out: the actuator is sequential, and what it reports is the outcome of the calls of
`E42Xapp`, including the false success that `xapp_lateack` shows.

Runs: one passing run per component module (two for the routing, with and without faults),
plus a run for each place where code and documentation disagree.

## 3. Modules

### SlicePrbScheduler and SliceGrants

One variable per field of `gNB_MAC_INST` that the slice control touches, and one
per local of the scheduler that outlives a step: the loop indices `i` (table
entry) and `j` (position in the PF order), `used_budget`, `n_scheduled`, the
candidates and the VRB map (a set of RB/symbol pairs per beam). `grant`,
`granted` and `delivered` are history: who holds which RBs through which pass,
and what each entry's pass gave out.

| Action | Code |
|---|---|
| `WriteCtrlRcSm` | the slice branch of `write_ctrl_rc_sm`: `AgentAccepts` / `ParseSlicePolicyGroup` decode, `SetDlSlicePolicies` is `nr_mac_set_dl_slice_policies` with its zero-first, fill-until-rejected order. Atomic between slots, because it and a whole slot hold `sched_lock` |
| `StartSlot`, `StartGroup`, `EndSlot` | `nr_dl_schedule`: candidates, beam groups in ascending order, the end of the slot |
| `VisitRetx`, `VisitNoData`, `EndRetx`, `EndNoData` | one iteration of, and the exit from, the two loops of `alloc_retx_and_no_data_pf` |
| `NextPolicy` | one iteration of the loop over the table in `nr_dl_slice_prb_policy` |
| `VisitSlice`, `EndSlice`, `VisitRest`, `EndRest` | one iteration of, and the exit from, `alloc_newtx_pf`, with and without a policy |

`COMMIT_ALLOC` is translated as the macro expands: its `return` leaves only the
pass and comes before the charge of the budget; its `continue` leaves only the
macro, so the charge after a refusal is made.

Abstractions: the proportional-fair weight (any order with retransmissions
first); CCE and PUCCH allocation (may fail at any visit); MCS, TBS, rank and TDA
(a new transmission takes any size between the minimum and the limit; the symbols
of a UE are a parameter); `max_num_ue` is at least 1, as on any carrier of 24 RBs
or more; the PDCCH's own marks lie in symbols no PDSCH uses. The dispatch after
the allocation may only shrink a grant and is not modelled. When slice policies
are disabled the allocator delegates to proportional fair, which is the same
passes with an empty table.

`NssaiQuota` compares two sets of pairs by their size: (UE, RB) for the new-data RBs
held by the UEs of an S-NSSAI, and (entry, number) for the budgets of its entries.
These are the two sums, said without summing.

`SliceGrants` is the promise, without a table, passes, maps or budgets: in a slot
grants are added one by one, each for a UE that has none, inside its bandwidth part,
disjoint from the others of its beam, and within the quota of its S-NSSAI; all are
dropped when the slot closes, and a quota changes only while no slot is open. The
refinement mapping makes `open` the time between `StartSlot` and `EndSlot`, `quota`
the sum of the budgets of the entries for an S-NSSAI (or none), and `held` the set of
the grants of the scheduled UEs, whatever pass made them. The visits that schedule
nobody, the changes of pass and the changes of beam group are stutters; a visit that
reschedules a UE, a rest pass that serves a policed slice, or a control that installs
a table in the middle of a slot is not a step of `SliceGrants`.

### E42Xapp

The UI thread's position in its call is `ui`, the event loop's in its handler
`loop`. The registry (`act_proc`, `key_id`), the flag of `sync_ui` and the
pending events are shared, each under a mutex of its own, so each access is a
step. `ui_left` and the `left` of a pending event count ticks. A failed
`assert` sets `aborted` and stops everything: the build type is Debug
(GITHUB_README:368). `signalled` (answers that raised the flag), `answered`
(requests whose answer was received), `success` and `failed` (calls reported
successful, and calls that returned a failure) are history.

| Action | Code |
|---|---|
| `Call`, `CallRmReport` | the API calls up to the registered procedure, with the overflow assertion |
| `PrepareSyncUi`, `SendRequest`, `ArmTimer` | the steps of the call, in the order `Following` gives for each kind: a subscription's timer is armed before the send, a delete's after it, a control has none |
| `EnterWait`, `DeadlinePasses`, `WakeUp`, `TimeOut` | `cond_wait_sync_ui` and what the call does with its result |
| `StartXapp`, `InitDone`, `HandleSetupResponse` | setup, its retry when the RIC has no E2 node, and the poll of `connected` |
| `HandleControlAnswer`, `HandleSubscriptionAnswer`, `Disarm`, `SignalSyncUi` | the answer handlers: look up, stop the timer, raise the flag |
| `TimerFires` | an expired timerfd: resend the setup request, or the assertion |
| `RicAnswers`, `RicAnswersSetup`, `Tick` | external: a RIC that answers in any order, late or never, and time |

`TimersOf` translates `cmp_pending_event`, which compares the kind of two pending
events and nothing else: the answer to a delete stops *a* delete's timer, and which one
depends on the tree (`RmPendingEvent` leaves it open). When one delete is never
answered and its call has timed out, the answer to the next delete may stop the first
one's timer and leave its own, which later ends the process by the assertion of
`TimerFires` although that delete was answered. What does hold is a balance,
`TimersCountRequests`: of each kind there are as many timers as requests whose answer
has not been taken in. `AbortCauses` states the cause of that assertion in these
terms: some request of the kind is without an answer.

CONTROL ACKNOWLEDGE and CONTROL FAILURE have handlers with the same effect and
share an action. Not modelled: indications and their dispatcher, the database,
stopping the xApp, and the failure messages whose handlers are unimplemented.

### RicRouting and RequestService

`RicRouting` is the RIC between its xApps and its E2 nodes. The iApp loop is one
thread (`iapp`, `job`, `todo`), the RIC loop another (`timer`, `leaving`), and each
message of a node is a record in `tasks` with the step `at` which its worker takes
next: the pool runs them in any order and in parallel. `routes` is `map_ric_id`,
`xapps` is `map_xapps_sockaddr`, `pending` the pending events, and `addr`, `conn`,
`reg` the three containers that know of a node.

| Action | Code |
|---|---|
| `Setup` | `e2ap_handle_e42_setup_request_iapp` with `e2ap_reg_sock_addr_iapp`, a new id for every request, and the xApp's use of the answer |
| `RequestArrives`, `Forward`, `AddRoute` | the subscription and control handlers: the registered node; `fwd_ric_*_request` (id, pending event, send); `add_map_ric_id`. The iApp holds `map_ric_id.rw` from before the send until the route is added: `RouteLockFree` keeps the workers out between `Forward` and `AddRoute` |
| `DeleteArrives`, `XappDisconnected`, `ForwardDelete` | the delete handler; `rm_if_pending_subs` after a failed send; `fwd_ric_subscription_request_delete`, which skips a delete that is pending |
| `StopPending`, `RouteAnswer`, `RemoveRoute` | the handlers of answers and indications: `stop_pending_event`, `find_xapp_map_ric_id` and the message to the xApp, `rm_map_ric_id` |
| `RegisterNode`, `NodeShutdown` | E2 setup and `notification_handle_ric`, each container a step |
| `TimerExpires`, `HandleTimer` | a timer of 3 s, and `pend_event`, with a worker possibly in between |
| `NodeJoins`, `NodeHandles`, `NodeReports`, `NodeLeaves`, `XappLeaves` | the peers |

`FirstRoutesOf` translates `eq_xapp_ric_gen_id`, which compares an xApp id with
itself: a delete finds the first route with the xApp's own number, whoever owns it.
Every xApp numbers its requests from 1 (per RAN function), so two xApps do use the
same numbers, and `routing_sameids` shows an abort that follows. Nothing below
assumes that the numbers differ. `Mistaken(r)` says that another xApp has deleted a
subscription with the number of `r`, so that the delete may have been taken for one of
`r`; it is one of the causes in `AbortCauses` and `RequestService`. `routing_live` has
two xApps with the same numbers.

The `req` of messages and tasks and the variables `asked`, `effect`, `closing`,
`ended`, `heard` are history; no guard of the RIC reads them. An identifier is
given once (`Forward` stops before the counter returns to its start): a route that
is older than 65 536 requests is outside the model. An assertion that fails sets
`aborted` and stops everything.

`RequestService` is the promise, without identifiers, maps or threads: a request is
carried out at most once, its own xApp hears of it and only of what has happened, and
a subscription ends only if its xApp gave it up or left, its node went away, or another
xApp gave up one of the same number, which is all that this code can promise. The
refinement mapping is the identity on the five history variables (`closing` holds the
subscriptions that their xApps deleted), and `left` is the set of the xApps that have
gone.

### E2Agent and IndicationQueue

The agent's event loop (`agent`, with the message it handles), a RAN thread (`ran`,
with its index in the list it walks), and what they share: `ind_event`, the lists
`rc_subs`,
the queue `aind`, the number of bytes in the `pipe`, and whether epoll has something
to report (`edge`, `ready`; both descriptors are edge-triggered).

| Action | Code |
|---|---|
| `ReadMessage` | `next_async_event_agent`: one message per report of the socket |
| `ListParameter`, `EndOfReport`, `WrongStyle` | `write_subs_rc_sm`: an entry for each parameter of the report, in the list of that parameter, each insertion under the lock and so a step; none for a parameter that is not implemented; and the early return for an event trigger of the wrong style, whose answer fails the assertion in `rc_sm_agent.c:95` |
| `RegisterEvent`, `Answer` | then the indication event, then the answer |
| `FindEvent`, `UnlistSubscription`, `BeginExtract`, `EndExtract` | `stop_ind_event`: search and extraction are not under the lock that a RAN thread takes, so its search meanwhile has either outcome; `bi_map_extract_right` with the descriptor 0 that all aperiodic events share |
| `StopSetup`, `AddSetup`, `SetupTimeout` | setup response, loss of the RIC, the 3 s timer |
| `TakeBatch`, `SendIndication`, `ConsumePipe` | `aind_event` takes the whole queue; then a send and a read of four bytes for each |
| `Signal`, `ReadEntry`, `SearchEvent`, `PushEvent`, `WritePipe` | `signal_ue_id` and its like: the length is read once, the list walked under another mutex, `e2_async_event_agent` searches up to ten times, pushes, and writes the id's decimal digits |
| `RicAnswersSetup`, `RicRequests`, `RicDeletes`, `RicIsLost` | external: the RIC, which starts again with the same ids |

A report definition is a sequence of lists, one for each parameter that is implemented
(`Reports`): empty, with several lists, or with one twice. `Unlisted` erases the first
entry of an id in each list, as `remove_rc_subs_data` does, so a parameter that a
report repeats leaves an entry behind; `repeated` remembers these subscriptions.
`ReadEntry` lets any number of the trigger's conditions match (`Conditions`), an
indication for each.

Abstractions: a periodic report changes no state of the agent; the contents of
messages; a parameter that is not implemented takes no step.

`IndicationQueue` is the promise to the RAN functions: what is handed over is sent once
and in that order. The mapping makes `waiting` the batch (without the indication that is
already sent while its bytes are still being read) followed by the queue. `PushEvent` is
a handover, `SendIndication` a send; taking the batch and reading the pipe are stutters.

## 4. Runs

| Run | States | Shows |
|---|---|---|
| `scheduler` | 211 476 | all properties of the scheduler, and the refinement of `SliceGrants`, on three UEs, two beams, eight lists |
| `xapp` | 423 303 | all properties of the runtime up to the overflow of the request ids: wakeups, registrations, the balance of timers and requests, ids, the causes of failed assertions, earned success, returning calls |
| `routing_faults` | 797 881 | two xApps and a node, with slow controls, an indication, xApps that leave, a node that shuts down, and the wrap of the request id to 0: assertions, causes of failures, leaks, and the refinement of `RequestService` |
| `routing_live` | 110 503 | two xApps with the same numbers, no node faults: a control is answered, the cleaning after an xApp ends its subscriptions; assertions, causes, leaks and refinement for two requests without the identifier 0 |
| `agent` | 352 979 | two aperiodic subscriptions, listed in none, one or two of the lists or twice in one, made and deleted around a RAN thread's walk, a repeated setup request, a lost RIC; the refinement of `IndicationQueue` |
| `scheduler_maxue` | violation | after a pass has reached `max_num_ue` each later pass still adds a UE; `nr_mac_gNB.h:874` and GITHUB_README:1158 call it a maximum |
| `scheduler_refused` | violation | a refused UE is charged to its slice; `mac_proto.h:464` says the macro "continues on failure" |
| `scheduler_counter` | violation | the PRBs of the UE that reaches the limit are not in the cumulative counter of GITHUB_README:512 |
| `xapp_lateack` | violation | a late acknowledgement makes the next control succeed; GITHUB_README:157 says late ones are ignored |
| `xapp_timeouts` | violation | an unanswered subscription aborts the xApp; GITHUB_README:156 says timeouts report failure |
| `xapp_extract` | violation | the answer to a delete may find no pending event, against the assertion of the tree |
| `routing_sameids` | violation | two xApps that number their requests alike: the delete of one finds the control of the other, against the assertion at `msg_handler_iapp.c:358`. It takes 15 steps: the other xApp has the smaller id and its control is still without an answer |

The weaker statements that do hold have names of their own:
`MaxUeOvershoot` bounds the excess by one UE per later pass, and `SliceBudget`
holds although the charge is skipped for the last UE, because the pass ends there;
the runtime's `SuccessIsEarned` says that the false success of `xapp_lateack` has no
other source than an answer credited after its call was reported as failed, and its
`AbortCauses` that the aborts of `xapp_timeouts` and `xapp_extract` need the late
answer, the expired timer or the overtaken arming that those runs show.

**Bounds.** Scheduler: three UEs, two of them in one slice, so that UEs compete
within and between slices; bandwidth parts of different position and size and
three symbol sets, disjoint and overlapping, so that sharing an RB in different
symbols is legal; five RBs with a minimum block of two, so that blocks fragment
and budgets (2, 3, 5 or none per beam, times two beams) run out in the middle
of a pass; `max_num_ue` 1 and 2, reached in every pass; lists with a split, two entries
for one slice, a ratio of 0, the empty list, and lists that must be refused,
among them one that is in range only modulo 256 and one too long. One slot is
enough: nothing of a slot but the counters survives it, and controls may come
before and after. The violation runs use one beam.
xApp: at most four calls, the last of which meets the id limit, so that a late answer can meet a later call of each kind;
ticks keep the order of the code's times (subscription 5 s < call 6 s < delete
10 s; setup 1 s); two setup messages in flight, none of them left when the application
begins to call (`MaxLateSetups` 0: the handler ignores a setup response once the xApp is
connected, which the run sees before the first call). The bounds `MaxCalls`,
`MaxSetups`, `MaxLateSetups` and `MaxSlots` are guards of the model, not of the code.
Routing: two xApps with a request each, either a subscription or a control, are
the least for which answers can be confused, a delete can meet another xApp's route
and an xApp can leave while the other goes on; `IdSpace` 4 puts the wrap (with
`FirstReqId` 3, the second request gets 0) or its absence (2) within reach;
`MaxSetups` 2 lets one xApp repeat its setup and hold two ids; `MaxCopies` 2, in
`routing_live`, lets the answers to two deletes of one subscription be under way, the
case behind the second removal of a route; `MaxNotices`, `MaxReports` and `MaxDepartures` 1 suffice for each event to
meet every step of the others. In `routing_live` a delete that is taken for the other
xApp's subscription reaches the assertions about a missing route and a second removal
with nobody gone; a delete that finds no route at all (`map_ric_id.c:227`) needs more
than its bounds, and its cause is proved only. The theorems of section 5 lift these bounds.
Agent: two subscriptions, because the failures of the extraction and of the walk
need a second entry; `MCE2Agent` gives one of them two
conditions and the other a report of two lists, of none or with a repeated parameter;
two requests; two tries stand for ten; one signal walks both entries; one
repetition and one loss of the RIC, each of which has a failure of its own.

**Fairness.** `SlotCompletes` assumes weak fairness of the scheduler's own
steps: the MAC thread runs a slot without waiting for anyone. `CallReturns`
assumes weak fairness of the calling thread, whose wait has a deadline, and of time, and
nothing of the event loop or the RIC. `ControlAnswered` and
`DisconnectCleans` assume weak fairness of the steps by which the iApp loop finishes
a handler, of the pool's workers, which wait for nothing but the route lock, and of a
node's handling of what has arrived; nothing of the xApps, the timers, the setup and
shutdown of nodes, or the iApp's reading of its edge-triggered socket.
`IndicationSent` and `RequestAnswered` assume it of the agent's loop, of epoll
reporting what is ready, and of a RAN thread that has begun a walk; `ConsumePipe`
blocks on an empty pipe and is fair only when it can read. Deadlock checking is off
for the runs of `E42Xapp`, `RicRouting` and `E2Agent`: an aborted process, or one
whose peers have used up their bounds, stops.

Every property of a passing run has a mutant, a plausible slip in the code
(a dropped test, a reset in the wrong place, a forgotten release) under which
TLC finds it violated; they stand in the modules above what they replace.

## 5. Proofs

For every value of the constants that satisfies the named assumptions of the modules
(numbers are naturals, sets of inputs have the right type, the order of the timeouts;
bounds are arbitrary). The pipe theorem has the hypothesis `FourDigits`: with request
ids of five digits, which the RIC gives from its 8980th request on, the code fails. No
other theorem has a hypothesis; in particular none assumes that xApps number their
requests differently.

| Theorem | Statement | Inductive invariant, and why |
|---|---|---|
| *SlicePrbSchedulerProofs* | | |
| `TypeCorrect` | `[]TypeOK` | with `PassIndex`: during a pass the entry is one the table really has, or the index could leave it |
| `TableAlwaysWhole` | `[]TableWhole` | follows step by step from the decoder accepting only what the MAC accepts (`ToPolicyAccepted`): no rejection can happen after the zeroing |
| `ResourceBlocksExclusive` | `[]ExclusiveAllocation` | with `Marked`: the RBs of every grant are in the map, so a free block meets none of them |
| `SliceBudgetKept` | `[]SliceBudget` | with `Charged`: during an entry's pass what it granted is at most `used_budget`, and later entries have granted nothing |
| `OvershootBounded` | `[]MaxUeOvershoot` | with `UeCount`: the excess over `max_num_ue` is at most the number of passes entered |
| `GrantsAreFinal` | `GrantIsFinal` | with `IdleClean`: between slots nobody holds a grant |
| *SliceQuotaProofs* | | |
| `NssaiQuotaKept` | `[]NssaiQuota` | `QuotaInv`, below |
| `ImplementsGrants` | `GrantsSpec` | `QuotaInv`, and the theorems on `ExclusiveAllocation` and `NssaiQuota` for the state after a step: every step grants once, opens, closes, installs or leaves the grants alone |
| *E42XappProofs* | | |
| `TypeCorrect` | `[]TypeOK` | with `ArmsTimer`: only subscriptions and deletes arm timers |
| `NothingLeaks` | `[]NoLeakedProcedure` | `Registry`: during a call the registry holds the subscriptions and the call's own id |
| `IdsAreFresh` | `FreshReqId` | with `IdsGiven`: every id in a message, timer or handler is below the next key |
| `WakeupsAreKept` | `[]NoLostWakeup` | `FreshInv`: no answer to a call exists before its request is sent, which is after the reset of the flag |
| `TimersAreBalanced` | `[]TimersCountRequests` | `Balance` with `AnswerInv`, below |
| `SetupIsGuarded` | `[]SetupGuarded` | `SetupInv`: the state before the first request included |
| `FailuresHaveCauses` | `[]AbortCauses` | `Balance` again: a timer that fires means a request without an answer, and an answer that finds no timer is that of a delete whose call is about to arm its own |
| `SuccessIsAlwaysEarned` | `[]SuccessIsEarned` | `SignalledOnce`: an answer in hand has not raised the flag yet; `Earned`: a flag found up in a call was raised for that call, and an answer in hand is for the call in progress or for one that has failed |
| *RicRoutingProofs* | | |
| `TypeCorrect` | `[]TypeOK` | inductive as it stands |
| *RicServiceProofs* | | |
| `AssertionsHold`, `FailuresHaveCauses` | `[]SureAssertions`, `[]AbortCauses` | `IInv`, below |
| `ImplementsService` | `ServiceSpec` | `IInv`: every step of the RIC is a step of the service or leaves its variables alone |
| *RicLeakProofs* | | |
| `NothingLeaks` | `[]NoLeak` | `LInv`, below |
| *E2AgentProofs* | | |
| `TypeCorrect` | `[]TypeOK` | `TypeInv`: in particular the unsent indications are those in the queue and the batch, but for one just sent |
| `PipeAndQueueAgree` | `[]PipeSound` | `PipeBytes`: the pipe holds four bytes for every indication in the queue or the batch, but for one that is pushed and not yet written |
| `ListedHaveEvents` | `[]ListedIsRegistered` | `ListsInv`, below |
| `FailuresHaveCauses` | `[]AbortCauses` | with `SetupInv`: a second pending setup, or a shutdown on its way, needs a loss; while no request was repeated there is at most one response and a pending setup for it |
| `ImplementsIndications` | `IndicationsSpec` | `TypeInv`: a batch exists exactly while the loop sends or reads the pipe, so that taking the queue never overwrites one |

**The quota of an S-NSSAI** (`QuotaInv`). A UE of the S-NSSAI may be served in any
entry's pass that names it, and several entries may. `Counted` says that on the current
beam the RBs which an entry's pass gave out (`granted`) are exactly as many as the RBs of
the UEs it served; with `SliceBudget` these are at most the entry's budget. `PassMatches`
says that data was only given by an entry for the UE's own S-NSSAI, or by the rest pass
to a UE without one, `GroupOfBeam` that the passes visit UEs of their own beam and
that no group comes twice, and `LaterBeamsEmpty` that the beams to come have no grants yet. The two sides of
`NssaiQuota` are then unions over the same entries of disjoint finite sets, compared
entry by entry: an injection from the RBs held into the RBs budgeted, so that no
induction over the set of entries is needed.

**The timers of the runtime** (`Balance`). No timer can be tied to its procedure, so the
argument counts. A procedure arms one timer (`OneTimer`) and its request is answered
once (`OneAnswer`); a timer is added together with a request that starts to wait, or
stands for a delete that is about to arm it, and each answer taken in removes one of
each. A delete that was answered before it armed its timer keeps the balance because
its call is in progress and no other delete's answer can be in hand (`CallAnswered`).

**The lists of the agent** (`ListsInv`). `CountInv`: a subscription without a repeated
parameter is in no list more often than it has indication events, but for one while its
report is being listed and less one while its event is being extracted. `ExtractInv`
says that what the loop has found is still there when it is extracted, and `ListedInv`
that a report begins with nothing listed, so that a repeated parameter is noticed.

**The RIC's invariant** (`IInv`). The code relies on an answer finding what its
request left behind, though other threads may come in between. The invariant says
why: an identifier stands for one request wherever it occurs, in routes, tasks,
messages, subscriptions (`BindInv`); an answer to come has its pending event
(`PendingInv`) and is alone, but for deletes of a request that is lost (`OnceInv`);
a request under way has a route, or the iApp is about to add it, in which case it
holds the lock, or it is a subscription that is lost (`RouteInv`): this is
the exception behind the assertions that can fail. A request is lost (`Lost`) when its
xApp has gone or it is `Mistaken`. `OwnerInv` ties the xApp id of a
route to the xApp, `EffectInv` and `HeardInv` tie the history to it, and `NodeInv`
says that without a shutdown the nodes in use have an address.

**Leaks** (`LInv`). The converse of the above: every pending event has the message or
task that will stop it, every route a request on its way, a subscription or a last
answer, and every subscription a route. Removing a route is safe because a
subscription stands before its delete in the node's queue (`OrderInv`), so that when
the delete is answered the subscription is neither to come nor served (`DelInv`).
This part assumes that no node has shut down: a shutdown leaves routes and pending
events behind, as the code removes neither.

Both invariants were also checked with TLC on the instances of `routing_faults` and
`routing_live`.

The invariants of the runtime and of the agent were checked in the same way on the
instances of `xapp` and `agent` before they were proved.

Only model-checked: `SlotCompletes`, `CallReturns`, `ControlAnswered`,
`DisconnectCleans`, `IndicationSent` and `RequestAnswered`, because liveness under
fairness is out of the prover's reach. Every other property of a passing run is a
theorem.

## 6. Not modelled

In the RIC: a second E2 setup of a connected node; an association that is aborted
rather than shut down (`not_handler_ric.c:28` asserts that this does not happen); E2 service update; the
reuse of an identifier after 65 536 requests; messages that wait in the iApp's
edge-triggered socket (the same loop is checked in the agent, `RequestAnswered`);
stopping any of the processes. In the xApp runtime: indications, their dispatcher and
the database.

The RC slice actuator is one sequential loop around the calls of `E42Xapp`. The
FlexRIC containers are used through what their callers rely on; where a container's
own behaviour matters (key allocation, extraction with equal keys, erasure from an
array) it is part of the model that meets it. The KPM and custom RAN functions only
copy counters; the encoders are conversions without state, most of them generated; the
LLM-hRIC services have no source in the repository; the base 5G stack, more than nine
tenths of the repository's lines together with the generated encoders, is upstream
code outside the control loop. The share of the repository that the models cover is
therefore small: they cover the parts in which this control loop's own concurrency,
bookkeeping and failure handling happen.
