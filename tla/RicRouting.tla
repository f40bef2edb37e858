----------------------------- MODULE RicRouting -----------------------------
(***************************************************************************)
(* The near-RT RIC of FlexRIC between its xApps and its E2 nodes.  Three   *)
(* kinds of threads share the maps:                                        *)
(*  - the iApp loop reads the xApps' messages one after the other, gives   *)
(*    every request a fresh identifier, sends it to the E2 node and notes  *)
(*    in map_ric_id which xApp asked under which of its own identifiers;   *)
(*  - the workers of the RIC's task pool run one task for every message of *)
(*    an E2 node, in any order and in parallel: they stop the pending      *)
(*    event, look the route up, answer the xApp and remove the route;      *)
(*  - the RIC loop handles the timers of the pending events and the        *)
(*    shutdown of E2 nodes.                                                *)
(* A failed assert() ends the process: aborted then names the assertion.   *)
(* The req field of a message or a task, xapp of a route's req and the     *)
(* history variables are bookkeeping: no step of the RIC reads them.       *)
(***************************************************************************)
EXTENDS Naturals, Sequences, FiniteSets

CONSTANTS
    XApps,          \* the xApps, one address each
    Nodes,          \* the E2 nodes
    Own,            \* Own[x]: identifiers (ric_gen_id_t) that x gives its requests
    FirstReqId,     \* the first request identifier of the RIC (1021)
    IdSpace,        \* the number of request identifiers (2^16)
    Slow,           \* operations whose answer may take longer than 3 seconds
    MaxSetups,      \* bound: E42 setup requests
    MaxReports,     \* bound: RIC indications
    MaxCopies,      \* bound: tasks of one kind and identifier at a time
    MaxNotices,     \* bound: unread send failures per xApp
    MaxDepartures   \* bound: shutdowns of E2 nodes

OwnIds == UNION {Own[x] : x \in XApps}

ASSUME PeersAssumption == XApps # {} /\ Nodes # {}
ASSUME OwnAssumption == Own \in [XApps -> SUBSET Nat] /\ OwnIds # {}
ASSUME IdAssumption ==
    /\ IdSpace \in Nat /\ FirstReqId \in 1 .. IdSpace - 1
ASSUME BoundsAssumption ==
    /\ MaxSetups \in Nat /\ MaxReports \in Nat /\ MaxNotices \in Nat
    /\ MaxCopies \in Nat /\ MaxDepartures \in Nat

VARIABLES
    \* the xApps
    xstate,       \* [XApps -> {"starting", "up", "gone"}]
    mine,         \* the id under which an xApp sends its requests
    known,        \* the E2 nodes that an xApp was told of
    \* the iApp
    iapp,         \* where the iApp loop is
    job,          \* the request it is forwarding
    todo,         \* the routes for which it still sends a delete
    xapp_id,      \* the next xApp id
    xapps,        \* map_xapps_sockaddr: from xApp ids to addresses
    routes,       \* map_ric_id
    reg,          \* reg_e2_nodes: the registered E2 nodes
    failed,       \* send failures that the iApp has not read yet, per xApp
    \* the RIC
    req_id,       \* the next request identifier
    pending,      \* the pending events
    addr,         \* map_e2_node_sockaddr: E2 nodes whose address is known
    conn,         \* conn_e2_nodes
    tasks,        \* the tasks of the pool that handle an answer or a report
    joining,      \* the step of a node's E2 setup task
    leaving,      \* the step of the handling of a node's shutdown
    timer,        \* the event whose expired timer the RIC loop is handling
    \* the E2 nodes
    online,       \* the nodes that are connected
    toNode,       \* messages on their way to a node
    subs,         \* the subscriptions that a node serves
    reports,      \* indications sent so far
    \* the process and its history
    aborted,      \* the assertion that failed, or "no"
    departures,   \* the number of shutdowns of E2 nodes
    asked, effect, closing, ended, heard

xappVars == <<xstate, mine, known>>
iappVars == <<iapp, job, todo>>
ricVars == <<req_id, pending>>
nodeMaps == <<addr, conn, reg>>
links == <<joining, leaving>>
nodeVars == <<online, toNode, subs, reports>>
history == <<asked, effect, closing, ended, heard>>
vars == <<xappVars, iappVars, xapp_id, xapps, routes, failed, ricVars, nodeMaps,
          tasks, links, timer, nodeVars, aborted, departures, history>>

Ops == {"sub", "control"}
Request == [xapp: XApps, own: OwnIds, op: Ops, node: Nodes]
Route == [id: Nat, xid: Nat, req: Request]
Message == [op: Ops \cup {"del"}, id: Nat, req: Request]
\* no tells tasks of one kind and identifier apart; key is the xapp_ric_id_t that
\* the task found for its identifier.
Task == [op: Ops \cup {"del", "report"}, id: Nat, no: Nat, req: Request,
         at: {"stop", "lookup", "remove"}, key: [xid: Nat, own: Nat]]
Event == [ev: Ops \cup {"del"}, id: Nat]
NoJob == [req |-> CHOOSE r \in Request : TRUE, xid |-> 0, id |-> 0]
NoKey == [xid |-> 0, own |-> 0]
About(r, what) == [to |-> r.xapp, own |-> r.own, what |-> what]

Assertions ==
    {"zero request id", "RIC Req Id not found", "control route not found",
     "ric_req_id already in the map", "key not found in the map",
     "xApp ID not found", "xApp RIC ID not found", "not a subscription",
     "no pending event", "E2 Node not valid", "E2 Node address not found",
     "shutdown of an unknown E2 Node", "E2 Node not connected",
     "timer of a stopped event"}

Running == aborted = "no"
Abort(what) == aborted' = what

Init ==
    /\ xstate = [x \in XApps |-> "starting"]
    /\ mine = [x \in XApps |-> 0] /\ known = [x \in XApps |-> {}]
    /\ iapp = "idle" /\ job = NoJob /\ todo = {}
    /\ xapp_id = 7 /\ xapps = [i \in {} |-> 0]
    /\ routes = {} /\ failed = [x \in XApps |-> 0]
    /\ req_id = FirstReqId /\ pending = {} /\ timer = {}
    /\ addr = {} /\ conn = {} /\ reg = {}
    /\ tasks = {} /\ joining = [n \in Nodes |-> "no"] /\ leaving = [n \in Nodes |-> "no"]
    /\ online = {} /\ toNode = [n \in Nodes |-> <<>>] /\ subs = [n \in Nodes |-> {}]
    /\ reports = 0 /\ aborted = "no" /\ departures = 0
    /\ asked = {} /\ effect = {} /\ closing = {} /\ ended = {} /\ heard = {}

-----------------------------------------------------------------------------
(* The iApp loop.                                                           *)

IappIdle == Running /\ iapp = "idle"

\* e2ap_handle_e42_setup_request_iapp, which takes the next id for every request, and
\* e2ap_reg_sock_addr_iapp, with the xApp's
\* handling of the response: it repeats the request while it is told of no E2
\* node, takes the id of the last response, and ignores one that comes later.
Setup(x) ==
    /\ IappIdle /\ xstate[x] # "gone" /\ xapp_id < 7 + MaxSetups
    /\ xapp_id' = xapp_id + 1
    /\ xapps' = [i \in DOMAIN xapps \cup {xapp_id} |->
                    IF i = xapp_id THEN x ELSE xapps[i]]
    /\ IF xstate[x] = "starting"
       THEN /\ mine' = [mine EXCEPT ![x] = xapp_id]
            /\ known' = [known EXCEPT ![x] = reg]
            /\ xstate' = [xstate EXCEPT ![x] = IF reg = {} THEN "starting" ELSE "up"]
       ELSE UNCHANGED xappVars
    /\ UNCHANGED <<iappVars, routes, failed, ricVars, nodeMaps, tasks, links, timer,
                   nodeVars, aborted, departures, history>>

\* e2ap_handle_e42_ric_subscription_request_iapp and ..._control_request_iapp up to
\* the lock: the E2 node must be registered.
RequestArrives(x, o, op, n) ==
    LET r == [xapp |-> x, own |-> o, op |-> op, node |-> n] IN
    /\ IappIdle /\ xstate[x] = "up" /\ n \in known[x]
    /\ \A q \in asked : q.xapp = x => q.own # o
    /\ asked' = asked \cup {r}
    /\ \/ n \in reg /\ iapp' = "forward" /\ UNCHANGED aborted
       \/ n \notin reg /\ Abort("E2 Node not valid") /\ UNCHANGED iapp
    /\ job' = [req |-> r, xid |-> mine[x], id |-> 0]
    /\ UNCHANGED <<xappVars, todo, xapp_id, xapps, routes, failed, ricVars, nodeMaps,
                   tasks, links, timer, nodeVars, departures, effect, closing, ended,
                   heard>>

\* Mutant: a counter that is wider than the identifier.
NoWrap == req_id + 1

\* uint16_t ric->req_id++.
NextReqId == IF req_id = IdSpace - 1 THEN 0 ELSE req_id + 1

\* e2ap_send_bytes_ric: what is sent to a node that has gone is lost.
Send(n, m) ==
    toNode' = IF n \in online THEN [toNode EXCEPT ![n] = Append(@, m)] ELSE toNode

\* fwd_ric_subscription_request and fwd_ric_control_request, under the route lock.
\* Bound: the identifiers are given once.
Forward ==
    LET r == job.req IN
    /\ Running /\ iapp = "forward" /\ NextReqId # FirstReqId
    /\ req_id' = NextReqId
    /\ pending' = pending \cup {[ev |-> r.op, id |-> req_id]}
    /\ job' = [job EXCEPT !.id = req_id]
    /\ \/ /\ r.node \in addr
          /\ Send(r.node, [op |-> r.op, id |-> req_id, req |-> r])
          /\ iapp' = "route" /\ UNCHANGED aborted
       \/ /\ r.node \notin addr
          /\ Abort("E2 Node address not found") /\ UNCHANGED <<toNode, iapp>>
    /\ UNCHANGED <<xappVars, todo, xapp_id, xapps, routes, failed, nodeMaps, tasks,
                   links, timer, online, subs, reports, departures, history>>

\* add_map_ric_id and the unlock.
AddRoute ==
    /\ Running /\ iapp = "route"
    /\ \/ /\ \A p \in routes : p.id # job.id
          /\ routes' = routes \cup {[id |-> job.id, xid |-> job.xid, req |-> job.req]}
          /\ iapp' = "idle" /\ job' = NoJob /\ UNCHANGED aborted
       \/ /\ \E p \in routes : p.id = job.id
          /\ Abort("ric_req_id already in the map") /\ UNCHANGED <<routes, iapp, job>>
    /\ UNCHANGED <<xappVars, todo, xapp_id, xapps, failed, ricVars, nodeMaps,
                   tasks, links, timer, nodeVars, departures, history>>

\* Mutant: the lock is taken by add_map_ric_id, after the request has been sent.
LockOnlyForTheMap == TRUE

\* Mutant: the lock is not released after the first request.
LockKept == req_id = FirstReqId

\* map_ric_id.rw: the iApp holds it for writing from before it sends a request
\* until the route is in the map; the workers take it for every access.
RouteLockFree == iapp # "route"

\* find_ric_req_map_ric_id: the order of the map is that of the xApp ids, and
\* eq_xapp_ric_gen_id compares an xApp id with itself.
FirstRoutesOf(o) ==
    {p \in routes : p.req.own = o /\ \A q \in routes : q.req.own = o => p.xid <= q.xid}

\* e2ap_handle_e42_ric_subscription_delete_request_iapp.  The xApp deletes a
\* subscription that was confirmed to it, once.
DeleteArrives(x, o) ==
    /\ IappIdle /\ xstate[x] = "up"
    /\ \E r \in asked :
          /\ r.xapp = x /\ r.own = o /\ r.op = "sub" /\ r \notin closing
          /\ About(r, "done") \in heard
          /\ closing' = closing \cup {r}
    /\ \/ /\ FirstRoutesOf(o) = {}
          /\ Abort("xApp RIC ID not found") /\ UNCHANGED <<iapp, todo>>
       \/ \E p \in FirstRoutesOf(o) :
             \/ p.req.op = "sub" /\ iapp' = "delete" /\ todo' = {p} /\ UNCHANGED aborted
             \/ /\ p.req.op # "sub"
                /\ Abort("not a subscription") /\ UNCHANGED <<iapp, todo>>
    /\ UNCHANGED <<xappVars, job, xapp_id, xapps, routes, failed, ricVars, nodeMaps,
                   tasks, links, timer, nodeVars, departures, asked, effect, ended,
                   heard>>

\* find_map_xapps_xid: the first id registered for the address.
IdOfAddress(x) ==
    CHOOSE i \in DOMAIN xapps : xapps[i] = x /\ \A j \in DOMAIN xapps : xapps[j] = x => i <= j

\* Mutant: the xApp id of the routes is not compared.
AllSubscriptions(i) == {p \in routes : p.req.op = "sub"}

\* find_all_subs_map_ric_id.
SubscriptionsOf(i) == {p \in routes : p.xid = i /\ p.req.op = "sub"}

\* A message to an xApp could not be delivered: rm_if_pending_subs.
XappDisconnected(x) ==
    /\ IappIdle /\ failed[x] > 0
    /\ failed' = [failed EXCEPT ![x] = @ - 1]
    /\ todo' = SubscriptionsOf(IdOfAddress(x))
    /\ iapp' = IF todo' = {} THEN "idle" ELSE "clean"
    /\ UNCHANGED <<xappVars, job, xapp_id, xapps, routes, ricVars, nodeMaps, tasks,
                   links, timer, nodeVars, aborted, departures, history>>

\* Mutant: the identifiers of the pending events are not compared.
AnyDeletePending(p) == \E e \in pending : e.ev = "del"

DeletePending(p) == [ev |-> "del", id |-> p.id] \in pending

\* fwd_ric_subscription_request_delete for one of the routes found.
ForwardDelete(p) ==
    /\ Running /\ iapp \in {"delete", "clean"} /\ p \in todo
    /\ todo' = todo \ {p}
    /\ iapp' = IF todo' = {} THEN "idle" ELSE iapp
    /\ \/ DeletePending(p) /\ UNCHANGED <<pending, toNode, aborted>>
       \/ /\ ~DeletePending(p)
          /\ pending' = pending \cup {[ev |-> "del", id |-> p.id]}
          /\ \/ /\ p.req.node \in addr /\ UNCHANGED aborted
                /\ Send(p.req.node, [op |-> "del", id |-> p.id, req |-> p.req])
             \/ /\ p.req.node \notin addr /\ UNCHANGED toNode
                /\ Abort("E2 Node address not found")
    /\ UNCHANGED <<xappVars, job, xapp_id, xapps, routes, failed, req_id, nodeMaps,
                   tasks, links, timer, online, subs, reports, departures, history>>

\* An xApp ends: what it leaves behind is noticed when a message to it fails.
XappLeaves(x) ==
    /\ Running /\ xstate[x] = "up"
    /\ xstate' = [xstate EXCEPT ![x] = "gone"]
    /\ UNCHANGED <<mine, known, iappVars, xapp_id, xapps, routes, failed, ricVars,
                   nodeMaps, tasks, links, timer, nodeVars, aborted, departures, history>>

-----------------------------------------------------------------------------
(* The workers of the task pool: one task for every message of an E2 node.  *)

Move(t, step) == tasks' = (tasks \ {t}) \cup {[t EXCEPT !.at = step]}
Finish(t) == tasks' = tasks \ {t}

\* stop_pending_event, which also closes the timer.
StopPending(t) ==
    LET e == [ev |-> t.op, id |-> t.id] IN
    /\ Running /\ t \in tasks /\ t.at = "stop"
    /\ \/ e \in pending /\ Move(t, "lookup") /\ UNCHANGED aborted
       \/ e \notin pending /\ Abort("no pending event") /\ UNCHANGED tasks
    /\ pending' = pending \ {e}
    /\ UNCHANGED <<xappVars, iappVars, xapp_id, xapps, routes, failed, req_id, nodeMaps,
                   links, timer, nodeVars, departures, history>>

\* What a task of a given kind tells the xApp.
What(op) ==
    CASE op \in Ops   -> "done"
      [] op = "del"    -> "ended"
      [] op = "report" -> "report"

\* e2ap_send_sctp_msg_iapp: a message to an xApp that has gone fails later.
Deliver(x, o, what) ==
    IF xstate[x] = "gone"
    THEN /\ failed' = [failed EXCEPT ![x] = IF @ < MaxNotices THEN @ + 1 ELSE @]
         /\ UNCHANGED heard
    ELSE heard' = heard \cup {[to |-> x, own |-> o, what |-> what]} /\ UNCHANGED failed

\* find_xapp_map_ric_id: the entry of a request identifier.
RoutesOf(id) == {p \in routes : p.id = id}

\* Mutant: the handler of a delete response keeps the route.
ControlOnly == {"control"}

\* The answers after which a route is no longer needed.
LastAnswers == {"control", "del"}

\* The handlers of the iApp that the workers call, up to the message to the xApp.
\* A report or the answer to a delete that has no route is dropped.
RouteAnswer(t) ==
    /\ Running /\ t \in tasks /\ t.at = "lookup" /\ RouteLockFree
    /\ \/ t.id = 0 /\ Abort("zero request id") /\ UNCHANGED <<tasks, heard, failed>>
       \/ /\ t.id # 0 /\ RoutesOf(t.id) = {}
          /\ \/ t.op \in {"del", "report"} /\ Finish(t) /\ UNCHANGED aborted
             \/ t.op = "sub" /\ Abort("RIC Req Id not found") /\ UNCHANGED tasks
             \/ t.op = "control" /\ Abort("control route not found") /\ UNCHANGED tasks
          /\ UNCHANGED <<heard, failed>>
       \/ /\ t.id # 0
          /\ \E p \in RoutesOf(t.id) :
                \/ /\ p.xid \in DOMAIN xapps /\ UNCHANGED aborted
                   /\ Deliver(xapps[p.xid], p.req.own, What(t.op))
                   /\ IF t.op \in LastAnswers
                      THEN tasks' = (tasks \ {t}) \cup
                              {[t EXCEPT !.at = "remove",
                                         !.key = [xid |-> p.xid, own |-> p.req.own]]}
                      ELSE Finish(t)
                \/ /\ p.xid \notin DOMAIN xapps
                   /\ Abort("xApp ID not found") /\ UNCHANGED <<tasks, heard, failed>>
    /\ UNCHANGED <<xappVars, iappVars, xapp_id, xapps, routes, ricVars, nodeMaps, links,
                   timer, nodeVars, departures, asked, effect, closing, ended>>

\* rm_map_ric_id at the end of the handlers of control answers and delete responses.
RoutesWithKey(k) == {p \in routes : p.xid = k.xid /\ p.req.own = k.own}

RemoveRoute(t) ==
    /\ Running /\ t \in tasks /\ t.at = "remove" /\ RouteLockFree
    /\ \/ /\ RoutesWithKey(t.key) # {} /\ UNCHANGED aborted
          /\ routes' = routes \ RoutesWithKey(t.key) /\ Finish(t)
       \/ /\ RoutesWithKey(t.key) = {} /\ UNCHANGED <<routes, tasks>>
          /\ Abort("key not found in the map")
    /\ UNCHANGED <<xappVars, iappVars, xapp_id, xapps, failed, ricVars, nodeMaps, links,
                   timer, nodeVars, departures, history>>

\* sctp_msg_arrived_event for an E2 setup request: the address, then the registry of
\* the iApp, then the list of connected nodes.
RegisterNode(n) ==
    /\ Running /\ joining[n] # "no"
    /\ \/ /\ joining[n] = "address" /\ joining' = [joining EXCEPT ![n] = "registry"]
          /\ addr' = addr \cup {n} /\ UNCHANGED <<reg, conn>>
       \/ /\ joining[n] = "registry" /\ joining' = [joining EXCEPT ![n] = "connected"]
          /\ reg' = reg \cup {n} /\ UNCHANGED <<addr, conn>>
       \/ /\ joining[n] = "connected" /\ joining' = [joining EXCEPT ![n] = "no"]
          /\ conn' = conn \cup {n} /\ UNCHANGED <<addr, reg>>
    /\ UNCHANGED <<xappVars, iappVars, xapp_id, xapps, routes, failed, ricVars, tasks,
                   leaving, timer, nodeVars, aborted, departures, history>>

-----------------------------------------------------------------------------
(* The RIC loop.                                                            *)

LoopFree == timer = {} /\ \A n \in Nodes : leaving[n] \in {"no", "queued"}

\* epoll_wait returns the timer of a request that has waited for 3 seconds.
TimerExpires(e) ==
    /\ Running /\ LoopFree /\ e \in pending /\ e.ev \in Slow
    /\ timer' = {e}
    /\ UNCHANGED <<xappVars, iappVars, xapp_id, xapps, routes, failed, ricVars, nodeMaps,
                   tasks, links, nodeVars, aborted, departures, history>>

\* pend_event and consume_fd: both fail if a worker has stopped the event meanwhile.
HandleTimer ==
    /\ Running /\ timer # {}
    /\ \/ timer \subseteq pending /\ timer' = {} /\ UNCHANGED aborted
       \/ /\ ~(timer \subseteq pending) /\ UNCHANGED timer
          /\ Abort("timer of a stopped event")
    /\ UNCHANGED <<xappVars, iappVars, xapp_id, xapps, routes, failed, ricVars, nodeMaps,
                   tasks, links, nodeVars, departures, history>>

\* notification_handle_ric: the address, the list of connected nodes, the registry.
NodeShutdown(n) ==
    /\ Running
    /\ \/ /\ leaving[n] = "queued" /\ LoopFree /\ UNCHANGED <<conn, reg>>
          /\ \/ /\ n \in addr /\ addr' = addr \ {n} /\ UNCHANGED aborted
                /\ leaving' = [leaving EXCEPT ![n] = "unmapped"]
             \/ /\ n \notin addr /\ UNCHANGED <<addr, leaving>>
                /\ Abort("shutdown of an unknown E2 Node")
       \/ /\ leaving[n] = "unmapped" /\ UNCHANGED <<addr, reg>>
          /\ \/ /\ n \in conn /\ conn' = conn \ {n} /\ UNCHANGED aborted
                /\ leaving' = [leaving EXCEPT ![n] = "disconnected"]
             \/ /\ n \notin conn /\ UNCHANGED <<conn, leaving>>
                /\ Abort("E2 Node not connected")
       \/ /\ leaving[n] = "disconnected" /\ reg' = reg \ {n}
          /\ leaving' = [leaving EXCEPT ![n] = "no"] /\ UNCHANGED <<addr, conn, aborted>>
    /\ UNCHANGED <<xappVars, iappVars, xapp_id, xapps, routes, failed, ricVars, tasks,
                   joining, timer, nodeVars, departures, history>>

-----------------------------------------------------------------------------
(* The E2 nodes.  A message of theirs becomes a task when the RIC loop has  *)
(* read it: before the shutdown that may follow it.                         *)

NodeJoins(n) ==
    /\ Running /\ n \notin online /\ joining[n] = "no" /\ leaving[n] = "no"
    /\ online' = online \cup {n}
    /\ joining' = [joining EXCEPT ![n] = "address"]
    /\ UNCHANGED <<xappVars, iappVars, xapp_id, xapps, routes, failed, ricVars, nodeMaps,
                   tasks, leaving, timer, toNode, subs, reports, aborted, departures,
                   history>>

\* async_task_manager.
NewTask(op, m, step) ==
    LET taken == {t.no : t \in {t \in tasks : t.op = op /\ t.id = m.id}} IN
    \E k \in (1 .. MaxCopies) \ taken :
        /\ 1 .. k - 1 \subseteq taken
        /\ tasks' = tasks \cup {[op |-> op, id |-> m.id, no |-> k, req |-> m.req,
                                at |-> step, key |-> NoKey]}

\* The E2 agent handles a request and answers it.
NodeHandles(n) ==
    LET m == Head(toNode[n]) IN
    /\ Running /\ toNode[n] # <<>>
    /\ toNode' = [toNode EXCEPT ![n] = Tail(@)]
    /\ \/ /\ m.op \in Ops /\ effect' = effect \cup {m.req} /\ UNCHANGED ended
          /\ subs' = IF m.op = "sub"
                     THEN [subs EXCEPT ![n] = @ \cup {[id |-> m.id, req |-> m.req]}]
                     ELSE subs
       \/ /\ m.op = "del" /\ UNCHANGED effect
          /\ ended' = ended \cup {s.req : s \in {s \in subs[n] : s.id = m.id}}
          /\ subs' = [subs EXCEPT ![n] = {s \in @ : s.id # m.id}]
    /\ NewTask(m.op, m, "stop")
    /\ UNCHANGED <<xappVars, iappVars, xapp_id, xapps, routes, failed, ricVars, nodeMaps,
                   links, timer, online, reports, aborted, departures, asked, closing,
                   heard>>

\* An indication of one of the subscriptions.
NodeReports(n) ==
    /\ Running /\ reports < MaxReports /\ reports' = reports + 1
    /\ \E s \in subs[n] : NewTask("report", s, "lookup")
    /\ UNCHANGED <<xappVars, iappVars, xapp_id, xapps, routes, failed, ricVars, nodeMaps,
                   links, timer, online, toNode, subs, aborted, departures, history>>

\* The node shuts down: its subscriptions and what is on its way to it are lost.
NodeLeaves(n) ==
    /\ Running /\ n \in online /\ departures < MaxDepartures
    /\ departures' = departures + 1
    /\ online' = online \ {n} /\ leaving' = [leaving EXCEPT ![n] = "queued"]
    /\ toNode' = [toNode EXCEPT ![n] = <<>>] /\ subs' = [subs EXCEPT ![n] = {}]
    /\ ended' = ended \cup {s.req : s \in subs[n]}
    /\ UNCHANGED <<xappVars, iappVars, xapp_id, xapps, routes, failed, ricVars, nodeMaps,
                   tasks, joining, timer, reports, aborted, asked, effect, closing, heard>>

-----------------------------------------------------------------------------
Next ==
    \/ \E x \in XApps : Setup(x)
    \/ \E x \in XApps : \E o \in Own[x], op \in Ops, n \in Nodes : RequestArrives(x, o, op, n)
    \/ Forward
    \/ AddRoute
    \/ \E x \in XApps : \E o \in Own[x] : DeleteArrives(x, o)
    \/ \E x \in XApps : XappDisconnected(x)
    \/ \E p \in todo : ForwardDelete(p)
    \/ \E x \in XApps : XappLeaves(x)
    \/ \E t \in tasks : StopPending(t)
    \/ \E t \in tasks : RouteAnswer(t)
    \/ \E t \in tasks : RemoveRoute(t)
    \/ \E n \in Nodes : RegisterNode(n)
    \/ \E e \in pending : TimerExpires(e)
    \/ HandleTimer
    \/ \E n \in Nodes : NodeShutdown(n)
    \/ \E n \in Nodes : NodeJoins(n)
    \/ \E n \in Nodes : NodeHandles(n)
    \/ \E n \in Nodes : NodeReports(n)
    \/ \E n \in Nodes : NodeLeaves(n)

Spec == Init /\ [][Next]_vars

\* The iApp loop finishes the handler it is in, the pool runs every task and an E2
\* node handles what has arrived.  Nothing is assumed of the xApps, of the timers, of
\* the setup and the shutdown of nodes, or of the iApp's reading of its socket.
Fairness ==
    /\ WF_vars(Forward) /\ WF_vars(AddRoute)
    /\ WF_vars(\E p \in todo : ForwardDelete(p))
    /\ WF_vars(\E t \in tasks : StopPending(t))
    /\ WF_vars(\E t \in tasks : RouteAnswer(t))
    /\ WF_vars(\E t \in tasks : RemoveRoute(t))
    /\ \A n \in Nodes : WF_vars(NodeHandles(n))

FairSpec == Spec /\ Fairness

-----------------------------------------------------------------------------
(* Properties.                                                              *)

\* The variables have their types.
TypeOK ==
    /\ xstate \in [XApps -> {"starting", "up", "gone"}]
    /\ mine \in [XApps -> Nat] /\ known \in [XApps -> SUBSET Nodes]
    /\ iapp \in {"idle", "forward", "route", "delete", "clean"}
    /\ job \in [req: Request, xid: Nat, id: Nat] /\ todo \subseteq Route
    /\ xapp_id \in Nat /\ DOMAIN xapps \subseteq Nat
    /\ \A i \in DOMAIN xapps : xapps[i] \in XApps
    /\ routes \subseteq Route /\ failed \in [XApps -> Nat]
    /\ req_id \in 0 .. IdSpace - 1 /\ pending \subseteq Event
    /\ addr \subseteq Nodes /\ conn \subseteq Nodes /\ reg \subseteq Nodes
    /\ tasks \subseteq Task
    /\ joining \in [Nodes -> {"no", "address", "registry", "connected"}]
    /\ leaving \in [Nodes -> {"no", "queued", "unmapped", "disconnected"}]
    /\ timer \subseteq Event
    /\ online \subseteq Nodes /\ toNode \in [Nodes -> Seq(Message)]
    /\ subs \in [Nodes -> SUBSET [id: Nat, req: Request]]
    /\ reports \in Nat /\ departures \in Nat
    /\ aborted \in Assertions \cup {"no"}
    /\ asked \subseteq Request /\ effect \subseteq Request
    /\ closing \subseteq Request /\ ended \subseteq Request
    /\ heard \subseteq [to: XApps, own: OwnIds, what: {"done", "report", "ended"}]

\* Assertions of the RIC that never fail, whatever the order of the iApp's steps and
\* the workers', whoever leaves and however the xApps number their requests: the
\* answer to a control finds its route (msg_handler_iapp.c:172, :211), an identifier is
\* free when its route is added (map_ric_id.c:148), the address of the xApp is known
\* (map_xapps_sockaddr.c:194) and the pending event of an answer exists
\* (assoc_rb_tree.c:457).
SureAssertions ==
    aborted \notin {"control route not found", "ric_req_id already in the map",
                    "xApp ID not found", "no pending event"}

\* msg_handler_iapp.c:358 asserts that what the iApp finds for a delete request is a
\* subscription.
DeleteFindsSubscription == aborted # "not a subscription"

\* Another xApp has deleted a subscription that has r's identifier: the iApp, which
\* does not compare the xApps, may have taken the delete for one of r.
Mistaken(r) == \E q \in closing : q.own = r.own /\ q.xapp # r.xapp

\* What the other failures need.  A subscription response without a route
\* (msg_handler_iapp.c:97) and the second removal of a route (:157) need an xApp that
\* left while its request was being handled, or a delete that may have been taken for
\* another xApp's; so does a delete that finds no route (map_ric_id.c:227) or the route
\* of a control (msg_handler_iapp.c:358).  The failures about E2 nodes need a node that
\* has shut down; the identifier 0 (map_ric_id.c:180) a counter that has wrapped.
AbortCauses ==
    /\ aborted = "RIC Req Id not found" =>
          \E t \in tasks : /\ t.op = "sub" /\ t.at = "lookup"
                           /\ xstate[t.req.xapp] = "gone" \/ Mistaken(t.req)
    /\ aborted = "key not found in the map" =>
          \E t \in tasks : /\ t.op = "del" /\ t.at = "remove"
                           /\ xstate[t.req.xapp] = "gone" \/ Mistaken(t.req)
    /\ aborted = "xApp RIC ID not found" => \E r \in closing : Mistaken(r)
    /\ aborted = "not a subscription" => \E r \in asked : r.op = "control" /\ Mistaken(r)
    /\ aborted \in {"E2 Node not valid", "E2 Node address not found",
                    "shutdown of an unknown E2 Node", "E2 Node not connected"} =>
          departures > 0
    /\ aborted = "zero request id" => req_id < FirstReqId

\* The bookkeeping leaks nothing: when no message is on its way, no task is left and
\* the iApp is between two messages, and no E2 node has shut down, no event is pending
\* and the routes are those of the subscriptions that the nodes serve.
Quiet ==
    /\ Running /\ departures = 0 /\ iapp = "idle" /\ tasks = {}
    /\ \A n \in Nodes : toNode[n] = <<>>

NoLeak ==
    Quiet => /\ pending = {}
             /\ {[id |-> p.id, req |-> p.req] : p \in routes} = UNION {subs[n] : n \in Nodes}

\* The RIC implements the abstract request service: every request is carried out at
\* most once, its own xApp hears of it and of nothing else, and a subscription ends
\* only if its xApp left or deleted it, its node shut down, or another xApp deleted a
\* subscription that has the same identifier.
LeftXapps == {x \in XApps : xstate[x] = "gone"}
Service == INSTANCE RequestService WITH left <- LeftXapps
ServiceSpec == Service!Spec

Stopped == ~Running \/ departures > 0

\* The xApp hears of a control that it sent, unless it leaves, a node shuts down or
\* the RIC aborts: no answer of the thread pool is lost.
ControlAnswered ==
    \A x \in XApps : \A o \in Own[x] :
        (\E r \in asked : r.xapp = x /\ r.own = o /\ r.op = "control") ~>
        (Stopped \/ xstate[x] = "gone" \/ [to |-> x, own |-> o, what |-> "done"] \in heard)

\* Once the iApp cleans up after an xApp that has one id, all of the xApp's
\* subscriptions end (rm_if_pending_subs).  An xApp that repeated its setup request
\* has more ids and only the subscriptions of its first id are found.
DisconnectCleans ==
    \A x \in XApps :
        (iapp = "clean" /\ (\E p \in todo : xapps[p.xid] = x)
            /\ \A i, j \in DOMAIN xapps : xapps[i] = x /\ xapps[j] = x => i = j) ~>
        (Stopped \/ \A r \in asked : r.xapp = x /\ r.op = "sub" => r \in ended)
=============================================================================
