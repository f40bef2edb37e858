-------------------------- MODULE RicRoutingProofs --------------------------
(***************************************************************************)
(* Theorems about RicRouting, for every value of the constants.            *)
(***************************************************************************)
EXTENDS RicRouting, WellFoundedInduction, TLAPS

-----------------------------------------------------------------------------
(* Type correctness.                                                        *)

LEMMA NoJobType == NoJob \in [req: Request, xid: Nat, id: Nat]
<1>1. PICK o \in OwnIds : TRUE
  BY OwnAssumption
<1>2. PICK x \in XApps : TRUE
  BY PeersAssumption
<1>3. PICK n \in Nodes : TRUE
  BY PeersAssumption
<1>4. [xapp |-> x, own |-> o, op |-> "sub", node |-> n] \in Request
  BY <1>1, <1>2, <1>3 DEF Request, Ops
<1>5. (CHOOSE r \in Request : TRUE) \in Request
  BY <1>4
<1> QED
  BY <1>5 DEF NoJob

LEMMA InitType == Init => TypeOK
<1> SUFFICES ASSUME Init PROVE TypeOK
  OBVIOUS
<1>1. job \in [req: Request, xid: Nat, id: Nat]
  BY NoJobType DEF Init
<1>2. req_id \in 0 .. IdSpace - 1
  BY IdAssumption DEF Init
<1> QED
  BY <1>1, <1>2 DEF Init, TypeOK

LEMMA SetupType == TypeOK /\ (\E x \in XApps : Setup(x)) => TypeOK'
<1> SUFFICES ASSUME TypeOK, NEW x \in XApps, Setup(x) PROVE TypeOK'
  OBVIOUS
<1>1. xapp_id' \in Nat /\ DOMAIN xapps' \subseteq Nat /\ \A i \in DOMAIN xapps' : xapps'[i] \in XApps
  BY DEF TypeOK, Setup
<1>2. /\ xstate' \in [XApps -> {"starting", "up", "gone"}]
      /\ mine' \in [XApps -> Nat] /\ known' \in [XApps -> SUBSET Nodes]
  <2>1. CASE xstate[x] = "starting"
    <3>1. /\ mine' = [mine EXCEPT ![x] = xapp_id] /\ known' = [known EXCEPT ![x] = reg]
          /\ \/ xstate' = [xstate EXCEPT ![x] = "starting"]
             \/ xstate' = [xstate EXCEPT ![x] = "up"]
      BY <2>1 DEF Setup
    <3> QED
      BY <3>1 DEF TypeOK
  <2>2. CASE xstate[x] # "starting"
    BY <2>2 DEF TypeOK, Setup, xappVars
  <2> QED
    BY <2>1, <2>2
<1> QED
  BY <1>1, <1>2 DEF TypeOK, Setup, iappVars, ricVars, nodeMaps, links, nodeVars, history

LEMMA RequestArrivesType ==
    TypeOK /\ (\E x \in XApps : \E o \in Own[x], op \in Ops, n \in Nodes : RequestArrives(x, o, op, n))
        => TypeOK'
<1> SUFFICES ASSUME TypeOK, NEW x \in XApps, NEW o \in Own[x], NEW op \in Ops, NEW n \in Nodes,
                    RequestArrives(x, o, op, n)
             PROVE  TypeOK'
  OBVIOUS
<1> DEFINE r == [xapp |-> x, own |-> o, op |-> op, node |-> n]
<1>1. r \in Request
  BY DEF Request, OwnIds
<1>2. job' \in [req: Request, xid: Nat, id: Nat] /\ asked' \subseteq Request
  BY <1>1 DEF RequestArrives, TypeOK
<1>3. aborted' \in Assertions \cup {"no"} /\ iapp' \in {"idle", "forward", "route", "delete", "clean"}
  BY DEF RequestArrives, TypeOK, Abort, Assertions
<1> QED
  BY <1>2, <1>3 DEF RequestArrives, TypeOK, xappVars, ricVars, nodeMaps, links, nodeVars

LEMMA SendType ==
    ASSUME TypeOK, NEW n \in Nodes, NEW m \in Message, Send(n, m)
    PROVE  toNode' \in [Nodes -> Seq(Message)]
  BY DEF TypeOK, Send

LEMMA NextReqIdType == TypeOK => NextReqId \in 0 .. IdSpace - 1
<1> SUFFICES ASSUME TypeOK PROVE NextReqId \in 0 .. IdSpace - 1
  OBVIOUS
<1>1. req_id \in 0 .. IdSpace - 1 /\ IdSpace \in Nat
  BY IdAssumption DEF TypeOK
<1>2. CASE req_id = IdSpace - 1
  BY <1>1, <1>2 DEF NextReqId
<1>3. CASE req_id # IdSpace - 1
  <2>1. NextReqId = req_id + 1
    BY <1>3 DEF NextReqId
  <2> QED
    BY <1>1, <1>3, <2>1
<1> QED
  BY <1>2, <1>3

LEMMA ForwardType == TypeOK /\ Forward => TypeOK'
<1> SUFFICES ASSUME TypeOK, Forward PROVE TypeOK'
  OBVIOUS
<1>1. job.req \in Request /\ job.req.op \in Ops /\ job.req.node \in Nodes /\ req_id \in Nat
  BY IdAssumption DEF TypeOK, Request
<1>2. req_id' \in 0 .. IdSpace - 1
  BY NextReqIdType DEF Forward
<1>3. pending' \subseteq Event /\ job' \in [req: Request, xid: Nat, id: Nat]
  <2>1. [ev |-> job.req.op, id |-> req_id] \in Event
    BY <1>1 DEF Event
  <2>2. pending' = pending \cup {[ev |-> job.req.op, id |-> req_id]} /\ job' = [job EXCEPT !.id = req_id]
    BY DEF Forward
  <2> QED
    BY <1>1, <2>1, <2>2 DEF TypeOK
<1>4. toNode' \in [Nodes -> Seq(Message)]
  <2>1. [op |-> job.req.op, id |-> req_id, req |-> job.req] \in Message
    BY <1>1 DEF Message
  <2> QED
    BY <1>1, <2>1, SendType DEF Forward, TypeOK
<1>5. aborted' \in Assertions \cup {"no"} /\ iapp' \in {"idle", "forward", "route", "delete", "clean"}
  BY DEF Forward, TypeOK, Abort, Assertions
<1> QED
  BY <1>2, <1>3, <1>4, <1>5 DEF TypeOK, Forward, xappVars, nodeMaps, links, history

LEMMA AddRouteType == TypeOK /\ AddRoute => TypeOK'
<1> SUFFICES ASSUME TypeOK, AddRoute PROVE TypeOK'
  OBVIOUS
<1>1. routes' \subseteq Route /\ job' \in [req: Request, xid: Nat, id: Nat]
  BY NoJobType DEF AddRoute, TypeOK, Route
<1>2. aborted' \in Assertions \cup {"no"} /\ iapp' \in {"idle", "forward", "route", "delete", "clean"}
  BY DEF AddRoute, TypeOK, Abort, Assertions
<1> QED
  BY <1>1, <1>2 DEF TypeOK, AddRoute, xappVars, ricVars, nodeMaps, links, nodeVars, history

LEMMA DeleteArrivesType ==
    TypeOK /\ (\E x \in XApps : \E o \in Own[x] : DeleteArrives(x, o)) => TypeOK'
<1> SUFFICES ASSUME TypeOK, NEW x \in XApps, NEW o \in Own[x], DeleteArrives(x, o) PROVE TypeOK'
  OBVIOUS
<1>1. todo' \subseteq Route /\ closing' \subseteq Request
  BY DEF DeleteArrives, TypeOK, FirstRoutesOf
<1>2. aborted' \in Assertions \cup {"no"} /\ iapp' \in {"idle", "forward", "route", "delete", "clean"}
  BY DEF DeleteArrives, TypeOK, Abort, Assertions
<1> QED
  BY <1>1, <1>2 DEF TypeOK, DeleteArrives, xappVars, ricVars, nodeMaps, links, nodeVars

LEMMA XappDisconnectedType == TypeOK /\ (\E x \in XApps : XappDisconnected(x)) => TypeOK'
<1> SUFFICES ASSUME TypeOK, NEW x \in XApps, XappDisconnected(x) PROVE TypeOK'
  OBVIOUS
<1>1. failed' \in [XApps -> Nat]
  <2>1. failed \in [XApps -> Nat] /\ failed[x] > 0 /\ failed' = [failed EXCEPT ![x] = @ - 1]
    BY DEF XappDisconnected, TypeOK
  <2>2. failed[x] - 1 \in Nat
    BY <2>1
  <2> QED
    BY <2>1, <2>2
<1>2. todo' \subseteq Route /\ iapp' \in {"idle", "forward", "route", "delete", "clean"}
  BY DEF XappDisconnected, TypeOK, SubscriptionsOf
<1> QED
  BY <1>1, <1>2 DEF TypeOK, XappDisconnected, xappVars, ricVars, nodeMaps, links, nodeVars, history

LEMMA ForwardDeleteType == TypeOK /\ (\E p \in todo : ForwardDelete(p)) => TypeOK'
<1> SUFFICES ASSUME TypeOK, NEW p \in todo, ForwardDelete(p) PROVE TypeOK'
  OBVIOUS
<1>1. p \in Route /\ p.id \in Nat /\ p.req \in Request /\ p.req.node \in Nodes
  BY DEF TypeOK, Route, Request
<1>2. todo' \subseteq Route /\ pending' \subseteq Event
  <2>1. [ev |-> "del", id |-> p.id] \in Event
    BY <1>1 DEF Event
  <2>2. todo' = todo \ {p}
        /\ (pending' = pending \/ pending' = pending \cup {[ev |-> "del", id |-> p.id]})
    BY DEF ForwardDelete
  <2> QED
    BY <2>1, <2>2 DEF TypeOK
<1>3. toNode' \in [Nodes -> Seq(Message)]
  <2>1. [op |-> "del", id |-> p.id, req |-> p.req] \in Message
    BY <1>1 DEF Message
  <2> QED
    BY <1>1, <2>1, SendType DEF ForwardDelete, TypeOK
<1>4. aborted' \in Assertions \cup {"no"} /\ iapp' \in {"idle", "forward", "route", "delete", "clean"}
  BY DEF ForwardDelete, TypeOK, Abort, Assertions
<1> QED
  BY <1>2, <1>3, <1>4 DEF TypeOK, ForwardDelete, xappVars, nodeMaps, links, history

LEMMA XappLeavesType == TypeOK /\ (\E x \in XApps : XappLeaves(x)) => TypeOK'
<1> SUFFICES ASSUME TypeOK, NEW x \in XApps, XappLeaves(x) PROVE TypeOK'
  OBVIOUS
<1>1. xstate' \in [XApps -> {"starting", "up", "gone"}]
  BY DEF XappLeaves, TypeOK
<1> QED
  BY <1>1 DEF TypeOK, XappLeaves, iappVars, ricVars, nodeMaps, links, nodeVars, history

LEMMA TaskFacts ==
    ASSUME TypeOK, NEW t \in tasks
    PROVE  /\ t \in Task /\ t.id \in Nat /\ t.req \in Request
           /\ t.op \in Ops \cup {"del", "report"} /\ t.at \in {"stop", "lookup", "remove"}
           /\ t.key.xid \in Nat /\ t.key.own \in Nat
           /\ \A step \in {"stop", "lookup", "remove"}, k \in [xid: Nat, own: Nat] :
                 /\ [t EXCEPT !.at = step] \in Task
                 /\ [t EXCEPT !.at = step, !.key = k] \in Task
<1>1. t \in Task
  BY DEF TypeOK
<1>2. /\ t.id \in Nat /\ t.req \in Request
      /\ t.op \in Ops \cup {"del", "report"} /\ t.at \in {"stop", "lookup", "remove"}
      /\ t.key.xid \in Nat /\ t.key.own \in Nat
  BY <1>1 DEF Task
<1>3. \A step \in {"stop", "lookup", "remove"} : [t EXCEPT !.at = step] \in Task
  BY <1>1 DEF Task
<1>4. \A step \in {"stop", "lookup", "remove"}, k \in [xid: Nat, own: Nat] :
         [t EXCEPT !.at = step, !.key = k] \in Task
  BY <1>1 DEF Task
<1> QED
  BY <1>1, <1>2, <1>3, <1>4, Zenon

LEMMA StopPendingType == TypeOK /\ (\E t \in tasks : StopPending(t)) => TypeOK'
<1> SUFFICES ASSUME TypeOK, NEW t \in tasks, StopPending(t) PROVE TypeOK'
  OBVIOUS
<1>1. tasks' \subseteq Task
  <2>1. tasks' = tasks \/ tasks' = (tasks \ {t}) \cup {[t EXCEPT !.at = "lookup"]}
    BY DEF StopPending, Move
  <2>2. [t EXCEPT !.at = "lookup"] \in Task /\ tasks \subseteq Task
    <3>1. t \in Task /\ tasks \subseteq Task
      BY DEF TypeOK
    <3> QED
      BY <3>1 DEF Task
  <2> QED
    BY <2>1, <2>2
<1>2. pending' \subseteq Event /\ aborted' \in Assertions \cup {"no"}
  BY DEF StopPending, TypeOK, Abort, Assertions
<1> QED
  BY <1>1, <1>2 DEF TypeOK, StopPending, xappVars, iappVars, nodeMaps, links, nodeVars, history

LEMMA RouteFacts ==
    ASSUME TypeOK, NEW p \in routes
    PROVE  /\ p.id \in Nat /\ p.xid \in Nat /\ p.req \in Request /\ p.req.own \in OwnIds
           /\ p.req.own \in Nat /\ p.req.xapp \in XApps /\ p.req.node \in Nodes /\ p.req.op \in Ops
<1>1. p.id \in Nat /\ p.xid \in Nat /\ p.req \in Request
  BY DEF TypeOK, Route
<1>2. OwnIds \subseteq Nat
  BY OwnAssumption DEF OwnIds
<1> QED
  BY <1>1, <1>2 DEF Request

\* What a worker does with a task that has looked up its route.
LEMMA RouteAnswerCases ==
    ASSUME TypeOK, NEW t \in tasks, RouteAnswer(t)
    PROVE  /\ Running /\ t.at = "lookup" /\ RouteLockFree
           /\ UNCHANGED <<xappVars, iappVars, xapp_id, xapps, routes, ricVars, nodeMaps, links,
                          timer, nodeVars, departures, asked, effect, closing, ended>>
           /\ \/ /\ aborted' \in {"zero request id", "RIC Req Id not found",
                                 "control route not found", "xApp ID not found"}
                 /\ UNCHANGED <<tasks, heard, failed>>
              \/ /\ tasks' = tasks \ {t} /\ RoutesOf(t.id) = {} /\ t.op \in {"del", "report"}
                 /\ UNCHANGED <<heard, failed, aborted>>
              \/ \E p \in RoutesOf(t.id) :
                    /\ p.xid \in DOMAIN xapps /\ UNCHANGED aborted
                    /\ Deliver(xapps[p.xid], p.req.own, What(t.op))
                    /\ \/ t.op \notin LastAnswers /\ tasks' = tasks \ {t}
                       \/ /\ t.op \in LastAnswers
                          /\ tasks' = (tasks \ {t}) \cup
                                {[t EXCEPT !.at = "remove",
                                           !.key = [xid |-> p.xid, own |-> p.req.own]]}
  BY DEF RouteAnswer, Abort, Finish

LEMMA WhatType ==
    ASSUME NEW op \in Ops \cup {"del", "report"}
    PROVE  What(op) \in {"done", "report", "ended"}
  BY DEF What, Ops

LEMMA DeliverType ==
    ASSUME TypeOK, NEW x \in XApps, NEW o \in OwnIds, NEW what \in {"done", "report", "ended"},
           Deliver(x, o, what)
    PROVE  /\ failed' \in [XApps -> Nat]
           /\ heard' \subseteq [to: XApps, own: OwnIds, what: {"done", "report", "ended"}]
<1>1. failed \in [XApps -> Nat] /\ MaxNotices \in Nat
  BY BoundsAssumption DEF TypeOK
<1>2. failed' \in [XApps -> Nat]
  <2>1. failed' = failed \/ failed' = [failed EXCEPT ![x] = failed[x]]
           \/ failed' = [failed EXCEPT ![x] = failed[x] + 1]
    BY DEF Deliver
  <2> QED
    BY <1>1, <2>1
<1> QED
  BY <1>2 DEF TypeOK, Deliver

LEMMA RouteAnswerType == TypeOK /\ (\E t \in tasks : RouteAnswer(t)) => TypeOK'
<1> SUFFICES ASSUME TypeOK, NEW t \in tasks, RouteAnswer(t) PROVE TypeOK'
  OBVIOUS
<1>1. UNCHANGED <<xappVars, iappVars, xapp_id, xapps, routes, ricVars, nodeMaps, links,
                  timer, nodeVars, departures, asked, effect, closing, ended>>
  BY RouteAnswerCases, Zenon
<1>2. /\ tasks' \subseteq Task /\ failed' \in [XApps -> Nat]
      /\ heard' \subseteq [to: XApps, own: OwnIds, what: {"done", "report", "ended"}]
      /\ aborted' \in Assertions \cup {"no"}
  <2>1. CASE aborted' \in {"zero request id", "RIC Req Id not found",
                          "control route not found", "xApp ID not found"}
             /\ UNCHANGED <<tasks, heard, failed>>
    BY <2>1 DEF TypeOK, Assertions
  <2>2. CASE tasks' = tasks \ {t} /\ UNCHANGED <<heard, failed, aborted>>
    BY <2>2 DEF TypeOK
  <2>3. ASSUME NEW p \in RoutesOf(t.id), p.xid \in DOMAIN xapps, UNCHANGED aborted,
               Deliver(xapps[p.xid], p.req.own, What(t.op)),
               \/ tasks' = tasks \ {t}
               \/ tasks' = (tasks \ {t}) \cup
                     {[t EXCEPT !.at = "remove", !.key = [xid |-> p.xid, own |-> p.req.own]]}
        PROVE  /\ tasks' \subseteq Task /\ failed' \in [XApps -> Nat]
               /\ heard' \subseteq [to: XApps, own: OwnIds, what: {"done", "report", "ended"}]
               /\ aborted' \in Assertions \cup {"no"}
    <3>1. p \in routes
      BY DEF RoutesOf
    <3>2. p.xid \in Nat /\ p.req.own \in Nat /\ p.req.own \in OwnIds
      BY <3>1, RouteFacts
    <3>3. xapps[p.xid] \in XApps /\ What(t.op) \in {"done", "report", "ended"}
      BY <2>3, TaskFacts, WhatType DEF TypeOK
    <3>4. failed' \in [XApps -> Nat]
          /\ heard' \subseteq [to: XApps, own: OwnIds, what: {"done", "report", "ended"}]
      BY <2>3, <3>2, <3>3, DeliverType
    <3>5. [xid |-> p.xid, own |-> p.req.own] \in [xid: Nat, own: Nat]
      BY <3>2
    <3>6. [t EXCEPT !.at = "remove", !.key = [xid |-> p.xid, own |-> p.req.own]] \in Task
      BY <3>5, TaskFacts
    <3>7. tasks' \subseteq Task
      BY <2>3, <3>6 DEF TypeOK
    <3>8. aborted' \in Assertions \cup {"no"}
      BY <2>3 DEF TypeOK
    <3> QED
      BY <3>4, <3>7, <3>8
  <2> QED
    BY <2>1, <2>2, <2>3, RouteAnswerCases, Zenon
<1> QED
  BY <1>1, <1>2 DEF TypeOK, xappVars, iappVars, ricVars, nodeMaps, links, nodeVars

LEMMA RemoveRouteType == TypeOK /\ (\E t \in tasks : RemoveRoute(t)) => TypeOK'
<1> SUFFICES ASSUME TypeOK, NEW t \in tasks, RemoveRoute(t) PROVE TypeOK'
  OBVIOUS
<1>1. routes' \subseteq Route /\ tasks' \subseteq Task /\ aborted' \in Assertions \cup {"no"}
  BY DEF RemoveRoute, TypeOK, Finish, Abort, Assertions
<1> QED
  BY <1>1 DEF TypeOK, RemoveRoute, xappVars, iappVars, ricVars, nodeMaps, links, nodeVars, history

LEMMA RegisterNodeType == TypeOK /\ (\E n \in Nodes : RegisterNode(n)) => TypeOK'
<1> SUFFICES ASSUME TypeOK, NEW n \in Nodes, RegisterNode(n) PROVE TypeOK'
  OBVIOUS
<1>1. /\ addr' \subseteq Nodes /\ conn' \subseteq Nodes /\ reg' \subseteq Nodes
      /\ joining' \in [Nodes -> {"no", "address", "registry", "connected"}]
  BY DEF RegisterNode, TypeOK
<1> QED
  BY <1>1 DEF TypeOK, RegisterNode, xappVars, iappVars, ricVars, nodeVars, history

LEMMA TimerType == TypeOK /\ ((\E e \in pending : TimerExpires(e)) \/ HandleTimer) => TypeOK'
<1>1. ASSUME TypeOK, NEW e \in pending, TimerExpires(e) PROVE TypeOK'
  BY <1>1 DEF TypeOK, TimerExpires, xappVars, iappVars, ricVars, nodeMaps, links, nodeVars, history
<1>2. ASSUME TypeOK, HandleTimer PROVE TypeOK'
  <2>1. timer' \subseteq Event /\ aborted' \in Assertions \cup {"no"}
    BY <1>2 DEF HandleTimer, TypeOK, Abort, Assertions
  <2> QED
    BY <1>2, <2>1 DEF TypeOK, HandleTimer, xappVars, iappVars, ricVars, nodeMaps, links, nodeVars,
                      history
<1> QED
  BY <1>1, <1>2

LEMMA NodeShutdownType == TypeOK /\ (\E n \in Nodes : NodeShutdown(n)) => TypeOK'
<1> SUFFICES ASSUME TypeOK, NEW n \in Nodes, NodeShutdown(n) PROVE TypeOK'
  OBVIOUS
<1>1. /\ addr' = addr \/ addr' = addr \ {n}
      /\ conn' = conn \/ conn' = conn \ {n}
      /\ reg' = reg \/ reg' = reg \ {n}
      /\ \/ leaving' = leaving
         \/ \E v \in {"no", "unmapped", "disconnected"} : leaving' = [leaving EXCEPT ![n] = v]
  BY DEF NodeShutdown
<1>2. addr' \subseteq Nodes /\ conn' \subseteq Nodes /\ reg' \subseteq Nodes
  BY <1>1 DEF TypeOK
<1>3. leaving' \in [Nodes -> {"no", "queued", "unmapped", "disconnected"}]
  <2>1. leaving \in [Nodes -> {"no", "queued", "unmapped", "disconnected"}]
    BY DEF TypeOK
  <2> QED
    BY <1>1, <2>1
<1>4. aborted' \in Assertions \cup {"no"}
  BY DEF NodeShutdown, TypeOK, Abort, Assertions
<1> QED
  BY <1>2, <1>3, <1>4 DEF TypeOK, NodeShutdown, xappVars, iappVars, ricVars, nodeVars, history

LEMMA NodeJoinsType == TypeOK /\ (\E n \in Nodes : NodeJoins(n)) => TypeOK'
<1> SUFFICES ASSUME TypeOK, NEW n \in Nodes, NodeJoins(n) PROVE TypeOK'
  OBVIOUS
<1>1. /\ online' \subseteq Nodes
      /\ joining' \in [Nodes -> {"no", "address", "registry", "connected"}]
  BY DEF NodeJoins, TypeOK
<1> QED
  BY <1>1 DEF TypeOK, NodeJoins, xappVars, iappVars, ricVars, nodeMaps, history

LEMMA NewTaskType ==
    ASSUME TypeOK, NEW op \in Ops \cup {"del", "report"}, NEW m, m.id \in Nat, m.req \in Request,
           NEW step \in {"stop", "lookup"}, NewTask(op, m, step)
    PROVE  /\ tasks' \subseteq Task
           /\ \E k \in Nat : tasks' = tasks \cup {[op |-> op, id |-> m.id, no |-> k, req |-> m.req,
                                                  at |-> step, key |-> NoKey]}
<1>1. PICK k \in 1 .. MaxCopies :
         tasks' = tasks \cup {[op |-> op, id |-> m.id, no |-> k, req |-> m.req,
                               at |-> step, key |-> NoKey]}
  BY DEF NewTask
<1>2. k \in Nat /\ NoKey \in [xid: Nat, own: Nat]
  BY BoundsAssumption DEF NoKey
<1>3. [op |-> op, id |-> m.id, no |-> k, req |-> m.req, at |-> step, key |-> NoKey] \in Task
  BY <1>2 DEF Task
<1> QED
  BY <1>1, <1>2, <1>3 DEF TypeOK

\* The first message of a node that has one.
LEMMA HeadFacts ==
    ASSUME TypeOK, NEW n \in Nodes, toNode[n] # <<>>
    PROVE  /\ Head(toNode[n]) \in Message /\ Head(toNode[n]) = toNode[n][1]
           /\ Head(toNode[n]).id \in Nat /\ Head(toNode[n]).req \in Request
           /\ Head(toNode[n]).op \in Ops \cup {"del"} /\ 1 \in DOMAIN toNode[n]
           /\ Tail(toNode[n]) \in Seq(Message)
<1>1. toNode[n] \in Seq(Message)
  BY DEF TypeOK
<1>2. Head(toNode[n]) \in Message /\ Head(toNode[n]) = toNode[n][1] /\ 1 \in DOMAIN toNode[n]
      /\ Tail(toNode[n]) \in Seq(Message)
  BY <1>1
<1> QED
  BY <1>2 DEF Message

LEMMA NodeHandlesType == TypeOK /\ (\E n \in Nodes : NodeHandles(n)) => TypeOK'
<1> SUFFICES ASSUME TypeOK, NEW n \in Nodes, NodeHandles(n) PROVE TypeOK'
  OBVIOUS
<1> DEFINE m == Head(toNode[n])
<1>1. m.id \in Nat /\ m.req \in Request /\ m.op \in Ops \cup {"del"} /\ Tail(toNode[n]) \in Seq(Message)
  BY HeadFacts DEF NodeHandles
<1> HIDE DEF m
<1>2. /\ toNode' = [toNode EXCEPT ![n] = Tail(@)] /\ NewTask(m.op, m, "stop")
      /\ \/ /\ effect' = effect \cup {m.req} /\ UNCHANGED ended
            /\ \/ subs' = subs
               \/ subs' = [subs EXCEPT ![n] = @ \cup {[id |-> m.id, req |-> m.req]}]
         \/ /\ UNCHANGED effect
            /\ ended' = ended \cup {s.req : s \in {s \in subs[n] : s.id = m.id}}
            /\ subs' = [subs EXCEPT ![n] = {s \in @ : s.id # m.id}]
  BY DEF NodeHandles, m
<1>3. toNode' \in [Nodes -> Seq(Message)]
  BY <1>1, <1>2 DEF TypeOK
<1>4. subs' \in [Nodes -> SUBSET [id: Nat, req: Request]]
  <2>1. subs \in [Nodes -> SUBSET [id: Nat, req: Request]]
        /\ [id |-> m.id, req |-> m.req] \in [id: Nat, req: Request]
    BY <1>1 DEF TypeOK
  <2>2. \/ subs' = subs
        \/ subs' = [subs EXCEPT ![n] = subs[n] \cup {[id |-> m.id, req |-> m.req]}]
        \/ subs' = [subs EXCEPT ![n] = {s \in subs[n] : s.id # m.id}]
    BY <1>2
  <2> QED
    BY <2>1, <2>2
<1>5. effect' \subseteq Request /\ ended' \subseteq Request
  BY <1>1, <1>2 DEF TypeOK
<1>6. tasks' \subseteq Task
  BY <1>1, <1>2, NewTaskType
<1> QED
  BY <1>3, <1>4, <1>5, <1>6 DEF TypeOK, NodeHandles, xappVars, iappVars, ricVars, nodeMaps, links

LEMMA NodeReportsType == TypeOK /\ (\E n \in Nodes : NodeReports(n)) => TypeOK'
<1> SUFFICES ASSUME TypeOK, NEW n \in Nodes, NodeReports(n) PROVE TypeOK'
  OBVIOUS
<1>1. PICK s \in subs[n] : NewTask("report", s, "lookup")
  BY DEF NodeReports
<1>2. s.id \in Nat /\ s.req \in Request
  BY <1>1 DEF TypeOK
<1>3. tasks' \subseteq Task
  BY <1>1, <1>2, NewTaskType
<1>4. reports' \in Nat
  BY DEF NodeReports, TypeOK
<1> QED
  BY <1>3, <1>4 DEF TypeOK, NodeReports, xappVars, iappVars, ricVars, nodeMaps, links, history

LEMMA NodeLeavesType == TypeOK /\ (\E n \in Nodes : NodeLeaves(n)) => TypeOK'
<1> SUFFICES ASSUME TypeOK, NEW n \in Nodes, NodeLeaves(n) PROVE TypeOK'
  OBVIOUS
<1>1. /\ online' \subseteq Nodes /\ departures' \in Nat
      /\ leaving' \in [Nodes -> {"no", "queued", "unmapped", "disconnected"}]
  BY DEF NodeLeaves, TypeOK
<1>2. /\ toNode' \in [Nodes -> Seq(Message)]
      /\ subs' \in [Nodes -> SUBSET [id: Nat, req: Request]]
      /\ ended' \subseteq Request
  BY DEF NodeLeaves, TypeOK
<1> QED
  BY <1>1, <1>2 DEF TypeOK, NodeLeaves, xappVars, iappVars, ricVars, nodeMaps

LEMMA TypeInduction == TypeOK /\ [Next]_vars => TypeOK'
<1> SUFFICES ASSUME TypeOK, [Next]_vars PROVE TypeOK'
  OBVIOUS
<1>1. CASE UNCHANGED vars
  BY <1>1 DEF TypeOK, vars, xappVars, iappVars, ricVars, nodeMaps, links, nodeVars, history
<1> QED
  BY <1>1, SetupType, RequestArrivesType, ForwardType, AddRouteType, DeleteArrivesType,
     XappDisconnectedType, ForwardDeleteType, XappLeavesType, StopPendingType, RouteAnswerType,
     RemoveRouteType, RegisterNodeType, TimerType, NodeShutdownType, NodeJoinsType,
     NodeHandlesType, NodeReportsType, NodeLeavesType DEF Next

\* The variables of the RIC keep their types; the request identifier stays below
\* IdSpace, although it wraps.
THEOREM TypeCorrect == Spec => []TypeOK
  BY InitType, TypeInduction, PTL DEF Spec

-----------------------------------------------------------------------------
(* The elements of the maps and of the queues.                              *)

LEMMA RequestFacts ==
    ASSUME NEW r \in Request
    PROVE  /\ r.xapp \in XApps /\ r.own \in OwnIds /\ r.op \in Ops /\ r.node \in Nodes
           /\ r = [xapp |-> r.xapp, own |-> r.own, op |-> r.op, node |-> r.node]
  BY DEF Request

LEMMA MessageFacts ==
    ASSUME TypeOK, NEW n \in Nodes, NEW k \in DOMAIN toNode[n]
    PROVE  /\ toNode[n][k].id \in Nat /\ toNode[n][k].req \in Request
           /\ toNode[n][k].op \in Ops \cup {"del"}
<1>1. toNode[n] \in Seq(Message)
  BY DEF TypeOK
<1>2. toNode[n][k] \in Message
  BY <1>1
<1> QED
  BY <1>2 DEF Message

LEMMA TodoFacts ==
    ASSUME TypeOK, NEW p \in todo
    PROVE  p.id \in Nat /\ p.xid \in Nat /\ p.req \in Request /\ p.req.node \in Nodes
           /\ p.req.xapp \in XApps /\ p.req.op \in Ops
  BY DEF TypeOK, Route, Request

LEMMA SubFacts ==
    ASSUME TypeOK, NEW n \in Nodes, NEW s \in subs[n]
    PROVE  s.id \in Nat /\ s.req \in Request /\ s = [id |-> s.id, req |-> s.req]
  BY DEF TypeOK

LEMMA JobFacts ==
    ASSUME TypeOK
    PROVE  job.id \in Nat /\ job.xid \in Nat /\ job.req \in Request
  BY DEF TypeOK

\* What is sent is the last message of its node.
LEMMA SendFacts ==
    ASSUME TypeOK, NEW n \in Nodes, NEW m \in Message, Send(n, m)
    PROVE  \A l \in Nodes : \A k \in DOMAIN toNode'[l] :
              \/ k \in DOMAIN toNode[l] /\ toNode'[l][k] = toNode[l][k]
              \/ l = n /\ k \notin DOMAIN toNode[l] /\ k = Len(toNode[n]) + 1 /\ toNode'[l][k] = m
<1>1. toNode \in [Nodes -> Seq(Message)]
  BY DEF TypeOK
<1>2. CASE toNode' = toNode
  BY <1>2
<1>3. CASE toNode' = [toNode EXCEPT ![n] = Append(toNode[n], m)]
  <2> SUFFICES ASSUME NEW l \in Nodes, NEW k \in DOMAIN toNode'[l]
               PROVE  \/ k \in DOMAIN toNode[l] /\ toNode'[l][k] = toNode[l][k]
                      \/ l = n /\ k \notin DOMAIN toNode[l] /\ k = Len(toNode[n]) + 1 /\ toNode'[l][k] = m
    OBVIOUS
  <2>1. CASE l # n
    BY <1>1, <1>3, <2>1
  <2>2. CASE l = n
    <3>1. toNode[n] \in Seq(Message) /\ toNode'[n] = Append(toNode[n], m)
      BY <1>1, <1>3
    <3>2. k \in 1 .. Len(toNode[n]) + 1 /\ DOMAIN toNode[n] = 1 .. Len(toNode[n]) /\ Len(toNode[n]) \in Nat
      BY <2>2, <3>1
    <3>3. CASE k \in 1 .. Len(toNode[n])
      BY <2>2, <3>1, <3>2, <3>3
    <3>4. CASE k = Len(toNode[n]) + 1
      BY <2>2, <3>1, <3>2, <3>4
    <3> QED
      BY <3>2, <3>3, <3>4
  <2> QED
    BY <2>1, <2>2
<1> QED
  BY <1>2, <1>3 DEF Send

LEMMA TailSequence ==
    ASSUME NEW s \in Seq(Message), s # <<>>
    PROVE  \A j \in DOMAIN Tail(s) : /\ j \in Nat /\ j + 1 \in DOMAIN s /\ j + 1 # 1
                                    /\ Tail(s)[j] = s[j + 1]
  OBVIOUS

\* A message that was handled is taken from its queue.
LEMMA TailFacts ==
    ASSUME TypeOK, NEW n \in Nodes, toNode[n] # <<>>, toNode' = [toNode EXCEPT ![n] = Tail(@)],
           NEW l \in Nodes, NEW k \in DOMAIN toNode'[l]
    PROVE  /\ l = n => /\ k + 1 \in DOMAIN toNode[l] /\ k + 1 # 1 /\ k \in Nat
                       /\ toNode'[l][k] = toNode[l][k + 1]
           /\ l # n => k \in DOMAIN toNode[l] /\ toNode'[l][k] = toNode[l][k]
<1>1. toNode \in [Nodes -> Seq(Message)]
  BY DEF TypeOK
<1>2. CASE l # n
  BY <1>1, <1>2
<1>3. CASE l = n
  <2>1. toNode[n] \in Seq(Message) /\ toNode'[n] = Tail(toNode[n])
    BY <1>1
  <2>2. \A j \in DOMAIN Tail(toNode[n]) : /\ j \in Nat /\ j + 1 \in DOMAIN toNode[n] /\ j + 1 # 1
                                         /\ Tail(toNode[n])[j] = toNode[n][j + 1]
    BY <2>1, TailSequence
  <2>3. k \in DOMAIN Tail(toNode[n])
    BY <1>3, <2>1
  <2> QED
    BY <1>3, <2>1, <2>2, <2>3, Zenon
<1> QED
  BY <1>2, <1>3

=============================================================================
