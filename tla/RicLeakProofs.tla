---------------------------- MODULE RicLeakProofs ----------------------------
(***************************************************************************)
(* The near-RT RIC leaks neither pending events nor routes while no E2     *)
(* node shuts down.  On top of the invariant of RicServiceProofs: every    *)
(* pending event has the answer that will stop it (AwaitedInv), every      *)
(* route a request, a subscription or a last answer that needs it          *)
(* (NeededInv), and every subscription a route (ServedInv).  A route is    *)
(* removed after the answer to a delete; that nothing is then left which   *)
(* needs it is due to the order of a node's queue (OrderInv, DelInv).      *)
(***************************************************************************)
EXTENDS RicServiceProofs

-----------------------------------------------------------------------------
(* The inductive invariant.                                                 *)

\* In the queue of a node a subscription stands before its delete.
OrderInv ==
    \A n \in Nodes : \A j, k \in DOMAIN toNode[n] :
        toNode[n][j].op = "sub" /\ toNode[n][k].op = "del" /\ toNode[n][j].id = toNode[n][k].id => j < k

\* When a delete is answered, its subscription is neither to come nor served.
DelInv ==
    \A t \in tasks : t.op = "del" =>
        /\ \A m \in Flying : ~(m.op = "sub" /\ m.id = t.id)
        /\ \A s \in Served : s.id # t.id

\* While no node has shut down, what is sent arrives: the nodes with an address are
\* connected.
LinkInv == addr \subseteq online /\ \A n \in Nodes : joining[n] # "no" => n \in online

\* The answer that will stop a pending event.
Stops(h, e) == h.op = e.ev /\ h.id = e.id

AwaitedInv ==
    \A e \in pending : \/ \E m \in Flying : Stops(m, e)
                       \/ \E t \in tasks : t.at = "stop" /\ Stops(t, e)

\* What the route of an identifier is for: a request that is on its way, a subscription that is served,
\* or a last answer, which will remove it.
Needed(i) ==
    \/ \E m \in Flying : m.op \in Ops /\ m.id = i
    \/ \E s \in Served : s.id = i
    \/ \E t \in tasks : t.op \in LastAnswers /\ t.id = i

NeededInv == \A p \in routes \cup Forwarded : Needed(p.id)

\* A subscription that is to come or served has a route.
HasOrGets(r) == HasRoute(r) \/ (iapp = "route" /\ job.req = r)

ServedInv ==
    /\ \A s \in Served : HasOrGets(s.req)
    /\ \A m \in Flying : m.op = "sub" => HasOrGets(m.req)

LeakInv ==
    Running /\ departures = 0 => LinkInv /\ AwaitedInv /\ NeededInv /\ ServedInv

LInv == OrderInv /\ DelInv /\ LeakInv

-----------------------------------------------------------------------------
(* The queues.                                                              *)

\* What is sent to a connected node is on its way.
LEMMA SendArrives ==
    ASSUME TypeOK, NEW n \in Nodes, NEW m \in Message, Send(n, m)
    PROVE  Flying \subseteq Flying' /\ (n \in online => m \in Flying')
<1>1. toNode \in [Nodes -> Seq(Message)]
  BY DEF TypeOK
<1>2. CASE n \notin online
  BY <1>2 DEF Send, Flying
<1>3. CASE n \in online
  <2>1. toNode' = [toNode EXCEPT ![n] = Append(@, m)]
    BY <1>3 DEF Send
  <2>2. toNode'[n] = Append(toNode[n], m) /\ toNode[n] \in Seq(Message)
    BY <1>1, <2>1
  <2>3. /\ Len(toNode[n]) + 1 \in DOMAIN toNode'[n] /\ toNode'[n][Len(toNode[n]) + 1] = m
        /\ \A k \in DOMAIN toNode[n] : k \in DOMAIN toNode'[n] /\ toNode'[n][k] = toNode[n][k]
    BY <2>2
  <2>4. \A l \in Nodes : l # n => toNode'[l] = toNode[l]
    BY <1>1, <2>1
  <2>5. \A l \in Nodes : \A k \in DOMAIN toNode[l] :
           k \in DOMAIN toNode'[l] /\ toNode'[l][k] = toNode[l][k]
    BY <2>3, <2>4
  <2> QED
    BY <2>3, <2>5 DEF Flying
<1> QED
  BY <1>2, <1>3

\* What is sent stands behind what was sent before.
LEMMA OrderSend ==
    ASSUME TypeOK, OrderInv, NEW n \in Nodes, NEW m \in Message, Send(n, m),
           m.op = "sub" => \A h \in Flying : ~(h.op = "del" /\ h.id = m.id)
    PROVE  OrderInv'
<1> SUFFICES ASSUME NEW l \in Nodes, NEW j \in DOMAIN toNode'[l], NEW k \in DOMAIN toNode'[l],
                    toNode'[l][j].op = "sub", toNode'[l][k].op = "del",
                    toNode'[l][j].id = toNode'[l][k].id
             PROVE  j < k
  BY DEF OrderInv
<1>1. \A i \in DOMAIN toNode'[l] :
         \/ i \in DOMAIN toNode[l] /\ toNode'[l][i] = toNode[l][i]
         \/ l = n /\ i \notin DOMAIN toNode[l] /\ i = Len(toNode[n]) + 1 /\ toNode'[l][i] = m
  BY SendFacts
<1>2. toNode[l] \in Seq(Message)
  BY DEF TypeOK
<1>3. CASE j \in DOMAIN toNode[l] /\ toNode'[l][j] = toNode[l][j]
  <2>1. CASE k \in DOMAIN toNode[l] /\ toNode'[l][k] = toNode[l][k]
    BY <1>3, <2>1 DEF OrderInv
  <2>2. CASE l = n /\ k = Len(toNode[n]) + 1
    BY <1>2, <1>3, <2>2
  <2> QED
    BY <1>1, <2>1, <2>2
<1>4. CASE l = n /\ j \notin DOMAIN toNode[l] /\ j = Len(toNode[n]) + 1 /\ toNode'[l][j] = m
  <2>1. k \in DOMAIN toNode[l] => toNode[l][k] \in Flying
    BY DEF Flying
  <2>2. ~(k \in DOMAIN toNode[l] /\ toNode'[l][k] = toNode[l][k])
    BY <1>4, <2>1
  <2>3. toNode'[l][k] = m
    BY <1>1, <2>2
  <2> QED
    BY <1>4, <2>3
<1> QED
  BY <1>1, <1>3, <1>4

LEMMA TailHolds ==
    ASSUME NEW s \in Seq(Message), NEW k \in DOMAIN s, k # 1
    PROVE  k - 1 \in DOMAIN Tail(s) /\ Tail(s)[k - 1] = s[k]
  OBVIOUS

\* A node that handles a message leaves the others on their way and in their order.
LEMMA OrderHandled ==
    ASSUME TypeOK, QueueInv, OrderInv, NEW n \in Nodes, toNode[n] # <<>>,
           toNode' = [toNode EXCEPT ![n] = Tail(@)]
    PROVE  /\ OrderInv'
           /\ Flying \subseteq Flying' \cup {Head(toNode[n])}
           /\ Head(toNode[n]).op = "del" =>
                 \A h \in Flying' : h.req.node = n => ~(h.op = "sub" /\ h.id = Head(toNode[n]).id)
<1> DEFINE m == Head(toNode[n])
<1>1. m = toNode[n][1] /\ 1 \in DOMAIN toNode[n] /\ toNode \in [Nodes -> Seq(Message)]
  BY HeadFacts DEF TypeOK
<1>2. OrderInv'
  <2> SUFFICES ASSUME NEW l \in Nodes, NEW j \in DOMAIN toNode'[l], NEW k \in DOMAIN toNode'[l],
                      toNode'[l][j].op = "sub", toNode'[l][k].op = "del",
                      toNode'[l][j].id = toNode'[l][k].id
               PROVE  j < k
    BY DEF OrderInv
  <2>1. CASE l = n
    <3>1. \A i \in DOMAIN toNode'[l] : l = n => /\ i + 1 \in DOMAIN toNode[l] /\ i + 1 # 1 /\ i \in Nat
                                               /\ toNode'[l][i] = toNode[l][i + 1]
      BY TailFacts, Zenon
    <3>2. j + 1 < k + 1
      BY <2>1, <3>1 DEF OrderInv
    <3> QED
      BY <2>1, <3>1, <3>2
  <2>2. CASE l # n
    <3>1. /\ j \in DOMAIN toNode[l] /\ toNode'[l][j] = toNode[l][j]
          /\ k \in DOMAIN toNode[l] /\ toNode'[l][k] = toNode[l][k]
      BY <2>2, TailFacts
    <3> QED
      BY <3>1 DEF OrderInv
  <2> QED
    BY <2>1, <2>2
<1>3. Flying \subseteq Flying' \cup {m}
  <2> SUFFICES ASSUME NEW h \in Flying PROVE h \in Flying' \cup {m}
    OBVIOUS
  <2>1. PICK l \in Nodes : \E k \in DOMAIN toNode[l] : h = toNode[l][k]
    BY DEF Flying
  <2>2. PICK k \in DOMAIN toNode[l] : h = toNode[l][k]
    BY <2>1
  <2>3. CASE l # n
    <3>1. toNode'[l] = toNode[l]
      BY <1>1, <2>3
    <3>2. k \in DOMAIN toNode'[l] /\ h = toNode'[l][k]
      BY <2>2, <3>1
    <3> QED
      BY <3>2 DEF Flying
  <2>4. CASE l = n /\ k # 1
    <3>1. toNode'[n] = Tail(toNode[n]) /\ toNode[n] \in Seq(Message)
      BY <1>1
    <3>2. k - 1 \in DOMAIN toNode'[n] /\ toNode'[n][k - 1] = toNode[n][k]
      BY <2>4, <3>1, TailHolds
    <3> QED
      BY <2>2, <2>4, <3>2 DEF Flying
  <2> QED
    BY <1>1, <2>2, <2>3, <2>4
<1>4. ASSUME m.op = "del", NEW h \in Flying', h.req.node = n, h.op = "sub", h.id = m.id
      PROVE  FALSE
  <2>1. PICK l \in Nodes : \E k \in DOMAIN toNode'[l] : h = toNode'[l][k]
    BY DEF Flying
  <2>2. PICK k \in DOMAIN toNode'[l] : h = toNode'[l][k]
    BY <2>1
  <2>3. QueueInv'
    BY FlyingHandled
  <2>4. l = n
    BY <1>4, <2>2, <2>3 DEF QueueInv
  <2>5. k + 1 \in DOMAIN toNode[n] /\ k \in Nat /\ h = toNode[n][k + 1]
    <3>1. l = n => /\ k + 1 \in DOMAIN toNode[l] /\ k + 1 # 1 /\ k \in Nat
                   /\ toNode'[l][k] = toNode[l][k + 1]
      BY TailFacts, Zenon
    <3> QED
      BY <2>2, <2>4, <3>1
  <2>6. k + 1 < 1
    BY <1>1, <1>4, <2>5 DEF OrderInv
  <2> QED
    BY <2>5, <2>6
<1> QED
  BY <1>2, <1>3, <1>4

\* The deletes that are answered stay the same, or fewer.
LEMMA DelStep ==
    ASSUME DelInv, Flying' \subseteq Flying, Served' \subseteq Served,
           \A t \in tasks' : t.op = "del" => \E u \in tasks : u.op = "del" /\ u.id = t.id
    PROVE  DelInv'
  BY DEF DelInv

\* The steps that change nothing that the invariant is about.
LEMMA LeakFrame ==
    ASSUME LInv, UNCHANGED <<routes, pending, tasks, toNode, subs>>,
           iapp' = "route" <=> iapp = "route", iapp = "route" => job' = job,
           Running' /\ departures' = 0 => Running /\ departures = 0 /\ (LinkInv => LinkInv')
    PROVE  LInv'
<1>1. Flying' = Flying /\ Served' = Served /\ Forwarded' = Forwarded
  BY DEF Flying, Served, Forwarded
<1>2. OrderInv' /\ DelInv'
  BY <1>1 DEF LInv, OrderInv, DelInv
<1>3. ASSUME Running', departures' = 0
      PROVE  LinkInv' /\ AwaitedInv' /\ NeededInv' /\ ServedInv'
  <2>1. LinkInv' /\ AwaitedInv /\ NeededInv /\ ServedInv
    BY <1>3 DEF LInv, LeakInv
  <2>2. AwaitedInv'
    BY <1>1, <2>1 DEF AwaitedInv, Stops
  <2>3. NeededInv'
    BY <1>1, <2>1 DEF NeededInv, Needed, LastAnswers
  <2>4. ServedInv'
    BY <1>1, <2>1 DEF ServedInv, HasOrGets, HasRoute
  <2> QED
    BY <2>1, <2>2, <2>3, <2>4
<1> QED
  BY <1>2, <1>3 DEF LInv, LeakInv

LEMMA QuietLeak ==
    ASSUME IInv, LInv,
           \/ UNCHANGED vars
           \/ \E x \in XApps : Setup(x)
           \/ \E x \in XApps : \E o \in Own[x], op \in Ops, n \in Nodes : RequestArrives(x, o, op, n)
           \/ \E x \in XApps : \E o \in Own[x] : DeleteArrives(x, o)
           \/ \E x \in XApps : XappDisconnected(x)
           \/ \E x \in XApps : XappLeaves(x)
           \/ \E e \in pending : TimerExpires(e)
           \/ HandleTimer
           \/ \E n \in Nodes : NodeShutdown(n)
           \/ \E n \in Nodes : NodeJoins(n)
           \/ \E n \in Nodes : RegisterNode(n)
    PROVE  LInv'
<1>1. CASE UNCHANGED vars
  BY <1>1, LeakFrame DEF vars, iappVars, ricVars, nodeMaps, links, nodeVars, LinkInv, Running
<1>2. CASE \/ \E x \in XApps : Setup(x)
           \/ \E x \in XApps : XappLeaves(x)
           \/ \E e \in pending : TimerExpires(e)
           \/ HandleTimer
  <2>1. /\ UNCHANGED <<routes, pending, tasks, toNode, subs, addr, online, joining, departures>>
        /\ iapp' = iapp /\ job' = job /\ Running
    BY <1>2 DEF Setup, XappLeaves, TimerExpires, HandleTimer, IappIdle, iappVars, ricVars, nodeMaps,
                links, nodeVars
  <2> QED
    BY <2>1, LeakFrame DEF LinkInv
<1>3. CASE \/ \E x \in XApps : \E o \in Own[x], op \in Ops, n \in Nodes : RequestArrives(x, o, op, n)
           \/ \E x \in XApps : \E o \in Own[x] : DeleteArrives(x, o)
           \/ \E x \in XApps : XappDisconnected(x)
  <2>1. UNCHANGED <<routes, pending, tasks, toNode, subs, addr, online, joining, departures>>
    BY <1>3 DEF RequestArrives, DeleteArrives, XappDisconnected, ricVars, nodeMaps, links, nodeVars
  <2>2. Running /\ iapp # "route" /\ iapp' # "route"
    BY <1>3 DEF RequestArrives, DeleteArrives, XappDisconnected, IappIdle
  <2> QED
    BY <2>1, <2>2, LeakFrame DEF LinkInv
<1>4. ASSUME NEW n \in Nodes, NodeShutdown(n)
      PROVE  LInv'
  <2>1. departures # 0 /\ departures' = departures
    BY <1>4 DEF NodeShutdown, IInv, NodeInv
  <2> QED
    BY <1>4, <2>1, LeakFrame DEF NodeShutdown, iappVars, ricVars, nodeVars
<1>5. ASSUME NEW n \in Nodes, NodeJoins(n)
      PROVE  LInv'
  <2>1. /\ online' = online \cup {n} /\ joining' = [joining EXCEPT ![n] = "address"] /\ addr' = addr
        /\ joining \in [Nodes -> {"no", "address", "registry", "connected"}]
    BY <1>5 DEF NodeJoins, nodeMaps, IInv, TypeOK
  <2>2. LinkInv => LinkInv'
    BY <2>1 DEF LinkInv
  <2> QED
    BY <1>5, <2>2, LeakFrame DEF NodeJoins, iappVars, ricVars, Running
<1>6. ASSUME NEW n \in Nodes, RegisterNode(n)
      PROVE  LInv'
  <2>1. /\ joining[n] # "no" /\ online' = online /\ addr' \subseteq addr \cup {n}
        /\ \A l \in Nodes : l # n => joining'[l] = joining[l]
    BY <1>6 DEF RegisterNode, nodeVars, IInv, TypeOK
  <2>2. LinkInv => LinkInv'
    BY <2>1 DEF LinkInv
  <2> QED
    BY <1>6, <2>2, LeakFrame DEF RegisterNode, iappVars, ricVars, nodeVars, Running
<1> QED
  BY <1>1, <1>2, <1>3, <1>4, <1>5, <1>6

-----------------------------------------------------------------------------
(* The steps of the iApp.                                                   *)

LEMMA ForwardLeak ==
    ASSUME IInv, LInv, Forward
    PROVE  LInv'
<1> DEFINE r == job.req
           m == [op |-> r.op, id |-> req_id, req |-> r]
<1>1. TypeOK /\ CoreInv /\ r \in Request /\ r.node \in Nodes /\ r.op \in Ops /\ req_id \in Nat
  <2>1. TypeOK /\ CoreInv
    BY DEF IInv
  <2>2. req_id \in Nat
    BY <2>1 DEF TypeOK
  <2> QED
    BY <2>1, <2>2, JobFacts, RequestFacts
<1>2. m \in Message
  BY <1>1 DEF Message
<1>3. /\ Running /\ iapp = "forward" /\ job' = [job EXCEPT !.id = req_id]
      /\ pending' = pending \cup {[ev |-> r.op, id |-> req_id]}
      /\ UNCHANGED <<routes, tasks, subs, addr, online, joining, departures>>
      /\ req_id' = NextReqId /\ NextReqId # FirstReqId
  BY DEF Forward, nodeMaps, links
<1>4. ~Given(req_id)
  BY <1>1, <1>3, GivenNext
<1>5. \A h \in Holders : h.id # req_id
  BY <1>1, <1>4 DEF CoreInv, BindInv
<1>6. CASE aborted' # "no" /\ toNode' = toNode
  <2>1. Flying' = Flying /\ Served' = Served
    BY <1>3, <1>6 DEF Flying, Served
  <2>2. OrderInv' /\ DelInv'
    BY <1>3, <1>6, <2>1 DEF LInv, OrderInv, DelInv
  <2> QED
    BY <1>6, <2>2 DEF LInv, LeakInv, Running
<1>7. CASE r.node \in addr /\ Send(r.node, m) /\ iapp' = "route"
  <2>1. m.op = r.op /\ m.id = req_id /\ m.req = r
    OBVIOUS
  <2>2. job \in [req: Request, xid: Nat, id: Nat]
    BY <1>1 DEF TypeOK
  <2>3. job'.id = req_id /\ job'.req = r
    BY <1>3, <2>2
  <2>4. Served' = Served /\ Flying \subseteq Holders /\ tasks \subseteq Holders
    BY <1>3 DEF Served, Holders
  <2> HIDE DEF m
  <2>5. Flying' \subseteq Flying \cup {m}
    BY <1>1, <1>2, <1>7, FlyingSend
  <2>6. Flying \subseteq Flying' /\ (r.node \in online => m \in Flying')
    BY <1>1, <1>2, <1>7, SendArrives
  <2>7. OrderInv'
    BY <1>1, <1>2, <1>5, <1>7, <2>1, <2>4, OrderSend DEF LInv
  <2>8. DelInv'
    BY <1>3, <1>5, <2>1, <2>4, <2>5 DEF LInv, DelInv
  <2>9. ASSUME departures = 0
        PROVE  LinkInv' /\ AwaitedInv' /\ NeededInv' /\ ServedInv'
    <3>1. LinkInv /\ AwaitedInv /\ NeededInv /\ ServedInv
      BY <1>3, <2>9 DEF LInv, LeakInv
    <3>2. m \in Flying' /\ LinkInv'
      BY <1>3, <1>7, <2>6, <3>1 DEF LinkInv
    <3>3. AwaitedInv'
      <4>1. \A e \in pending : \/ \E h \in Flying' : Stops(h, e)
                               \/ \E t \in tasks' : t.at = "stop" /\ Stops(t, e)
        BY <1>3, <2>6, <3>1 DEF AwaitedInv
      <4>2. Stops(m, [ev |-> r.op, id |-> req_id])
        BY <2>1 DEF Stops
      <4> QED
        BY <1>3, <3>2, <4>1, <4>2 DEF AwaitedInv, Stops
    <3>4. NeededInv'
      <4>1. \A i : Needed(i) => Needed(i)'
        BY <1>3, <2>4, <2>6 DEF Needed, LastAnswers
      <4>2. \A i : i = req_id => Needed(i)'
        BY <1>1, <2>1, <3>2 DEF Needed
      <4>3. Forwarded' = {job'}
        BY <1>7 DEF Forwarded
      <4> QED
        BY <1>3, <2>3, <3>1, <4>1, <4>2, <4>3 DEF NeededInv
    <3>5. ServedInv'
      <4>1. \A q : HasOrGets(q) => HasOrGets(q)'
        BY <1>3 DEF HasOrGets, HasRoute
      <4>2. \A q : q = r => HasOrGets(q)'
        BY <1>7, <2>3 DEF HasOrGets
      <4> QED
        BY <2>1, <2>4, <2>5, <3>1, <4>1, <4>2 DEF ServedInv
    <3> QED
      BY <3>1, <3>2, <3>3, <3>4, <3>5
  <2> QED
    BY <1>3, <2>7, <2>8, <2>9 DEF LInv, LeakInv
<1> QED
  BY <1>6, <1>7 DEF Forward, Abort

LEMMA AddRouteLeak ==
    ASSUME IInv, LInv, AddRoute
    PROVE  LInv'
<1>1. /\ Running /\ iapp = "route"
      /\ UNCHANGED <<pending, tasks, toNode, subs, addr, online, joining, departures>>
  BY DEF AddRoute, ricVars, nodeMaps, links, nodeVars
<1>2. Flying' = Flying /\ Served' = Served
  BY <1>1 DEF Flying, Served
<1>3. OrderInv' /\ DelInv'
  BY <1>1, <1>2 DEF LInv, OrderInv, DelInv
<1>4. CASE aborted' # "no"
  BY <1>3, <1>4 DEF LInv, LeakInv, Running
<1>5. ASSUME routes' = routes \cup {[id |-> job.id, xid |-> job.xid, req |-> job.req]},
             iapp' = "idle", departures = 0
      PROVE  LinkInv' /\ AwaitedInv' /\ NeededInv' /\ ServedInv'
  <2>1. LinkInv /\ AwaitedInv /\ NeededInv /\ ServedInv /\ job \in Forwarded
    BY <1>1, <1>5 DEF LInv, LeakInv, Forwarded
  <2>2. LinkInv' /\ AwaitedInv'
    BY <1>1, <1>2, <2>1 DEF LinkInv, AwaitedInv
  <2>3. NeededInv'
    <3>1. Forwarded' = {}
      BY <1>5 DEF Forwarded
    <3>2. \A i : Needed(i) => Needed(i)'
      BY <1>1, <1>2 DEF Needed, LastAnswers
    <3> QED
      BY <1>5, <2>1, <3>1, <3>2 DEF NeededInv
  <2>4. \A r : HasOrGets(r) => HasOrGets(r)'
    <3> SUFFICES ASSUME NEW r, HasOrGets(r) PROVE HasRoute(r)'
      BY DEF HasOrGets
    <3>1. CASE HasRoute(r)
      BY <1>5, <3>1 DEF HasRoute
    <3>2. CASE job.req = r
      <4> DEFINE q == [id |-> job.id, xid |-> job.xid, req |-> job.req]
      <4>1. q.req = r /\ routes' = routes \cup {q}
        BY <1>5, <3>2
      <4> HIDE DEF q
      <4> QED
        BY <4>1 DEF HasRoute
    <3> QED
      BY <3>1, <3>2 DEF HasOrGets
  <2>5. ServedInv'
    BY <1>2, <2>1, <2>4 DEF ServedInv
  <2> QED
    BY <2>2, <2>3, <2>5
<1>6. CASE routes' = routes \cup {[id |-> job.id, xid |-> job.xid, req |-> job.req]} /\ iapp' = "idle"
  BY <1>1, <1>3, <1>5, <1>6 DEF LInv, LeakInv
<1> QED
  BY <1>4, <1>6 DEF AddRoute, Abort

\* A delete that is not sent is pending already, or ends the RIC.
LEMMA DeleteUnsentLeak ==
    ASSUME LInv, NEW p \in todo, ForwardDelete(p), toNode' = toNode,
           pending' = pending \/ aborted' # "no"
    PROVE  LInv'
<1>1. /\ UNCHANGED <<routes, tasks, subs, addr, online, joining, departures>>
      /\ Running /\ iapp # "route" /\ iapp' # "route"
  BY DEF ForwardDelete, nodeMaps, links
<1>2. CASE pending' = pending
  BY <1>1, <1>2, LeakFrame DEF LinkInv
<1>3. CASE aborted' # "no"
  <2>1. Flying' = Flying /\ Served' = Served
    BY <1>1 DEF Flying, Served
  <2>2. OrderInv' /\ DelInv'
    BY <1>1, <2>1 DEF LInv, OrderInv, DelInv
  <2> QED
    BY <1>3, <2>2 DEF LInv, LeakInv, Running
<1> QED
  BY <1>2, <1>3

LEMMA ForwardDeleteLeak ==
    ASSUME IInv, LInv, NEW p \in todo, ForwardDelete(p)
    PROVE  LInv'
<1> DEFINE m == [op |-> "del", id |-> p.id, req |-> p.req]
<1>1. TypeOK /\ p.id \in Nat /\ p.req \in Request /\ p.req.node \in Nodes
  BY TodoFacts DEF IInv
<1>2. m \in Message /\ m.op = "del" /\ m.id = p.id
  BY <1>1 DEF Message
<1>3. /\ UNCHANGED <<routes, tasks, subs, addr, online, joining, departures>>
      /\ Running /\ iapp # "route" /\ iapp' # "route"
  BY DEF ForwardDelete, nodeMaps, links
<1>4. CASE /\ p.req.node \in addr /\ Send(p.req.node, m)
           /\ pending' = pending \cup {[ev |-> "del", id |-> p.id]}
  <2> HIDE DEF m
  <2>1. Served' = Served /\ Forwarded' = {} /\ Forwarded = {}
    BY <1>3 DEF Served, Forwarded
  <2>2. Flying' \subseteq Flying \cup {m} /\ Flying \subseteq Flying'
    BY <1>1, <1>2, <1>4, FlyingSend, SendArrives
  <2>3. OrderInv'
    BY <1>1, <1>2, <1>4, OrderSend DEF LInv
  <2>4. DelInv'
    BY <1>2, <1>3, <2>1, <2>2 DEF LInv, DelInv
  <2>5. ASSUME departures = 0
        PROVE  LinkInv' /\ AwaitedInv' /\ NeededInv' /\ ServedInv'
    <3>1. LinkInv /\ AwaitedInv /\ NeededInv /\ ServedInv
      BY <1>3, <2>5 DEF LInv, LeakInv
    <3>2. m \in Flying'
      BY <1>1, <1>2, <1>4, <3>1, SendArrives DEF LinkInv
    <3>3. LinkInv'
      BY <1>3, <3>1 DEF LinkInv
    <3>4. AwaitedInv'
      BY <1>2, <1>3, <1>4, <2>2, <3>1, <3>2 DEF AwaitedInv, Stops
    <3>5. NeededInv'
      BY <1>3, <2>1, <2>2, <3>1 DEF NeededInv, Needed, LastAnswers
    <3>6. ServedInv'
      BY <1>2, <1>3, <2>1, <2>2, <3>1 DEF ServedInv, HasOrGets, HasRoute
    <3> QED
      BY <3>3, <3>4, <3>5, <3>6
  <2> QED
    BY <1>3, <2>3, <2>4, <2>5 DEF LInv, LeakInv
<1>5. CASE toNode' = toNode /\ (pending' = pending \/ aborted' # "no")
  BY <1>5, DeleteUnsentLeak
<1> QED
  BY <1>4, <1>5 DEF ForwardDelete, Abort

-----------------------------------------------------------------------------
(* The steps of the workers.                                                *)

LEMMA StopPendingLeak ==
    ASSUME IInv, LInv, NEW t \in tasks, StopPending(t)
    PROVE  LInv'
<1> DEFINE u == [t EXCEPT !.at = "lookup"]
           e == [ev |-> t.op, id |-> t.id]
<1>1. TypeOK /\ CoreInv
  BY DEF IInv
<1>2. /\ t.at = "stop" /\ UNCHANGED aborted /\ tasks' = (tasks \ {t}) \cup {u}
      /\ pending' = pending \ {e}
  BY <1>1, StopPendingFinds
<1>3. /\ Running /\ UNCHANGED <<iapp, job, routes, toNode, subs, addr, online, joining, departures>>
  BY DEF StopPending, iappVars, nodeMaps, links, nodeVars
<1>4. u.op = t.op /\ u.id = t.id
  BY <1>1, MovedTask
<1> HIDE DEF u
<1>5. Flying' = Flying /\ Served' = Served /\ Forwarded' = Forwarded
  BY <1>3 DEF Flying, Served, Forwarded
<1>6. OrderInv' /\ DelInv'
  <2>1. DelInv'
    BY <1>2, <1>4, <1>5, DelStep DEF LInv
  <2> QED
    BY <1>3, <2>1 DEF LInv, OrderInv
<1>7. ASSUME departures = 0
      PROVE  LinkInv' /\ AwaitedInv' /\ NeededInv' /\ ServedInv'
  <2>1. LinkInv /\ AwaitedInv /\ NeededInv /\ ServedInv
    BY <1>3, <1>7 DEF LInv, LeakInv
  <2>2. AwaitedInv'
    <3> SUFFICES ASSUME NEW f \in pending, f # e
                 PROVE  \/ \E m \in Flying : Stops(m, f)
                        \/ \E v \in tasks' : v.at = "stop" /\ Stops(v, f)
      BY <1>2, <1>5 DEF AwaitedInv, Stops
    <3>1. f = [ev |-> f.ev, id |-> f.id]
      BY <1>1 DEF TypeOK, Event
    <3>2. ~Stops(t, f)
      BY <3>1 DEF Stops
    <3> QED
      BY <1>2, <2>1, <3>2 DEF AwaitedInv
  <2>3. \A i : Needed(i) => Needed(i)'
    BY <1>2, <1>4, <1>5 DEF Needed, LastAnswers
  <2>4. NeededInv'
    BY <1>3, <1>5, <2>1, <2>3 DEF NeededInv
  <2>5. LinkInv' /\ ServedInv'
    BY <1>3, <1>5, <2>1 DEF LinkInv, ServedInv, HasOrGets, HasRoute
  <2> QED
    BY <2>2, <2>4, <2>5
<1> QED
  BY <1>2, <1>3, <1>6, <1>7 DEF LInv, LeakInv, Running

\* A task whose event was stopped before goes on, or ends when its identifier has no
\* route that waits for it.
LEMMA TaskGoesOn ==
    ASSUME TypeOK, LInv, Running, NEW t \in tasks, t.at = "lookup", iapp # "route",
           NEW S, tasks' = (tasks \ {t}) \cup S, \A u \in S : u.op = t.op /\ u.id = t.id,
           S = {} => t.op \notin LastAnswers \/ RoutesOf(t.id) = {},
           UNCHANGED <<iapp, job, routes, pending, toNode, subs, addr, online, joining, departures>>
    PROVE  LInv'
<1>1. Flying' = Flying /\ Served' = Served /\ Forwarded' = {} /\ Forwarded = {}
  BY DEF Flying, Served, Forwarded
<1>2. DelInv'
  <2>1. \A v \in tasks' : v.op = "del" => \E u \in tasks : u.op = "del" /\ u.id = v.id
    OBVIOUS
  <2> QED
    BY <1>1, <2>1, DelStep DEF LInv
<1>3. OrderInv'
  BY DEF LInv, OrderInv
<1>4. ASSUME departures = 0
      PROVE  LinkInv' /\ AwaitedInv' /\ NeededInv' /\ ServedInv'
  <2>1. LinkInv /\ AwaitedInv /\ NeededInv /\ ServedInv
    BY <1>4 DEF LInv, LeakInv
  <2>2. AwaitedInv'
    <3>1. \A v \in tasks : v.at = "stop" => v \in tasks'
      OBVIOUS
    <3> QED
      BY <1>1, <2>1, <3>1 DEF AwaitedInv, Stops
  <2>3. ASSUME NEW p \in routes
        PROVE  Needed(p.id)'
    <3>1. Needed(p.id)
      BY <2>1 DEF NeededInv
    <3>2. ~(t.op \in LastAnswers /\ t.id = p.id) \/ S # {}
      BY DEF RoutesOf
    <3>3. \A i : i = p.id => Needed(i)'
      <4> SUFFICES ASSUME NEW i, i = p.id PROVE Needed(i)'
        OBVIOUS
      <4>1. CASE \E v \in tasks : v.op \in LastAnswers /\ v.id = i
        <5>1. PICK v \in tasks : v.op \in LastAnswers /\ v.id = i
          BY <4>1
        <5>2. CASE v = t
          <6>1. PICK u \in S : TRUE
            BY <3>2, <5>1, <5>2
          <6>2. u \in tasks' /\ u.op \in LastAnswers /\ u.id = i
            BY <5>1, <5>2, <6>1
          <6> QED
            BY <6>2 DEF Needed, LastAnswers
        <5>3. CASE v # t
          <6>1. v \in tasks'
            BY <5>3
          <6> QED
            BY <5>1, <6>1 DEF Needed, LastAnswers
        <5> QED
          BY <5>2, <5>3
      <4>2. CASE \/ \E m \in Flying : m.op \in Ops /\ m.id = i
                 \/ \E s \in Served : s.id = i
        BY <1>1, <4>2 DEF Needed
      <4> QED
        BY <3>1, <4>1, <4>2 DEF Needed
    <3> QED
      BY <3>3
  <2>4. NeededInv'
    BY <1>1, <2>3 DEF NeededInv
  <2>5. LinkInv' /\ ServedInv'
    BY <1>1, <2>1 DEF LinkInv, ServedInv, HasOrGets, HasRoute
  <2> QED
    BY <2>2, <2>4, <2>5
<1> QED
  BY <1>2, <1>3, <1>4 DEF LInv, LeakInv

LEMMA RouteAnswerLeak ==
    ASSUME IInv, LInv, NEW t \in tasks, RouteAnswer(t)
    PROVE  LInv'
<1>1. TypeOK
  BY DEF IInv
<1>2. /\ Running /\ t.at = "lookup" /\ iapp # "route"
      /\ UNCHANGED <<iapp, job, routes, pending, toNode, subs, addr, online, joining, departures>>
  BY <1>1, RouteAnswerCases DEF RouteLockFree, iappVars, ricVars, nodeMaps, links, nodeVars
<1>3. CASE /\ tasks' = tasks
           /\ aborted' \in {"zero request id", "RIC Req Id not found", "control route not found",
                            "xApp ID not found"}
  <2>1. ~Running'
    BY <1>3 DEF Running
  <2> QED
    BY <1>2, <1>3, <2>1, LeakFrame
<1>4. CASE tasks' = tasks \ {t} /\ RoutesOf(t.id) = {}
  <2> DEFINE S == {}
  <2>1. /\ tasks' = (tasks \ {t}) \cup S /\ \A u \in S : u.op = t.op /\ u.id = t.id
        /\ S = {} => t.op \notin LastAnswers \/ RoutesOf(t.id) = {}
    BY <1>4
  <2> HIDE DEF S
  <2> QED
    BY <1>1, <1>2, <2>1, TaskGoesOn
<1>5. CASE tasks' = tasks \ {t} /\ t.op \notin LastAnswers
  <2> DEFINE S == {}
  <2>1. /\ tasks' = (tasks \ {t}) \cup S /\ \A u \in S : u.op = t.op /\ u.id = t.id
        /\ S = {} => t.op \notin LastAnswers \/ RoutesOf(t.id) = {}
    BY <1>5
  <2> HIDE DEF S
  <2> QED
    BY <1>1, <1>2, <2>1, TaskGoesOn
<1>6. ASSUME NEW k, tasks' = (tasks \ {t}) \cup {[t EXCEPT !.at = "remove", !.key = k]}
      PROVE  LInv'
  <2> DEFINE u == [t EXCEPT !.at = "remove", !.key = k]
  <2>1. u.op = t.op /\ u.id = t.id
    BY <1>1, MovedTask
  <2>2. tasks' = (tasks \ {t}) \cup {u}
    BY <1>6
  <2> HIDE DEF u
  <2> DEFINE S == {u}
  <2>3. /\ tasks' = (tasks \ {t}) \cup S /\ \A v \in S : v.op = t.op /\ v.id = t.id
        /\ S = {} => t.op \notin LastAnswers \/ RoutesOf(t.id) = {}
    BY <2>1, <2>2
  <2> HIDE DEF S
  <2> QED
    BY <1>1, <1>2, <2>3, TaskGoesOn
<1> QED
  BY <1>1, <1>3, <1>4, <1>5, <1>6, RouteAnswerCases

\* Nothing is left that needs the route which a task removes.
LEMMA RemovedUnneeded ==
    ASSUME TypeOK, CoreInv, DelInv, NEW t \in tasks, t.at = "remove", NEW p \in RoutesWithKey(t.key)
    PROVE  /\ \A s \in Served : s.req # p.req
           /\ \A m \in Flying : m.op = "sub" => m.req # p.req
<1>1. p.req = t.req
  BY RemovesOwn
<1>2. t \in Holders /\ Served \subseteq Holders /\ Flying \subseteq Holders
  BY DEF Holders
<1>3. t.op \in {"control", "del"} /\ (t.op = "control" => t.req.op = "control")
  BY DEF CoreInv, KindInv, Ops
<1>4. ASSUME NEW s \in Served, s.req = p.req
      PROVE  FALSE
  <2>1. s.id = t.id
    BY <1>1, <1>2, <1>4 DEF CoreInv, BindInv
  <2>2. s.req.op = "sub"
    BY DEF CoreInv, KindInv, Served
  <2> QED
    BY <1>1, <1>3, <1>4, <2>1, <2>2 DEF DelInv
<1>5. ASSUME NEW m \in Flying, m.op = "sub", m.req = p.req
      PROVE  FALSE
  <2>1. m.id = t.id
    BY <1>1, <1>2, <1>5 DEF CoreInv, BindInv
  <2>2. m.req.op = "sub"
    BY <1>5 DEF CoreInv, KindInv, Ops
  <2> QED
    BY <1>1, <1>3, <1>5, <2>1, <2>2 DEF DelInv
<1> QED
  BY <1>4, <1>5

\* A task that removes routes removes that of its identifier.
LEMMA RemovesItsRoute ==
    ASSUME TypeOK, CoreInv, NEW t \in tasks, t.at = "remove", NEW p \in routes, p.id = t.id
    PROVE  p \in RoutesWithKey(t.key)
<1>1. t \in Holders /\ p \in Holders
  BY DEF Holders
<1>2. p.req = t.req
  BY <1>1 DEF CoreInv, BindInv
<1> QED
  BY <1>2 DEF CoreInv, OwnerInv, RoutesWithKey

LEMMA RemoveRouteLeak ==
    ASSUME IInv, LInv, NEW t \in tasks, RemoveRoute(t)
    PROVE  LInv'
<1>1. TypeOK /\ CoreInv /\ DelInv
  BY DEF IInv, LInv
<1>2. /\ Running /\ t.at = "remove" /\ iapp # "route"
      /\ UNCHANGED <<iapp, job, pending, toNode, subs, addr, online, joining, departures>>
  BY DEF RemoveRoute, RouteLockFree, iappVars, ricVars, nodeMaps, links, nodeVars
<1>3. CASE routes' = routes /\ tasks' = tasks /\ aborted' = "key not found in the map"
  <2>1. ~Running'
    BY <1>3 DEF Running
  <2> QED
    BY <1>2, <1>3, <2>1, LeakFrame
<1>4. CASE routes' = routes \ RoutesWithKey(t.key) /\ tasks' = tasks \ {t}
  <2>1. Flying' = Flying /\ Served' = Served /\ Forwarded' = {}
    BY <1>2 DEF Flying, Served, Forwarded
  <2>2. DelInv'
    BY <1>1, <1>4, <2>1, DelStep
  <2>3. OrderInv'
    BY <1>2 DEF LInv, OrderInv
  <2>4. ASSUME departures = 0
        PROVE  LinkInv' /\ AwaitedInv' /\ NeededInv' /\ ServedInv'
    <3>1. LinkInv /\ AwaitedInv /\ NeededInv /\ ServedInv
      BY <1>2, <2>4 DEF LInv, LeakInv
    <3>2. AwaitedInv'
      <4>1. \A v \in tasks : v.at = "stop" => v \in tasks'
        BY <1>2, <1>4
      <4> QED
        BY <1>2, <2>1, <3>1, <4>1 DEF AwaitedInv, Stops
    <3>3. \A i : Needed(i) /\ i # t.id => Needed(i)'
      BY <1>4, <2>1 DEF Needed, LastAnswers
    <3>4. \A p \in routes' : p.id # t.id
      BY <1>1, <1>2, <1>4, RemovesItsRoute
    <3>5. NeededInv'
      BY <1>4, <2>1, <3>1, <3>3, <3>4 DEF NeededInv
    <3>6. \A r : HasOrGets(r) /\ (\A p \in RoutesWithKey(t.key) : p.req # r) => HasOrGets(r)'
      BY <1>2, <1>4 DEF HasOrGets, HasRoute
    <3>7. ServedInv'
      BY <1>1, <1>2, <2>1, <3>1, <3>6, RemovedUnneeded DEF ServedInv
    <3> QED
      BY <1>2, <3>1, <3>2, <3>5, <3>7 DEF LinkInv
  <2> QED
    BY <1>2, <2>2, <2>3, <2>4 DEF LInv, LeakInv
<1> QED
  BY <1>3, <1>4 DEF RemoveRoute, Abort, Finish

-----------------------------------------------------------------------------
(* The steps of the nodes.                                                  *)

\* What a node that handles a message m leaves, with the task u of its answer.
LEMMA HandledStep ==
    ASSUME IInv, LInv, NEW n \in Nodes, NodeHandles(n)
    PROVE  \E m \in Flying, u \in tasks' :
              /\ tasks' = tasks \cup {u} /\ OrderInv'
              /\ u.op = m.op /\ u.id = m.id /\ u.at = "stop"
              /\ Flying' \subseteq Flying /\ Flying \subseteq Flying' \cup {m}
              /\ m.op = "del" => \A h \in Flying' : ~(h.op = "sub" /\ h.id = m.id)
              /\ \/ m.op = "sub" /\ Served' = Served \cup {[id |-> m.id, req |-> m.req]}
                 \/ m.op = "control" /\ Served' = Served
                 \/ m.op = "del" /\ Served' = {s \in Served : s.id # m.id}
<1>1. TypeOK /\ CoreInv /\ QueueInv /\ OrderInv
  BY DEF IInv, CoreInv, LInv
<1>2. PICK m \in Flying, u \in tasks' :
              /\ tasks' = tasks \cup {u}
              /\ u.op = m.op /\ u.id = m.id /\ u.req = m.req /\ u.at = "stop"
              /\ m.req.node = n /\ Flying' \subseteq Flying /\ QueueInv'
              /\ \A h \in Flying' : ~(h.op = m.op /\ h.id = m.id)
              /\ \/ /\ m.op \in Ops /\ effect' = effect \cup {m.req} /\ ended' = ended
                    /\ subs' = IF m.op = "sub"
                               THEN [subs EXCEPT ![n] = @ \cup {[id |-> m.id, req |-> m.req]}]
                               ELSE subs
                 \/ /\ m.op = "del" /\ effect' = effect
                    /\ ended' = ended \cup {s.req : s \in {s \in subs[n] : s.id = m.id}}
                    /\ subs' = [subs EXCEPT ![n] = {s \in @ : s.id # m.id}]
  BY <1>1, NodeHandlesStep
<1>3. toNode[n] # <<>> /\ toNode' = [toNode EXCEPT ![n] = Tail(@)]
  BY DEF NodeHandles
<1>4. /\ OrderInv' /\ Flying \subseteq Flying' \cup {Head(toNode[n])}
      /\ Head(toNode[n]).op = "del" =>
            \A h \in Flying' : h.req.node = n => ~(h.op = "sub" /\ h.id = Head(toNode[n]).id)
  BY <1>1, <1>3, OrderHandled
<1>5. m \notin Flying'
  BY <1>2
<1>6. m = Head(toNode[n])
  BY <1>4, <1>5
<1>7. ASSUME m.op = "del", NEW h \in Flying', h.op = "sub", h.id = m.id
      PROVE  FALSE
  <2>1. h \in Holders /\ m \in Holders
    BY <1>2 DEF Holders
  <2>2. h.req = m.req
    BY <1>1, <1>7, <2>1 DEF CoreInv, BindInv
  <2> QED
    BY <1>2, <1>4, <1>6, <1>7, <2>2
<1>8. subs \in [Nodes -> SUBSET [id: Nat, req: Request]]
  BY <1>1 DEF TypeOK
<1>9. CASE m.op = "sub"
  <2>1. subs' = [subs EXCEPT ![n] = @ \cup {[id |-> m.id, req |-> m.req]}]
    BY <1>2, <1>9
  <2>2. /\ subs'[n] = subs[n] \cup {[id |-> m.id, req |-> m.req]}
        /\ \A l \in Nodes : l # n => subs'[l] = subs[l]
    BY <1>8, <2>1
  <2>3. Served' = Served \cup {[id |-> m.id, req |-> m.req]}
    BY <2>2 DEF Served
  <2> QED
    BY <1>2, <1>4, <1>6, <1>9, <2>3
<1>10. CASE m.op = "control"
  <2>1. subs' = subs
    BY <1>2, <1>10
  <2>2. Served' = Served
    BY <2>1 DEF Served
  <2> QED
    BY <1>2, <1>4, <1>6, <1>10, <2>2
<1>11. CASE m.op = "del"
  <2>1. subs' = [subs EXCEPT ![n] = {s \in @ : s.id # m.id}]
    BY <1>2, <1>11 DEF Ops
  <2>2. /\ subs'[n] = {s \in subs[n] : s.id # m.id}
        /\ \A l \in Nodes : l # n => subs'[l] = subs[l]
    BY <1>8, <2>1
  <2>3. \A l \in Nodes : \A s \in subs[l] : s.id = m.id => l = n
    <3> SUFFICES ASSUME NEW l \in Nodes, NEW s \in subs[l], s.id = m.id PROVE l = n
      OBVIOUS
    <3>1. s \in Holders /\ m \in Holders
      BY DEF Holders, Served
    <3>2. s.req = m.req
      BY <1>1, <3>1 DEF CoreInv, BindInv
    <3> QED
      BY <1>1, <1>2, <3>2 DEF CoreInv, KindInv
  <2>4. Served' = {s \in Served : s.id # m.id}
    <3>1. \A l \in Nodes : subs'[l] = {s \in subs[l] : s.id # m.id}
      BY <2>2, <2>3
    <3> QED
      BY <3>1 DEF Served
  <2> QED
    BY <1>2, <1>4, <1>6, <1>7, <1>11, <2>4
<1>12. m.op \in {"sub", "control", "del"}
  BY <1>1, FlyingFacts DEF Ops
<1> QED
  BY <1>9, <1>10, <1>11, <1>12

LEMMA NodeHandlesLeak ==
    ASSUME IInv, LInv, NEW n \in Nodes, NodeHandles(n)
    PROVE  LInv'
<1>1. /\ UNCHANGED <<iapp, job, routes, pending, addr, online, joining, departures>>
      /\ aborted' = aborted /\ Running
  BY DEF NodeHandles, iappVars, ricVars, nodeMaps, links
<1>2. PICK m \in Flying, u \in tasks' :
              /\ tasks' = tasks \cup {u} /\ OrderInv'
              /\ u.op = m.op /\ u.id = m.id /\ u.at = "stop"
              /\ Flying' \subseteq Flying /\ Flying \subseteq Flying' \cup {m}
              /\ m.op = "del" => \A h \in Flying' : ~(h.op = "sub" /\ h.id = m.id)
              /\ \/ m.op = "sub" /\ Served' = Served \cup {[id |-> m.id, req |-> m.req]}
                 \/ m.op = "control" /\ Served' = Served
                 \/ m.op = "del" /\ Served' = {s \in Served : s.id # m.id}
  BY HandledStep
<1> DEFINE new == [id |-> m.id, req |-> m.req]
<1>3. new.id = m.id /\ new.req = m.req
  OBVIOUS
<1>4. \/ m.op = "sub" /\ Served' = Served \cup {new}
      \/ m.op = "control" /\ Served' = Served
      \/ m.op = "del" /\ Served' = {s \in Served : s.id # m.id}
  BY <1>2
<1> HIDE DEF new
<1>5. DelInv'
  <2> SUFFICES ASSUME NEW t \in tasks', t.op = "del"
               PROVE  /\ \A h \in Flying' : ~(h.op = "sub" /\ h.id = t.id)
                      /\ \A s \in Served' : s.id # t.id
    BY DEF DelInv
  <2>1. CASE t \in tasks
    BY <1>2, <1>3, <1>4, <2>1 DEF LInv, DelInv
  <2>2. CASE t = u
    BY <1>2, <1>4, <2>2
  <2> QED
    BY <1>2, <2>1, <2>2
<1>6. ASSUME departures = 0
      PROVE  LinkInv' /\ AwaitedInv' /\ NeededInv' /\ ServedInv'
  <2>1. LinkInv /\ AwaitedInv /\ NeededInv /\ ServedInv
    BY <1>1, <1>6 DEF LInv, LeakInv
  <2>2. AwaitedInv'
    <3> SUFFICES ASSUME NEW e \in pending
                 PROVE  \/ \E h \in Flying' : Stops(h, e)
                        \/ \E t \in tasks' : t.at = "stop" /\ Stops(t, e)
      BY <1>1 DEF AwaitedInv, Stops
    <3>1. CASE \E t \in tasks : t.at = "stop" /\ Stops(t, e)
      BY <1>2, <3>1
    <3>2. CASE Stops(m, e)
      BY <1>2, <3>2 DEF Stops
    <3>3. CASE \E h \in Flying' : Stops(h, e)
      BY <3>3
    <3> QED
      BY <1>2, <2>1, <3>1, <3>2, <3>3 DEF AwaitedInv
  <2>3. \A i : Needed(i) => Needed(i)'
    <3> SUFFICES ASSUME NEW i, Needed(i)
                 PROVE  \/ \E h \in Flying' : h.op \in Ops /\ h.id = i
                        \/ \E s \in Served' : s.id = i
                        \/ \E t \in tasks' : t.op \in LastAnswers /\ t.id = i
      BY DEF Needed, LastAnswers
    <3>1. CASE \E h \in Flying : h.op \in Ops /\ h.id = i
      <4>1. PICK h \in Flying : h.op \in Ops /\ h.id = i
        BY <3>1
      <4>2. CASE h = m
        <5>1. CASE m.op = "sub"
          BY <1>3, <1>4, <4>1, <4>2, <5>1
        <5>2. CASE m.op = "control"
          BY <1>2, <4>1, <4>2, <5>2 DEF LastAnswers
        <5> QED
          BY <4>1, <4>2, <5>1, <5>2 DEF Ops
      <4> QED
        BY <1>2, <4>1, <4>2
    <3>2. CASE \E s \in Served : s.id = i
      <4>1. PICK s \in Served : s.id = i
        BY <3>2
      <4>2. CASE s \notin Served'
        BY <1>2, <1>4, <4>1, <4>2 DEF LastAnswers
      <4> QED
        BY <4>1, <4>2
    <3>3. CASE \E t \in tasks : t.op \in LastAnswers /\ t.id = i
      BY <1>2, <3>3
    <3> QED
      BY <3>1, <3>2, <3>3 DEF Needed
  <2>4. NeededInv'
    <3>1. Forwarded' = Forwarded
      BY <1>1 DEF Forwarded
    <3> QED
      BY <1>1, <2>1, <2>3, <3>1 DEF NeededInv
  <2>5. \A r : HasOrGets(r) => HasOrGets(r)'
    BY <1>1 DEF HasOrGets, HasRoute
  <2>6. ServedInv'
    BY <1>2, <1>3, <1>4, <2>1, <2>5 DEF ServedInv
  <2> QED
    BY <1>1, <2>1, <2>2, <2>4, <2>6 DEF LinkInv
<1> QED
  BY <1>1, <1>2, <1>5, <1>6 DEF LInv, LeakInv, Running

LEMMA NodeReportsLeak ==
    ASSUME IInv, LInv, NEW n \in Nodes, NodeReports(n)
    PROVE  LInv'
<1>1. /\ UNCHANGED <<iapp, job, routes, pending, toNode, subs, addr, online, joining, departures>>
      /\ aborted' = aborted
  BY DEF NodeReports, iappVars, ricVars, nodeMaps, links
<1>2. PICK s \in subs[n] : NewTask("report", s, "lookup")
  BY DEF NodeReports
<1>3. TypeOK /\ s.id \in Nat /\ s.req \in Request
  BY SubFacts DEF IInv
<1>4. PICK k \in Nat : tasks' = tasks \cup {[op |-> "report", id |-> s.id, no |-> k, req |-> s.req,
                                             at |-> "lookup", key |-> NoKey]}
  BY <1>2, <1>3, NewTaskType
<1> DEFINE u == [op |-> "report", id |-> s.id, no |-> k, req |-> s.req,
                 at |-> "lookup", key |-> NoKey]
<1>5. tasks' = tasks \cup {u} /\ u.op = "report"
  BY <1>4
<1> HIDE DEF u
<1>6. Flying' = Flying /\ Served' = Served /\ Forwarded' = Forwarded
  BY <1>1 DEF Flying, Served, Forwarded
<1>7. OrderInv' /\ DelInv'
  <2>1. DelInv'
    BY <1>5, <1>6, DelStep DEF LInv
  <2> QED
    BY <1>1, <2>1 DEF LInv, OrderInv
<1>8. ASSUME Running, departures = 0
      PROVE  LinkInv' /\ AwaitedInv' /\ NeededInv' /\ ServedInv'
  <2>1. LinkInv /\ AwaitedInv /\ NeededInv /\ ServedInv
    BY <1>8 DEF LInv, LeakInv
  <2>2. LinkInv' /\ ServedInv'
    BY <1>1, <1>6, <2>1 DEF LinkInv, ServedInv, HasOrGets, HasRoute
  <2>3. AwaitedInv'
    BY <1>1, <1>5, <1>6, <2>1 DEF AwaitedInv, Stops
  <2>4. \A i : Needed(i) => Needed(i)'
    BY <1>5, <1>6 DEF Needed, LastAnswers
  <2>5. NeededInv'
    BY <1>1, <1>6, <2>1, <2>4 DEF NeededInv
  <2> QED
    BY <2>2, <2>3, <2>5
<1> QED
  BY <1>1, <1>7, <1>8 DEF LInv, LeakInv, Running

LEMMA NodeLeavesLeak ==
    ASSUME IInv, LInv, NEW n \in Nodes, NodeLeaves(n)
    PROVE  LInv'
<1>1. TypeOK /\ QueueInv /\ departures \in Nat
  BY DEF IInv, CoreInv, TypeOK
<1>2. /\ toNode' = [toNode EXCEPT ![n] = <<>>] /\ subs' = [subs EXCEPT ![n] = {}]
      /\ departures' = departures + 1 /\ tasks' = tasks
  BY DEF NodeLeaves
<1>3. /\ toNode \in [Nodes -> Seq(Message)] /\ subs \in [Nodes -> SUBSET [id: Nat, req: Request]]
  BY <1>1 DEF TypeOK
<1>4. /\ toNode'[n] = <<>> /\ subs'[n] = {}
      /\ \A l \in Nodes : l # n => toNode'[l] = toNode[l] /\ subs'[l] = subs[l]
  BY <1>2, <1>3
<1>5. OrderInv'
  <2>1. DOMAIN toNode'[n] = {}
    BY <1>4
  <2> QED
    BY <1>4, <2>1 DEF LInv, OrderInv
<1>6. Flying' \subseteq Flying /\ Served' \subseteq Served
  <2>1. Served' \subseteq Served
    BY <1>4 DEF Served
  <2> QED
    BY <1>1, <1>2, <2>1, FlyingLost
<1>7. DelInv'
  BY <1>2, <1>6, DelStep DEF LInv
<1> QED
  BY <1>1, <1>2, <1>5, <1>7 DEF LInv, LeakInv

-----------------------------------------------------------------------------
(* The theorem.                                                             *)

LEMMA LeakInit == Init => LInv
<1> SUFFICES ASSUME Init PROVE LInv
  OBVIOUS
<1>1. \A n \in Nodes : toNode[n] = <<>> /\ subs[n] = {} /\ joining[n] = "no"
  BY DEF Init
<1>2. \A n \in Nodes : DOMAIN toNode[n] = {}
  BY <1>1
<1>3. Flying = {} /\ Served = {} /\ Forwarded = {}
  BY <1>1, <1>2 DEF Flying, Served, Forwarded, Init
<1> QED
  BY <1>1, <1>2, <1>3 DEF Init, LInv, OrderInv, DelInv, LeakInv, LinkInv, AwaitedInv, NeededInv,
                          ServedInv

LEMMA LeakInduction ==
    ASSUME IInv, LInv, [Next]_vars
    PROVE  LInv'
  BY QuietLeak, ForwardLeak, AddRouteLeak, ForwardDeleteLeak, StopPendingLeak, RouteAnswerLeak,
     RemoveRouteLeak, NodeHandlesLeak, NodeReportsLeak, NodeLeavesLeak DEF Next

\* When the RIC is quiet every pending event has been stopped and the routes are those
\* of the subscriptions.
LEMMA QuietClean == IInv /\ LInv => NoLeak
<1> SUFFICES ASSUME IInv, LInv, Quiet
             PROVE  /\ pending = {}
                    /\ {[id |-> p.id, req |-> p.req] : p \in routes} = Served
  BY DEF NoLeak, Served
<1>1. TypeOK /\ CoreInv /\ LinkInv /\ AwaitedInv /\ NeededInv /\ ServedInv
  BY DEF IInv, LInv, LeakInv, Quiet
<1>2. tasks = {} /\ iapp = "idle" /\ Flying = {}
  <2>1. \A n \in Nodes : toNode[n] = <<>>
    BY DEF Quiet
  <2>2. \A n \in Nodes : DOMAIN toNode[n] = {}
    BY <2>1
  <2> QED
    BY <2>2 DEF Quiet, Flying
<1>3. pending = {}
  BY <1>1, <1>2 DEF AwaitedInv
<1>4. routes \subseteq Holders /\ Served \subseteq Holders
  BY DEF Holders
<1>5. \A s \in Served : s = [id |-> s.id, req |-> s.req]
  BY <1>1, SubFacts DEF Served
<1>6. \A p \in routes : \E s \in Served : s.id = p.id /\ s.req = p.req
  <2> TAKE p \in routes
  <2>1. PICK s \in Served : s.id = p.id
    BY <1>1, <1>2 DEF NeededInv, Needed
  <2> QED
    BY <1>1, <1>4, <2>1 DEF CoreInv, BindInv
<1>7. \A s \in Served : \E p \in routes : s.id = p.id /\ s.req = p.req
  <2> TAKE s \in Served
  <2>1. PICK p \in routes : p.req = s.req
    BY <1>1, <1>2 DEF ServedInv, HasOrGets, HasRoute
  <2> QED
    BY <1>1, <1>4, <2>1 DEF CoreInv, BindInv
<1>8. {[id |-> p.id, req |-> p.req] : p \in routes} \subseteq Served
  BY <1>5, <1>6
<1>9. Served \subseteq {[id |-> p.id, req |-> p.req] : p \in routes}
  BY <1>5, <1>7
<1> QED
  BY <1>3, <1>8, <1>9

\* While no E2 node has shut down, a quiet RIC holds no pending event and exactly the
\* routes of the subscriptions that the nodes serve, whatever the xApps did: neither
\* map_ric_id nor the pending events grow beyond what is in use.
THEOREM NothingLeaks == Spec => []NoLeak
<1>1. Spec => []IInv
  BY InvariantHolds
<1>2. Init => LInv
  BY LeakInit
<1>3. IInv /\ LInv /\ [Next]_vars => LInv'
  BY LeakInduction
<1>4. IInv /\ LInv => NoLeak
  BY QuietClean
<1> QED
  BY <1>1, <1>2, <1>3, <1>4, PTL DEF Spec

=============================================================================
