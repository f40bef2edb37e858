-------------------------- MODULE RicServiceProofs --------------------------
(***************************************************************************)
(* The near-RT RIC implements the request service, for every value of the  *)
(* constants and however the xApps number their requests.  The argument: a *)
(* request identifier of the RIC stands for one request, wherever it is    *)
(* (BindInv); an answer has a pending event (PendingInv) and is alone      *)
(* (OnceInv); while it is expected its route exists, unless its xApp has   *)
(* gone or another xApp's delete may have been taken for it (RouteInv).    *)
(***************************************************************************)
EXTENDS RicRoutingProofs

-----------------------------------------------------------------------------
(* The inductive invariant.                                                 *)

\* The xApp of a request may no longer find it: it has gone, or another xApp's delete
\* may have been taken for the request.
Lost(r) == xstate[r.xapp] = "gone" \/ Mistaken(r)

\* The identifiers that the RIC has given so far.
Given(i) ==
    IF req_id >= FirstReqId THEN FirstReqId <= i /\ i < req_id
    ELSE (FirstReqId <= i /\ i < IdSpace) \/ i < req_id

\* The messages on their way to a node.
Flying == UNION {{toNode[n][k] : k \in DOMAIN toNode[n]} : n \in Nodes}

\* Whatever holds an identifier and the request that it stands for.
Served == UNION {subs[n] : n \in Nodes}
Forwarded == IF iapp = "route" THEN {job} ELSE {}
Holders == routes \cup todo \cup tasks \cup Flying \cup Served \cup Forwarded

\* What carries out a request, and what deletes a subscription.
Carriers == {h \in Flying \cup tasks : h.op \in Ops}
Deleters == todo \cup {h \in Flying \cup tasks : h.op = "del"}

\* An identifier stands for one request, and a request has one identifier.
BindInv ==
    /\ \A h \in Holders : Given(h.id) /\ h.req \in asked
    /\ \A g, h \in Holders : g.id = h.id <=> g.req = h.req

\* The ids of the xApps.
XappInv ==
    /\ \A x \in XApps : xstate[x] \in {"up", "gone"} =>
          mine[x] \in DOMAIN xapps /\ xapps[mine[x]] = x
    /\ \A x \in XApps : failed[x] > 0 => xstate[x] = "gone"
    /\ \A i \in DOMAIN xapps : i < xapp_id

\* The xApp of a route is the one that asked.
OwnerInv ==
    /\ \A p \in routes : p.xid \in DOMAIN xapps /\ xapps[p.xid] = p.req.xapp
    /\ iapp \in {"forward", "route"} => job.xid \in DOMAIN xapps /\ xapps[job.xid] = job.req.xapp
    /\ \A t \in tasks : t.at = "remove" =>
          t.key.xid \in DOMAIN xapps /\ xapps[t.key.xid] = t.req.xapp /\ t.key.own = t.req.own
    /\ \A t \in tasks, p \in routes : t.at = "remove" /\ p.req = t.req => p.xid = t.key.xid

\* The request that is being forwarded is in no map yet.
JobInv ==
    /\ iapp = "forward" =>
          job.req \in asked /\ job.req \notin effect /\ \A h \in Holders : h.req # job.req
    /\ iapp = "route" => /\ \A p \in routes : p.req # job.req
                         /\ \A t \in tasks : t.req = job.req => t.at # "remove"

\* Requests and their history.
AskedInv ==
    /\ \A q, r \in asked : q.xapp = r.xapp /\ q.own = r.own => q = r
    /\ \A r \in asked : r.own \in Own[r.xapp]
    /\ effect \subseteq asked /\ ended \subseteq effect
    /\ \A r \in closing : r \in asked /\ r.op = "sub"

\* A message is on its way to the node of its request, and is not repeated.
QueueInv ==
    /\ \A n \in Nodes : \A k \in DOMAIN toNode[n] : toNode[n][k].req.node = n
    /\ \A n, l \in Nodes : \A k \in DOMAIN toNode[n], j \in DOMAIN toNode[l] :
          toNode[n][k].op = toNode[l][j].op /\ toNode[n][k].id = toNode[l][j].id => n = l /\ k = j

\* What a message or a task is about.
KindInv ==
    /\ \A h \in Flying \cup tasks : /\ h.op \in Ops => h.req.op = h.op
                                    /\ h.op \notin Ops => h.req.op = "sub"
    /\ \A t \in tasks : /\ t.at = "remove" => t.op \in {"control", "del"}
                        /\ t.op = "report" => t.at = "lookup"
    /\ \A n \in Nodes : \A s \in subs[n] : s.req.node = n /\ s.req.op = "sub"
    /\ \A p \in todo : p.req.op = "sub"

\* An answer that is to come has a pending event.
PendingInv ==
    /\ \A m \in Flying : [ev |-> m.op, id |-> m.id] \in pending
    /\ \A t \in tasks : t.at = "stop" => [ev |-> t.op, id |-> t.id] \in pending

\* Requests are answered once, and so are deletes unless the xApp has gone.
Exclusive(t) == t.op \in Ops \/ (t.op = "del" /\ (t.at = "stop" \/ ~Lost(t.req)))

OnceInv ==
    /\ \A m \in Flying, t \in tasks : m.op = t.op /\ m.id = t.id => ~Exclusive(t)
    /\ \A t, u \in tasks : t.op = u.op /\ t.id = u.id /\ Exclusive(t) /\ Exclusive(u) => t = u
    /\ \A p \in todo, h \in Flying \cup tasks : ~Lost(p.req) => ~(h.op = "del" /\ h.id = p.id)
    /\ \A p, q \in todo : p.id = q.id => p = q
    /\ \A p, q \in routes : p.id = q.id => p = q

HasRoute(r) == \E p \in routes : p.req = r

\* A request that is being carried out has a route.
Routed(r) == HasRoute(r) \/ (iapp = "route" /\ job.req = r) \/ (r.op = "sub" /\ Lost(r))

\* A confirmed subscription has a route.
Found(r) == HasRoute(r) \/ Lost(r)

\* A subscription that is being deleted was given up, and has a route.
Closed(r) == Lost(r) \/ (r \in closing /\ HasRoute(r) /\ r \in effect)

RouteInv ==
    /\ \A h \in Carriers : Routed(h.req)
    /\ \A h \in Deleters : Closed(h.req)
    /\ \A r \in asked : r.op = "sub" /\ About(r, "done") \in heard /\ r \notin closing =>
          Found(r)

\* What the nodes have done.
EffectInv ==
    /\ \A m \in Flying : m.op \in Ops => m.req \notin effect
    /\ \A t \in tasks : /\ t.op # "del" => t.req \in effect
                        /\ t.op = "del" => Lost(t.req) \/ t.req \in ended
    /\ \A n \in Nodes : \A s \in subs[n] : s.req \in effect /\ s.req \notin ended
    /\ \A r \in effect : r.op = "sub" => r \in ended \/ \E s \in subs[r.node] : s.req = r

\* What the xApps have heard.
HeardInv ==
    /\ \A h \in heard : \E r \in asked : h.to = r.xapp /\ h.own = r.own
    /\ \A r \in asked : About(r, "done") \in heard =>
          r \in effect /\ (r.op = "sub" => \A h \in Carriers : h.req # r)
    /\ \A r \in closing : About(r, "done") \in heard

\* While no node has shut down, the nodes that the RIC talks to are registered.
NodeInv ==
    departures = 0 =>
        /\ \A n \in Nodes : leaving[n] = "no"
        /\ \A n \in Nodes : joining[n] \in {"registry", "connected"} => n \in addr
        /\ reg \subseteq addr
        /\ \A x \in XApps : known[x] \subseteq reg
        /\ iapp \in {"forward", "route"} => job.req.node \in reg
        /\ \A p \in routes \cup todo : p.req.node \in reg

CoreInv ==
    /\ BindInv /\ OwnerInv /\ JobInv /\ AskedInv /\ QueueInv /\ KindInv /\ PendingInv
    /\ OnceInv /\ RouteInv /\ EffectInv /\ HeardInv

Excused == SureAssertions /\ AbortCauses

IInv == TypeOK /\ CoreInv /\ XappInv /\ NodeInv /\ Excused

-----------------------------------------------------------------------------
(* The ids of the xApps.                                                    *)

LEMMA XappUnchanged ==
    ASSUME XappInv, UNCHANGED <<xstate, mine, xapps, xapp_id, failed>>
    PROVE  XappInv'
  BY DEF XappInv

LEMMA SetupXapp ==
    ASSUME TypeOK, XappInv, NEW x \in XApps, Setup(x)
    PROVE  XappInv'
<1>1. /\ xapp_id \in Nat /\ xapp_id' = xapp_id + 1 /\ failed' = failed
      /\ xapps' = [i \in DOMAIN xapps \cup {xapp_id} |-> IF i = xapp_id THEN x ELSE xapps[i]]
      /\ xstate[x] # "gone"
  BY DEF TypeOK, Setup
<1>2. xapp_id \notin DOMAIN xapps /\ \A i \in DOMAIN xapps : i < xapp_id /\ i \in Nat
  BY <1>1 DEF XappInv, TypeOK
<1>3. /\ \A i \in DOMAIN xapps : i \in DOMAIN xapps' /\ xapps'[i] = xapps[i]
      /\ xapp_id \in DOMAIN xapps' /\ xapps'[xapp_id] = x
  BY <1>1, <1>2
<1>4. \A i \in DOMAIN xapps' : i < xapp_id'
  BY <1>1, <1>2
<1>5. /\ \A y \in XApps : xstate'[y] \in {"up", "gone"} =>
             mine'[y] \in DOMAIN xapps' /\ xapps'[mine'[y]] = y
      /\ \A y \in XApps : failed'[y] > 0 => xstate'[y] = "gone"
  <2>1. CASE xstate[x] = "starting"
    <3>1. /\ mine' = [mine EXCEPT ![x] = xapp_id]
          /\ \/ xstate' = [xstate EXCEPT ![x] = "starting"]
             \/ xstate' = [xstate EXCEPT ![x] = "up"]
      BY <2>1 DEF Setup
    <3>2. mine'[x] = xapp_id /\ \A y \in XApps \ {x} : mine'[y] = mine[y] /\ xstate'[y] = xstate[y]
      BY <3>1 DEF TypeOK
    <3> QED
      BY <1>1, <1>3, <3>2 DEF XappInv
  <2>2. CASE xstate[x] # "starting"
    <3>1. mine' = mine /\ xstate' = xstate
      BY <2>2 DEF Setup, xappVars
    <3> QED
      BY <1>1, <1>3, <3>1 DEF XappInv
  <2> QED
    BY <2>1, <2>2
<1> QED
  BY <1>4, <1>5 DEF XappInv

LEMMA XappInduction ==
    ASSUME TypeOK, XappInv, [Next]_vars
    PROVE  XappInv'
<1>1. CASE UNCHANGED vars
  BY <1>1, XappUnchanged DEF vars, xappVars
<1>2. CASE \E x \in XApps : Setup(x)
  BY <1>2, SetupXapp
<1>3. ASSUME NEW x \in XApps, XappDisconnected(x)
      PROVE  XappInv'
  <2>1. /\ failed \in [XApps -> Nat] /\ failed' = [failed EXCEPT ![x] = @ - 1] /\ failed[x] > 0
        /\ UNCHANGED <<xstate, mine, xapps, xapp_id>>
    BY <1>3 DEF XappDisconnected, TypeOK, xappVars
  <2>2. \A y \in XApps : failed'[y] > 0 => failed[y] > 0
    BY <2>1
  <2> QED
    BY <2>1, <2>2 DEF XappInv
<1>4. ASSUME NEW x \in XApps, XappLeaves(x)
      PROVE  XappInv'
  <2>1. /\ xstate[x] = "up" /\ xstate' = [xstate EXCEPT ![x] = "gone"]
        /\ UNCHANGED <<failed, mine, xapps, xapp_id>>
    BY <1>4 DEF XappLeaves
  <2>2. xstate'[x] = "gone" /\ \A y \in XApps \ {x} : xstate'[y] = xstate[y]
    BY <2>1 DEF TypeOK
  <2> QED
    BY <2>1, <2>2 DEF XappInv
<1>5. ASSUME NEW t \in tasks, RouteAnswer(t)
      PROVE  XappInv'
  <2>1. UNCHANGED <<xstate, mine, xapps, xapp_id>>
    BY <1>5 DEF RouteAnswer, xappVars
  <2>2. CASE failed' = failed
    BY <2>1, <2>2, XappUnchanged
  <2>3. ASSUME NEW x, NEW o, NEW what, Deliver(x, o, what)
        PROVE  XappInv'
    <3>1. failed' = failed \/ (xstate[x] = "gone"
              /\ failed' = [failed EXCEPT ![x] = IF @ < MaxNotices THEN @ + 1 ELSE @])
      BY <2>3 DEF Deliver
    <3>2. \A y \in XApps : xstate[y] # "gone" => failed'[y] = failed[y]
      BY <3>1 DEF TypeOK
    <3> QED
      BY <2>1, <3>2 DEF XappInv
  <2> QED
    BY <1>5, <2>2, <2>3, RouteAnswerCases, Zenon
<1>6. CASE \/ \E x \in XApps : \E o \in Own[x], op \in Ops, n \in Nodes : RequestArrives(x, o, op, n)
           \/ Forward \/ AddRoute
           \/ \E x \in XApps : \E o \in Own[x] : DeleteArrives(x, o)
           \/ \E p \in todo : ForwardDelete(p)
           \/ \E t \in tasks : StopPending(t)
           \/ \E t \in tasks : RemoveRoute(t)
  BY <1>6, XappUnchanged DEF RequestArrives, Forward, AddRoute, DeleteArrives, ForwardDelete,
                             StopPending, RemoveRoute, xappVars
<1>7. CASE \/ \E n \in Nodes : RegisterNode(n)
           \/ \E e \in pending : TimerExpires(e)
           \/ HandleTimer
           \/ \E n \in Nodes : NodeShutdown(n)
           \/ \E n \in Nodes : NodeJoins(n)
           \/ \E n \in Nodes : NodeHandles(n)
           \/ \E n \in Nodes : NodeReports(n)
           \/ \E n \in Nodes : NodeLeaves(n)
  BY <1>7, XappUnchanged DEF RegisterNode, TimerExpires, HandleTimer, NodeShutdown, NodeJoins,
                             NodeHandles, NodeReports, NodeLeaves, xappVars
<1> QED
  BY <1>1, <1>2, <1>3, <1>4, <1>5, <1>6, <1>7 DEF Next


-----------------------------------------------------------------------------
(* Holders, messages and identifiers.                                       *)

LEMMA FlyingFacts ==
    ASSUME TypeOK, NEW m \in Flying
    PROVE  /\ m.id \in Nat /\ m.req \in Request /\ m.op \in Ops \cup {"del"}
           /\ \E n \in Nodes : \E k \in DOMAIN toNode[n] : m = toNode[n][k]
<1>1. PICK n \in Nodes : \E k \in DOMAIN toNode[n] : m = toNode[n][k]
  BY DEF Flying
<1>2. PICK k \in DOMAIN toNode[n] : m = toNode[n][k]
  BY <1>1
<1> QED
  BY <1>2, MessageFacts

LEMMA HolderFacts ==
    ASSUME TypeOK, NEW h \in Holders
    PROVE  h.id \in Nat /\ h.req \in Request
<1>1. CASE h \in routes
  BY <1>1, RouteFacts
<1>2. CASE h \in todo
  BY <1>2, TodoFacts
<1>3. CASE h \in tasks
  BY <1>3, TaskFacts
<1>4. CASE h \in Flying
  BY <1>4, FlyingFacts
<1>5. CASE h \in Served
  <2>1. PICK n \in Nodes : h \in subs[n]
    BY <1>5 DEF Served
  <2> QED
    BY <2>1, SubFacts
<1>6. CASE h \in Forwarded
  BY <1>6, JobFacts DEF Forwarded
<1> QED
  BY <1>1, <1>2, <1>3, <1>4, <1>5, <1>6 DEF Holders

\* A step after which every identifier is held for a request that it stood for before
\* keeps the binding.
LEMMA BindStep ==
    ASSUME TypeOK, TypeOK', BindInv,
           \A h \in Holders' : \E g \in Holders : g.id = h.id /\ g.req = h.req,
           asked \subseteq asked', req_id' = req_id
    PROVE  BindInv'
<1>1. \A i : Given(i)' <=> Given(i)
  BY DEF Given
<1>2. \A h \in Holders' : Given(h.id)' /\ h.req \in asked'
  <2> SUFFICES ASSUME NEW h \in Holders' PROVE Given(h.id)' /\ h.req \in asked'
    OBVIOUS
  <2>1. PICK g \in Holders : g.id = h.id /\ g.req = h.req
    OBVIOUS
  <2>2. Given(g.id) /\ g.req \in asked
    BY DEF BindInv
  <2>3. Given(h.id)
    BY <2>1, <2>2
  <2> QED
    BY <1>1, <2>1, <2>2, <2>3
<1>3. \A g, h \in Holders' : g.id = h.id <=> g.req = h.req
  <2> SUFFICES ASSUME NEW g \in Holders', NEW h \in Holders' PROVE g.id = h.id <=> g.req = h.req
    OBVIOUS
  <2>1. PICK a \in Holders : a.id = g.id /\ a.req = g.req
    OBVIOUS
  <2>2. PICK b \in Holders : b.id = h.id /\ b.req = h.req
    OBVIOUS
  <2>3. a.id = b.id <=> a.req = b.req
    BY DEF BindInv
  <2> QED
    BY <2>1, <2>2, <2>3
<1> QED
  BY <1>2, <1>3 DEF BindInv

\* What is sent is the only message that is new.
LEMMA FlyingSend ==
    ASSUME TypeOK, NEW n \in Nodes, NEW m \in Message, Send(n, m)
    PROVE  Flying' \subseteq Flying \cup {m}
<1> SUFFICES ASSUME NEW h \in Flying' PROVE h \in Flying \cup {m}
  OBVIOUS
<1>1. PICK l \in Nodes : \E k \in DOMAIN toNode'[l] : h = toNode'[l][k]
  BY DEF Flying
<1>2. PICK k \in DOMAIN toNode'[l] : h = toNode'[l][k]
  BY <1>1
<1>3. \/ k \in DOMAIN toNode[l] /\ toNode'[l][k] = toNode[l][k]
      \/ toNode'[l][k] = m
  BY SendFacts
<1>4. CASE k \in DOMAIN toNode[l] /\ toNode'[l][k] = toNode[l][k]
  BY <1>2, <1>4 DEF Flying
<1> QED
  BY <1>2, <1>3, <1>4

LEMMA QueueSend ==
    ASSUME TypeOK, QueueInv, NEW n \in Nodes, NEW m \in Message, Send(n, m), m.req.node = n,
           \A h \in Flying : ~(h.op = m.op /\ h.id = m.id)
    PROVE  QueueInv'
<1>1. \A l \in Nodes : \A k \in DOMAIN toNode'[l] :
         \/ k \in DOMAIN toNode[l] /\ toNode'[l][k] = toNode[l][k] /\ toNode[l][k] \in Flying
         \/ l = n /\ k = Len(toNode[n]) + 1 /\ toNode'[l][k] = m
  <2> SUFFICES ASSUME NEW l \in Nodes, NEW k \in DOMAIN toNode'[l]
               PROVE  \/ k \in DOMAIN toNode[l] /\ toNode'[l][k] = toNode[l][k] /\ toNode[l][k] \in Flying
                      \/ l = n /\ k = Len(toNode[n]) + 1 /\ toNode'[l][k] = m
    OBVIOUS
  <2>1. \/ k \in DOMAIN toNode[l] /\ toNode'[l][k] = toNode[l][k]
        \/ l = n /\ k = Len(toNode[n]) + 1 /\ toNode'[l][k] = m
    BY SendFacts
  <2>2. k \in DOMAIN toNode[l] => toNode[l][k] \in Flying
    BY DEF Flying
  <2> QED
    BY <2>1, <2>2
<1>2. \A l \in Nodes : \A k \in DOMAIN toNode'[l] : toNode'[l][k].req.node = l
  BY <1>1 DEF QueueInv
<1>3. \A a, l \in Nodes : \A k \in DOMAIN toNode'[a], j \in DOMAIN toNode'[l] :
         toNode'[a][k].op = toNode'[l][j].op /\ toNode'[a][k].id = toNode'[l][j].id => a = l /\ k = j
  <2> SUFFICES ASSUME NEW a \in Nodes, NEW l \in Nodes,
                      NEW k \in DOMAIN toNode'[a], NEW j \in DOMAIN toNode'[l],
                      toNode'[a][k].op = toNode'[l][j].op, toNode'[a][k].id = toNode'[l][j].id
               PROVE  a = l /\ k = j
    OBVIOUS
  <2>1. \/ k \in DOMAIN toNode[a] /\ toNode'[a][k] = toNode[a][k] /\ toNode[a][k] \in Flying
        \/ a = n /\ k = Len(toNode[n]) + 1 /\ toNode'[a][k] = m
    BY <1>1
  <2>2. \/ j \in DOMAIN toNode[l] /\ toNode'[l][j] = toNode[l][j] /\ toNode[l][j] \in Flying
        \/ l = n /\ j = Len(toNode[n]) + 1 /\ toNode'[l][j] = m
    BY <1>1
  <2>3. CASE /\ k \in DOMAIN toNode[a] /\ toNode'[a][k] = toNode[a][k]
             /\ j \in DOMAIN toNode[l] /\ toNode'[l][j] = toNode[l][j]
    BY <2>3 DEF QueueInv
  <2> QED
    BY <2>1, <2>2, <2>3
<1> QED
  BY <1>2, <1>3 DEF QueueInv

\* A message that a node handles is taken from the messages on their way.
LEMMA FlyingHandled ==
    ASSUME TypeOK, QueueInv, NEW n \in Nodes, toNode[n] # <<>>, toNode' = [toNode EXCEPT ![n] = Tail(@)]
    PROVE  /\ Flying' \subseteq Flying /\ Head(toNode[n]) \in Flying /\ QueueInv'
           /\ \A h \in Flying' : ~(h.op = Head(toNode[n]).op /\ h.id = Head(toNode[n]).id)
           /\ Head(toNode[n]).req.node = n
<1> DEFINE m == Head(toNode[n])
           Was(l, k) == IF l = n THEN k + 1 ELSE k
<1>1. m = toNode[n][1] /\ 1 \in DOMAIN toNode[n]
  BY HeadFacts
<1>2. m \in Flying /\ m.req.node = n
  BY <1>1 DEF Flying, QueueInv
<1>3. \A l \in Nodes : \A k \in DOMAIN toNode'[l] :
         /\ Was(l, k) \in DOMAIN toNode[l] /\ toNode'[l][k] = toNode[l][Was(l, k)]
         /\ ~(l = n /\ Was(l, k) = 1)
  <2> TAKE l \in Nodes
  <2> TAKE k \in DOMAIN toNode'[l]
  <2>1. CASE l = n
    <3>1. l = n => /\ k + 1 \in DOMAIN toNode[l] /\ k + 1 # 1 /\ k \in Nat
                   /\ toNode'[l][k] = toNode[l][k + 1]
      BY TailFacts, Zenon
    <3>2. Was(l, k) = k + 1
      BY <2>1
    <3> HIDE DEF Was
    <3> QED
      BY <2>1, <3>1, <3>2
  <2>2. CASE l # n
    <3>1. k \in DOMAIN toNode[l] /\ toNode'[l][k] = toNode[l][k]
      BY <2>2, TailFacts
    <3>2. Was(l, k) = k
      BY <2>2
    <3> HIDE DEF Was
    <3> QED
      BY <2>2, <3>1, <3>2
  <2> QED
    BY <2>1, <2>2
<1>4. \A l \in Nodes : \A j, k \in DOMAIN toNode'[l] : Was(l, j) = Was(l, k) => j = k
  <2> SUFFICES ASSUME NEW l \in Nodes, NEW j \in DOMAIN toNode'[l], NEW k \in DOMAIN toNode'[l],
                      Was(l, j) = Was(l, k)
               PROVE  j = k
    OBVIOUS
  <2>1. CASE l = n
    <3>1. j \in Nat /\ k \in Nat
      BY <2>1, TailFacts
    <3> QED
      BY <2>1, <3>1
  <2> QED
    BY <2>1
<1> HIDE DEF m, Was
<1>5. \A h \in Flying' : h \in Flying /\ ~(h.op = m.op /\ h.id = m.id)
  <2> SUFFICES ASSUME NEW h \in Flying' PROVE h \in Flying /\ ~(h.op = m.op /\ h.id = m.id)
    OBVIOUS
  <2>1. PICK l \in Nodes : \E k \in DOMAIN toNode'[l] : h = toNode'[l][k]
    BY DEF Flying
  <2>2. PICK k \in DOMAIN toNode'[l] : h = toNode'[l][k]
    BY <2>1
  <2>3. Was(l, k) \in DOMAIN toNode[l] /\ h = toNode[l][Was(l, k)] /\ ~(l = n /\ Was(l, k) = 1)
    BY <1>3, <2>2
  <2>4. h \in Flying
    BY <2>3 DEF Flying
  <2>5. ~(h.op = m.op /\ h.id = m.id)
    BY <1>1, <2>3 DEF QueueInv
  <2> QED
    BY <2>4, <2>5
<1>6. QueueInv'
  <2>1. \A l \in Nodes : \A k \in DOMAIN toNode'[l] : toNode'[l][k].req.node = l
    BY <1>3 DEF QueueInv
  <2>2. \A a, l \in Nodes : \A k \in DOMAIN toNode'[a], j \in DOMAIN toNode'[l] :
         toNode'[a][k].op = toNode'[l][j].op /\ toNode'[a][k].id = toNode'[l][j].id => a = l /\ k = j
    BY <1>3, <1>4 DEF QueueInv
  <2> QED
    BY <2>1, <2>2 DEF QueueInv
<1> QED
  BY <1>2, <1>5, <1>6 DEF m

\* The messages on their way to a node that shuts down are lost.
LEMMA FlyingLost ==
    ASSUME TypeOK, QueueInv, NEW n \in Nodes, toNode' = [toNode EXCEPT ![n] = <<>>]
    PROVE  Flying' \subseteq Flying /\ QueueInv'
<1>1. \A l \in Nodes : \A k \in DOMAIN toNode'[l] :
         k \in DOMAIN toNode[l] /\ toNode'[l][k] = toNode[l][k]
  <2> SUFFICES ASSUME NEW l \in Nodes, NEW k \in DOMAIN toNode'[l]
               PROVE  k \in DOMAIN toNode[l] /\ toNode'[l][k] = toNode[l][k]
    OBVIOUS
  <2>1. CASE l = n
    <3>1. toNode'[l] = <<>>
      BY <2>1 DEF TypeOK
    <3> QED
      BY <3>1
  <2>2. CASE l # n
    BY <2>2 DEF TypeOK
  <2> QED
    BY <2>1, <2>2
<1>2. Flying' \subseteq Flying
  BY <1>1 DEF Flying
<1>3. QueueInv'
  BY <1>1 DEF QueueInv
<1> QED
  BY <1>2, <1>3

\* The identifier that a request is given is a new one.
LEMMA GivenNext ==
    ASSUME TypeOK, NextReqId # FirstReqId, req_id' = NextReqId
    PROVE  ~Given(req_id) /\ \A i \in Nat : Given(i) \/ i = req_id => Given(i)'
<1>1. req_id \in 0 .. IdSpace - 1 /\ IdSpace \in Nat /\ FirstReqId \in 1 .. IdSpace - 1
  BY IdAssumption DEF TypeOK
<1>2. ~Given(req_id)
  BY <1>1 DEF Given
<1>3. CASE req_id = IdSpace - 1
  <2>1. req_id' = 0
    BY <1>3 DEF NextReqId
  <2>2. \A i \in Nat : Given(i)' <=> (FirstReqId <= i /\ i < IdSpace) \/ i < 0
    BY <1>1, <2>1 DEF Given
  <2>3. \A i \in Nat : Given(i) <=> FirstReqId <= i /\ i < IdSpace - 1
    BY <1>1, <1>3 DEF Given
  <2> QED
    BY <1>1, <1>2, <1>3, <2>2, <2>3
<1>4. CASE req_id # IdSpace - 1
  <2>1. req_id' = req_id + 1 /\ req_id + 1 # FirstReqId
    BY <1>4 DEF NextReqId
  <2>2. CASE req_id >= FirstReqId
    <3>1. req_id' >= FirstReqId
      BY <1>1, <2>1, <2>2
    <3>2. \A i \in Nat : (Given(i)' <=> FirstReqId <= i /\ i < req_id + 1)
              /\ (Given(i) <=> FirstReqId <= i /\ i < req_id)
      BY <2>1, <2>2, <3>1 DEF Given
    <3> QED
      BY <1>1, <1>2, <2>2, <3>2
  <2>3. CASE ~(req_id >= FirstReqId)
    <3>1. ~(req_id' >= FirstReqId)
      BY <1>1, <2>1, <2>3
    <3>2. \A i \in Nat : (Given(i)' <=> (FirstReqId <= i /\ i < IdSpace) \/ i < req_id + 1)
              /\ (Given(i) <=> (FirstReqId <= i /\ i < IdSpace) \/ i < req_id)
      BY <2>1, <2>3, <3>1 DEF Given
    <3> QED
      BY <1>1, <1>2, <2>3, <3>2
  <2> QED
    BY <2>2, <2>3
<1> QED
  BY <1>3, <1>4

-----------------------------------------------------------------------------
(* The steps of the iApp.                                                   *)

\* Setups, and the steps that change nothing that the invariant is about.
LEMMA CoreFrame ==
    ASSUME TypeOK, CoreInv,
           UNCHANGED <<iapp, job, todo, routes, req_id, pending, tasks, toNode, subs,
                       asked, effect, closing, ended, heard>>,
           \A y \in XApps : xstate'[y] = "gone" <=> xstate[y] = "gone",
           \A i \in DOMAIN xapps : i \in DOMAIN xapps' /\ xapps'[i] = xapps[i]
    PROVE  CoreInv'
<1>1. /\ Flying' = Flying /\ Served' = Served /\ Forwarded' = Forwarded /\ Holders' = Holders
      /\ Carriers' = Carriers /\ Deleters' = Deleters
  BY DEF Flying, Served, Forwarded, Holders, Carriers, Deleters
<1>2. \A r \in Request : Lost(r)' <=> Lost(r)
  BY RequestFacts DEF Lost, Mistaken
<1>3. /\ \A h \in Holders : h.req \in Request
      /\ asked \subseteq Request /\ closing \subseteq Request
  BY HolderFacts DEF TypeOK
<1>4. routes \subseteq Holders /\ todo \subseteq Holders /\ tasks \subseteq Holders /\ Flying \subseteq Holders
  BY DEF Holders
<1>5. Carriers \subseteq Holders /\ Deleters \subseteq Holders
  BY <1>4 DEF Carriers, Deleters
<1>6. BindInv'
  BY <1>1 DEF CoreInv, BindInv, Given
<1>7. OwnerInv'
  BY DEF CoreInv, OwnerInv
<1>8. JobInv' /\ QueueInv' /\ KindInv' /\ PendingInv'
  BY <1>1 DEF CoreInv, JobInv, QueueInv, KindInv, PendingInv
<1>9. AskedInv'
  BY <1>2, <1>3 DEF CoreInv, AskedInv
<1>10. OnceInv'
  <2>1. \A t \in tasks : Exclusive(t)' <=> Exclusive(t)
    BY <1>2, <1>3, <1>4 DEF Exclusive
  <2> QED
    BY <1>1, <1>2, <1>3, <1>4, <2>1 DEF CoreInv, OnceInv
<1>11. RouteInv'
  <2>1. \A r \in Request : /\ Routed(r)' <=> Routed(r)
                           /\ Closed(r)' <=> Closed(r)
                           /\ Found(r)' <=> Found(r)
    BY <1>2 DEF Found, Routed, Closed, HasRoute
  <2> QED
    BY <1>1, <1>3, <1>5, <2>1 DEF CoreInv, RouteInv
<1>12. EffectInv'
  BY <1>1, <1>2, <1>3, <1>4 DEF CoreInv, EffectInv
<1>13. HeardInv'
  BY <1>1, <1>2, <1>3 DEF CoreInv, HeardInv
<1> QED
  BY <1>6, <1>7, <1>8, <1>9, <1>10, <1>11, <1>12, <1>13 DEF CoreInv

LEMMA SetupCore ==
    ASSUME TypeOK, CoreInv, XappInv, NEW x \in XApps, Setup(x)
    PROVE  CoreInv'
<1>1. UNCHANGED <<iapp, job, todo, routes, req_id, pending, tasks, toNode, subs,
                  asked, effect, closing, ended, heard>>
  BY DEF Setup, iappVars, ricVars, nodeVars, history
<1>2. \A y \in XApps : xstate'[y] = "gone" <=> xstate[y] = "gone"
  <2>1. /\ xstate \in [XApps -> {"starting", "up", "gone"}] /\ xstate[x] # "gone"
        /\ \/ xstate' = xstate \/ xstate' = [xstate EXCEPT ![x] = "starting"]
           \/ xstate' = [xstate EXCEPT ![x] = "up"]
    BY DEF Setup, xappVars, TypeOK
  <2> QED
    BY <2>1
<1>3. \A i \in DOMAIN xapps : i \in DOMAIN xapps' /\ xapps'[i] = xapps[i]
  <2>1. /\ xapp_id \in Nat /\ \A i \in DOMAIN xapps : i < xapp_id /\ i \in Nat
        /\ xapps' = [i \in DOMAIN xapps \cup {xapp_id} |-> IF i = xapp_id THEN x ELSE xapps[i]]
    BY DEF Setup, XappInv, TypeOK
  <2> QED
    BY <2>1
<1> QED
  BY <1>1, <1>2, <1>3, CoreFrame

LEMMA RequestArrivesCore ==
    ASSUME TypeOK, TypeOK', CoreInv, XappInv, NEW x \in XApps, NEW o \in Own[x], NEW op \in Ops,
           NEW n \in Nodes, RequestArrives(x, o, op, n)
    PROVE  CoreInv'
<1> DEFINE r == [xapp |-> x, own |-> o, op |-> op, node |-> n]
<1>1. /\ r \in Request /\ asked' = asked \cup {r} /\ r.xapp = x /\ r.own = o
      /\ \A q \in asked : ~(q.xapp = r.xapp /\ q.own = r.own)
  BY DEF RequestArrives, Request, OwnIds
<1>2. /\ iapp = "idle" /\ xstate[x] = "up" /\ iapp' \in {"forward", "idle"}
      /\ job'.req = r /\ job'.xid = mine[x]
      /\ UNCHANGED <<xstate, mine, xapps, todo, routes, req_id, pending, tasks, toNode, subs,
                     effect, closing, ended, heard>>
  BY DEF RequestArrives, IappIdle, xappVars, ricVars, nodeVars
<1> HIDE DEF r
<1>3. /\ Flying' = Flying /\ Served' = Served /\ Forwarded' = {} /\ Forwarded = {}
      /\ Holders' = Holders /\ Carriers' = Carriers /\ Deleters' = Deleters
  BY <1>2 DEF Flying, Served, Forwarded, Holders, Carriers, Deleters
<1>4. r \notin asked /\ \A h \in Holders : h.req # r
  BY <1>1 DEF CoreInv, BindInv
<1>5. \A what : About(r, what) \notin heard
  BY <1>1 DEF CoreInv, HeardInv, About
<1>6. BindInv'
  BY <1>1, <1>2, <1>3 DEF CoreInv, BindInv, Given
<1>7. OwnerInv'
  <2>1. mine[x] \in DOMAIN xapps /\ xapps[mine[x]] = r.xapp
    BY <1>1, <1>2 DEF XappInv
  <2> QED
    BY <1>2, <2>1 DEF CoreInv, OwnerInv
<1>8. JobInv'
  BY <1>1, <1>2, <1>3, <1>4 DEF CoreInv, JobInv, AskedInv
<1>9. QueueInv' /\ KindInv' /\ PendingInv' /\ OnceInv' /\ EffectInv'
  BY <1>2, <1>3 DEF CoreInv, QueueInv, KindInv, PendingInv, OnceInv, EffectInv, Exclusive, Lost, Mistaken
<1>10. AskedInv'
  BY <1>1, <1>2, <1>4 DEF CoreInv, AskedInv, Lost, Mistaken
<1>11. RouteInv'
  <2>1. \A h : Routed(h)' <=> Routed(h)
    BY <1>2 DEF Routed, HasRoute, Lost, Mistaken
  <2>2. \A h : (Closed(h)' <=> Closed(h)) /\ (Found(h)' <=> Found(h))
    BY <1>2 DEF Closed, Found, HasRoute, Lost, Mistaken
  <2> QED
    BY <1>1, <1>2, <1>3, <1>5, <2>1, <2>2 DEF CoreInv, RouteInv
<1>12. HeardInv'
  BY <1>1, <1>2, <1>3, <1>5 DEF CoreInv, HeardInv, Lost, Mistaken
<1> QED
  BY <1>6, <1>7, <1>8, <1>9, <1>10, <1>11, <1>12 DEF CoreInv

\* A request that is sent and noted as the one whose route is missing.
LEMMA ForwardSends ==
    ASSUME TypeOK, TypeOK', CoreInv, Forward, iapp' = "route"
    PROVE  CoreInv'
<1> DEFINE r == job.req
           m == [op |-> r.op, id |-> req_id, req |-> r]
<1>1. /\ iapp = "forward" /\ job'.req = r /\ job'.id = req_id /\ job'.xid = job.xid
      /\ pending' = pending \cup {[ev |-> r.op, id |-> req_id]}
      /\ Send(r.node, m) /\ NextReqId # FirstReqId /\ req_id' = NextReqId
      /\ UNCHANGED <<xstate, xapps, todo, routes, tasks, subs, asked, effect, closing, ended, heard>>
  BY JobFacts DEF Forward, xappVars, history, TypeOK
<1>2. r \in Request /\ r.op \in Ops /\ r.node \in Nodes /\ req_id \in Nat
  BY JobFacts, RequestFacts, IdAssumption DEF TypeOK
<1> HIDE DEF r
<1>3. m \in Message /\ m.op = r.op /\ m.id = req_id /\ m.req = r
  BY <1>2 DEF Message
<1> HIDE DEF m
<1>4. Flying' \subseteq Flying \cup {m}
  BY <1>1, <1>2, <1>3, FlyingSend
<1>5. /\ ~Given(req_id) /\ \A i \in Nat : Given(i) \/ i = req_id => Given(i)'
  BY <1>1, GivenNext
<1>6. \A h \in Holders : h.id # req_id /\ h.req # r /\ h.id \in Nat
  BY <1>1, <1>5, HolderFacts DEF CoreInv, BindInv, JobInv, r
<1>7. r \in asked /\ r \notin effect
  BY <1>1 DEF CoreInv, JobInv, r
<1>8. /\ Served' = Served /\ Forwarded' = {job'} /\ Forwarded = {}
      /\ Carriers' \subseteq Carriers \cup {m} /\ Deleters' \subseteq Deleters
  <2>1. m.op # "del"
    BY <1>2, <1>3 DEF Ops
  <2> QED
    BY <1>1, <1>4, <2>1 DEF Served, Forwarded, Carriers, Deleters
<1>9. \A h \in Holders' : h \in Holders \/ (h.id = req_id /\ h.req = r)
  BY <1>1, <1>3, <1>4, <1>8 DEF Holders
<1>10. BindInv'
  <2>1. \A h \in Holders' : Given(h.id)' /\ h.req \in asked'
    BY <1>1, <1>2, <1>5, <1>6, <1>7, <1>9 DEF CoreInv, BindInv
  <2>2. \A g, h \in Holders' : g.id = h.id <=> g.req = h.req
    BY <1>6, <1>9 DEF CoreInv, BindInv
  <2> QED
    BY <2>1, <2>2 DEF BindInv
<1>11. OwnerInv'
  BY <1>1 DEF CoreInv, OwnerInv, r
<1>12. routes \subseteq Holders /\ todo \subseteq Holders /\ tasks \subseteq Holders /\ Flying \subseteq Holders
  BY DEF Holders
<1>13. JobInv'
  BY <1>1, <1>6, <1>12 DEF JobInv
<1>14. AskedInv'
  BY <1>1 DEF CoreInv, AskedInv, Lost, Mistaken
<1>15. QueueInv'
  <2>1. \A h \in Flying : ~(h.op = m.op /\ h.id = m.id)
    BY <1>3, <1>6, <1>12
  <2> QED
    BY <1>1, <1>2, <1>3, <2>1, QueueSend DEF CoreInv
<1>16. KindInv' /\ PendingInv'
  BY <1>1, <1>2, <1>3, <1>4 DEF CoreInv, KindInv, PendingInv
<1>17. OnceInv'
  BY <1>1, <1>2, <1>3, <1>4, <1>6, <1>12 DEF CoreInv, OnceInv, Exclusive, Lost, Mistaken, Ops
<1>18. RouteInv'
  <2>1. \A q : Routed(q) \/ q = r => Routed(q)'
    BY <1>1 DEF Routed, HasRoute, Lost, Mistaken
  <2>2. \A q : (Closed(q) => Closed(q)') /\ (Found(q) => Found(q)')
    BY <1>1 DEF Closed, Found, HasRoute, Lost, Mistaken
  <2> QED
    BY <1>1, <1>3, <1>8, <2>1, <2>2 DEF CoreInv, RouteInv
<1>19. EffectInv'
  BY <1>1, <1>3, <1>4, <1>7 DEF CoreInv, EffectInv, Lost, Mistaken
<1>20. HeardInv'
  BY <1>1, <1>3, <1>7, <1>8 DEF CoreInv, HeardInv, Lost, Mistaken
<1> QED
  BY <1>10, <1>11, <1>13, <1>14, <1>15, <1>16, <1>17, <1>18, <1>19, <1>20 DEF CoreInv

\* A request whose node's address is not known: the process aborts.
LEMMA ForwardFails ==
    ASSUME TypeOK, TypeOK', CoreInv, Forward, iapp' # "route"
    PROVE  CoreInv'
<1>1. /\ iapp = "forward" /\ job'.req = job.req /\ job'.xid = job.xid
      /\ pending \subseteq pending' /\ NextReqId # FirstReqId /\ req_id' = NextReqId
      /\ UNCHANGED <<xstate, xapps, todo, routes, tasks, subs, asked, effect, closing, ended, heard,
                     iapp, toNode>>
  BY JobFacts DEF Forward, xappVars, history, TypeOK
<1>2. \A i \in Nat : Given(i) => Given(i)'
  BY <1>1, GivenNext
<1>3. /\ Flying' = Flying /\ Served' = Served /\ Forwarded' = {} /\ Forwarded = {}
      /\ Holders' = Holders /\ Carriers' = Carriers /\ Deleters' = Deleters
  BY <1>1 DEF Flying, Served, Forwarded, Holders, Carriers, Deleters
<1>4. BindInv'
  BY <1>1, <1>2, <1>3, HolderFacts DEF CoreInv, BindInv
<1>5. OwnerInv' /\ JobInv'
  BY <1>1, <1>3 DEF CoreInv, OwnerInv, JobInv
<1>6. QueueInv' /\ KindInv' /\ PendingInv' /\ OnceInv' /\ EffectInv'
  BY <1>1, <1>3 DEF CoreInv, QueueInv, KindInv, PendingInv, OnceInv, EffectInv, Exclusive, Lost, Mistaken
<1>7. AskedInv' /\ HeardInv'
  BY <1>1, <1>3 DEF CoreInv, AskedInv, HeardInv, Lost, Mistaken
<1>8. RouteInv'
  <2>1. \A q : (Found(q) => Found(q)') /\ (Routed(q) => Routed(q)') /\ (Closed(q) => Closed(q)')
    BY <1>1 DEF Found, Routed, Closed, HasRoute, Lost, Mistaken
  <2> QED
    BY <1>1, <1>3, <2>1 DEF CoreInv, RouteInv
<1> QED
  BY <1>4, <1>5, <1>6, <1>7, <1>8 DEF CoreInv

LEMMA AddRouteCore ==
    ASSUME TypeOK, TypeOK', CoreInv, AddRoute
    PROVE  CoreInv'
<1>1. /\ iapp = "route"
      /\ UNCHANGED <<xstate, xapps, todo, req_id, pending, tasks, toNode, subs, asked, effect,
                     closing, ended, heard>>
  BY DEF AddRoute, xappVars, ricVars, nodeVars, history
<1>2. CASE UNCHANGED <<routes, iapp, job>>
  BY <1>1, <1>2, CoreFrame
<1>3. CASE /\ \A p \in routes : p.id # job.id
           /\ routes' = routes \cup {[id |-> job.id, xid |-> job.xid, req |-> job.req]}
           /\ iapp' = "idle"
  <2> DEFINE p0 == [id |-> job.id, xid |-> job.xid, req |-> job.req]
  <2>1. routes' = routes \cup {p0} /\ p0.id = job.id /\ p0.xid = job.xid /\ p0.req = job.req
    BY <1>3
  <2> HIDE DEF p0
  <2>2. /\ Flying' = Flying /\ Served' = Served /\ Forwarded' = {} /\ Forwarded = {job}
        /\ Carriers' = Carriers /\ Deleters' = Deleters
    BY <1>1, <1>3 DEF Flying, Served, Forwarded, Carriers, Deleters
  <2>3. \A h \in Holders' : h \in Holders \/ h = p0
    BY <1>1, <2>1, <2>2 DEF Holders
  <2>4. job \in Holders
    BY <2>2 DEF Holders
  <2>5. BindInv'
    <3>1. \A h \in Holders' : \E g \in Holders : g.id = h.id /\ g.req = h.req
      BY <2>1, <2>3, <2>4
    <3> QED
      BY <1>1, <3>1, BindStep DEF CoreInv
  <2>6. OwnerInv' /\ JobInv'
    BY <1>1, <1>3, <2>1 DEF CoreInv, OwnerInv, JobInv
  <2>7. QueueInv' /\ KindInv' /\ PendingInv' /\ EffectInv'
    BY <1>1, <2>2 DEF CoreInv, QueueInv, KindInv, PendingInv, EffectInv, Lost, Mistaken
  <2>8. OnceInv'
    BY <1>1, <1>3, <2>1, <2>2 DEF CoreInv, OnceInv, Exclusive, Lost, Mistaken
  <2>9. AskedInv' /\ HeardInv'
    BY <1>1, <2>2 DEF CoreInv, AskedInv, HeardInv, Lost, Mistaken
  <2>10. RouteInv'
    <3>1. \A q : HasRoute(q) \/ q = job.req => HasRoute(q)'
      BY <2>1 DEF HasRoute
    <3>2. \A q : (Found(q) => Found(q)') /\ (Routed(q) => Routed(q)') /\ (Closed(q) => Closed(q)')
      BY <1>1, <3>1 DEF Found, Routed, Closed, Lost, Mistaken
    <3> QED
      BY <1>1, <2>2, <3>1, <3>2 DEF CoreInv, RouteInv
  <2> QED
    BY <2>5, <2>6, <2>7, <2>8, <2>9, <2>10 DEF CoreInv
<1> QED
  BY <1>2, <1>3 DEF AddRoute

\* A set of numbers that is not empty has a smallest element.
LEMMA SmallestExists ==
    ASSUME NEW S, S \subseteq Nat, S # {}
    PROVE  \E i \in S : \A j \in S : i <= j
<1> DEFINE R == OpToRel(<, Nat)
<1>1. \A x, y \in Nat : x < y => <<x, y>> \in R
  BY DEF OpToRel
<1>2. IsWellFoundedOn(R, Nat)
  BY NatLessThanWellFounded
<1> HIDE DEF R
<1>3. PICK x \in S : \A y \in S : ~ (<<y, x>> \in R)
  BY <1>2, WFMin
<1>4. ASSUME NEW y \in S PROVE x <= y
  <2>1. x \in Nat /\ y \in Nat
    OBVIOUS
  <2>2. ~ (y < x)
    BY <1>1, <1>3, <2>1
  <2> QED
    BY <2>1, <2>2
<1> QED
  BY <1>4

\* A delete finds a route if there is one with its own id.
LEMMA FirstRouteExists ==
    ASSUME TypeOK, NEW o, NEW p \in routes, p.req.own = o
    PROVE  FirstRoutesOf(o) # {}
<1> DEFINE S == {q.xid : q \in {q \in routes : q.req.own = o}}
<1>1. S \subseteq Nat /\ p.xid \in S
  BY RouteFacts
<1>2. PICK i \in S : \A j \in S : i <= j
  BY <1>1, SmallestExists
<1>3. PICK q \in routes : q.req.own = o /\ q.xid = i
  OBVIOUS
<1>4. \A g \in routes : g.req.own = o => q.xid <= g.xid
  BY <1>2, <1>3
<1> QED
  BY <1>3, <1>4 DEF FirstRoutesOf

\* Two xApps' requests with the same own id.
Twins(q, r) == q.own = r.own /\ q.xapp # r.xapp

\* The delete of a confirmed subscription finds its route, or the route of another
\* xApp's request with the same own id, or nothing if its route has been removed by
\* another xApp's delete.
LEMMA DeleteArrivesStep ==
    ASSUME TypeOK, CoreInv, NEW x \in XApps, NEW o \in Own[x], DeleteArrives(x, o)
    PROVE  \E r \in asked \ closing :
              /\ r.op = "sub" /\ About(r, "done") \in heard /\ closing' = closing \cup {r}
              /\ r.xapp = x /\ xstate[x] = "up"
              /\ \/ /\ aborted' = "xApp RIC ID not found" /\ Mistaken(r)
                    /\ UNCHANGED <<iapp, todo>>
                 \/ \E p \in routes :
                       /\ p.req = r \/ Twins(p.req, r)
                       /\ \/ p.req.op = "sub" /\ todo' = {p} /\ iapp' = "delete" /\ UNCHANGED aborted
                          \/ /\ p.req.op = "control" /\ Twins(p.req, r)
                             /\ aborted' = "not a subscription" /\ UNCHANGED <<iapp, todo>>
<1>1. PICK r \in asked : /\ r.xapp = x /\ r.own = o /\ r.op = "sub" /\ r \notin closing
                         /\ About(r, "done") \in heard /\ closing' = closing \cup {r}
  BY DEF DeleteArrives
<1>2. xstate[x] = "up"
  BY DEF DeleteArrives
<1>3. CASE FirstRoutesOf(o) = {}
  <2>1. ~HasRoute(r)
    BY <1>1, <1>3, FirstRouteExists DEF HasRoute
  <2>2. Lost(r)
    BY <1>1, <2>1 DEF CoreInv, RouteInv, Found
  <2>3. Mistaken(r)
    BY <1>1, <1>2, <2>2 DEF Lost
  <2>4. aborted' = "xApp RIC ID not found" /\ UNCHANGED <<iapp, todo>>
    BY <1>3 DEF DeleteArrives, Abort
  <2> QED
    BY <1>1, <1>2, <2>3, <2>4
<1>4. ASSUME NEW p \in FirstRoutesOf(o),
             \/ p.req.op = "sub" /\ iapp' = "delete" /\ todo' = {p} /\ UNCHANGED aborted
             \/ p.req.op # "sub" /\ Abort("not a subscription") /\ UNCHANGED <<iapp, todo>>
      PROVE  \E q \in routes :
                /\ q.req = r \/ Twins(q.req, r)
                /\ \/ q.req.op = "sub" /\ todo' = {q} /\ iapp' = "delete" /\ UNCHANGED aborted
                   \/ /\ q.req.op = "control" /\ Twins(q.req, r)
                      /\ aborted' = "not a subscription" /\ UNCHANGED <<iapp, todo>>
  <2>1. p \in routes /\ p.req.own = o
    BY <1>4 DEF FirstRoutesOf
  <2>2. p.req \in asked /\ p.req.op \in Ops
    BY <2>1, RouteFacts DEF CoreInv, BindInv, Holders, Request
  <2>3. p.req = r \/ Twins(p.req, r)
    <3>1. CASE p.req.xapp = x
      BY <1>1, <2>1, <2>2, <3>1 DEF CoreInv, AskedInv
    <3>2. CASE p.req.xapp # x
      BY <1>1, <2>1, <3>2 DEF Twins
    <3> QED
      BY <3>1, <3>2
  <2>4. p.req.op # "sub" => p.req # r /\ p.req.op = "control"
    BY <1>1, <2>2 DEF Ops
  <2> QED
    BY <1>4, <2>1, <2>3, <2>4 DEF Abort
<1>5. \/ FirstRoutesOf(o) = {}
      \/ \E p \in FirstRoutesOf(o) :
            \/ p.req.op = "sub" /\ iapp' = "delete" /\ todo' = {p} /\ UNCHANGED aborted
            \/ p.req.op # "sub" /\ Abort("not a subscription") /\ UNCHANGED <<iapp, todo>>
  BY DEF DeleteArrives
<1>6. (\E p \in FirstRoutesOf(o) :
            \/ p.req.op = "sub" /\ iapp' = "delete" /\ todo' = {p} /\ UNCHANGED aborted
            \/ p.req.op # "sub" /\ Abort("not a subscription") /\ UNCHANGED <<iapp, todo>>) =>
      \E q \in routes :
            /\ q.req = r \/ Twins(q.req, r)
            /\ \/ q.req.op = "sub" /\ todo' = {q} /\ iapp' = "delete" /\ UNCHANGED aborted
               \/ /\ q.req.op = "control" /\ Twins(q.req, r)
                  /\ aborted' = "not a subscription" /\ UNCHANGED <<iapp, todo>>
  BY <1>4, Zenon
<1> QED
  BY <1>1, <1>2, <1>3, <1>5, <1>6

LEMMA DeleteArrivesCore ==
    ASSUME TypeOK, TypeOK', CoreInv, NEW x \in XApps, NEW o \in Own[x], DeleteArrives(x, o)
    PROVE  CoreInv'
<1>0. PICK r \in asked \ closing :
         /\ r.op = "sub" /\ About(r, "done") \in heard /\ closing' = closing \cup {r}
         /\ r.xapp = x /\ xstate[x] = "up"
         /\ \/ /\ aborted' = "xApp RIC ID not found" /\ Mistaken(r)
               /\ UNCHANGED <<iapp, todo>>
            \/ \E p \in routes :
                  /\ p.req = r \/ Twins(p.req, r)
                  /\ \/ p.req.op = "sub" /\ todo' = {p} /\ iapp' = "delete" /\ UNCHANGED aborted
                     \/ /\ p.req.op = "control" /\ Twins(p.req, r)
                        /\ aborted' = "not a subscription" /\ UNCHANGED <<iapp, todo>>
  BY DeleteArrivesStep
<1>1. /\ r \in asked /\ r \notin closing /\ r.op = "sub" /\ About(r, "done") \in heard
      /\ closing' = closing \cup {r}
      /\ \/ iapp' = iapp /\ todo' = todo
         \/ \E p \in routes :
               /\ p.req = r \/ Twins(p.req, r)
               /\ p.req.op = "sub" /\ todo' = {p} /\ iapp' = "delete"
  BY <1>0
<1>2. /\ iapp = "idle" /\ iapp' \in {"idle", "delete"}
      /\ UNCHANGED <<xstate, xapps, job, routes, req_id, pending, tasks, toNode, subs, asked,
                     effect, ended, heard>>
  BY <1>1 DEF DeleteArrives, IappIdle, xappVars, ricVars, nodeVars
<1>3. /\ Flying' = Flying /\ Served' = Served /\ Forwarded' = {} /\ Forwarded = {}
      /\ Carriers' = Carriers
  BY <1>2 DEF Flying, Served, Forwarded, Carriers
<1>4. /\ \A p \in todo' :
             p \in todo \/ (p \in routes /\ p.req.op = "sub" /\ (p.req = r \/ Twins(p.req, r)))
      /\ todo' = todo \/ \A p, q \in todo' : p = q
  <2>1. CASE todo' = todo
    BY <2>1
  <2>2. ASSUME NEW p \in routes, p.req = r \/ Twins(p.req, r), p.req.op = "sub", todo' = {p}
        PROVE  /\ \A q \in todo' : q \in routes /\ q.req.op = "sub" /\ (q.req = r \/ Twins(q.req, r))
               /\ \A q, h \in todo' : q = h
    BY <2>2
  <2> QED
    BY <1>1, <2>1, <2>2, Zenon
<1>5. Holders' \subseteq Holders /\ routes \cup Flying \cup tasks \subseteq Holders
  BY <1>2, <1>3, <1>4 DEF Holders
<1>6. \A q : Lost(q) => Lost(q)'
  BY <1>1, <1>2 DEF Lost, Mistaken
<1>7. \A q : Twins(q, r) => Lost(q)'
  BY <1>1 DEF Lost, Mistaken, Twins
<1>8. \A p \in todo', h \in Flying \cup tasks : ~Lost(p.req)' => ~(h.op = "del" /\ h.id = p.id)
  <2> SUFFICES ASSUME NEW p \in todo', NEW h \in Flying \cup tasks, h.op = "del", h.id = p.id
               PROVE  Lost(p.req)'
    OBVIOUS
  <2>1. CASE p \in todo
    BY <1>6, <2>1 DEF CoreInv, OnceInv
  <2>2. CASE Twins(p.req, r)
    BY <1>7, <2>2
  <2>3. CASE p \in routes /\ p.req = r
    <3>1. h \in Deleters
      BY DEF Deleters
    <3>2. h.req = r
      BY <1>5, <2>3 DEF CoreInv, BindInv
    <3>3. Lost(r)
      BY <3>1, <3>2 DEF CoreInv, RouteInv, Closed
    <3> QED
      BY <1>6, <2>3, <3>3
  <2> QED
    BY <1>4, <2>1, <2>2, <2>3
<1>9. BindInv'
  BY <1>2, <1>5, BindStep DEF CoreInv
<1>10. OwnerInv' /\ JobInv' /\ QueueInv' /\ PendingInv'
  BY <1>2, <1>3 DEF CoreInv, OwnerInv, JobInv, QueueInv, PendingInv
<1>11. KindInv'
  BY <1>2, <1>3, <1>4 DEF CoreInv, KindInv
<1>12. AskedInv' /\ HeardInv'
  BY <1>1, <1>2, <1>3 DEF CoreInv, AskedInv, HeardInv
<1>13. EffectInv'
  BY <1>2, <1>3, <1>6 DEF CoreInv, EffectInv
<1>14. OnceInv'
  <2>1. \A t : Exclusive(t)' => Exclusive(t)
    BY <1>6 DEF Exclusive
  <2>2. \A p, q \in todo' : p.id = q.id => p = q
    BY <1>4 DEF CoreInv, OnceInv
  <2> QED
    BY <1>2, <1>3, <1>8, <2>1, <2>2 DEF CoreInv, OnceInv
<1>15. RouteInv'
  <2>1. \A q : HasRoute(q)' <=> HasRoute(q)
    BY <1>2 DEF HasRoute
  <2>2. \A q : (Found(q) => Found(q)') /\ (Routed(q) => Routed(q)') /\ (Closed(q) => Closed(q)')
    BY <1>1, <1>2, <1>6, <2>1 DEF Found, Routed, Closed
  <2>3. \A p \in routes : p.req = r => Closed(p.req)'
    BY <1>1, <1>2, <2>1 DEF Closed, HasRoute, CoreInv, HeardInv
  <2>4. \A q : Twins(q, r) => Closed(q)'
    BY <1>7 DEF Closed
  <2>5. \A h \in Deleters' : h \in Deleters \/ (h \in routes /\ (h.req = r \/ Twins(h.req, r)))
    BY <1>2, <1>3, <1>4 DEF Deleters
  <2>6. \A h \in Deleters' : Closed(h.req)'
    BY <2>2, <2>3, <2>4, <2>5 DEF CoreInv, RouteInv
  <2>7. \A h \in Carriers' : Routed(h.req)'
    BY <1>3, <2>2 DEF CoreInv, RouteInv
  <2> QED
    BY <1>1, <1>2, <2>2, <2>6, <2>7 DEF CoreInv, RouteInv
<1> QED
  BY <1>9, <1>10, <1>11, <1>12, <1>13, <1>14, <1>15 DEF CoreInv

\* The address that could not be reached has an id.
LEMMA AddressHasId ==
    ASSUME TypeOK, XappInv, NEW x \in XApps, xstate[x] = "gone"
    PROVE  IdOfAddress(x) \in DOMAIN xapps /\ xapps[IdOfAddress(x)] = x
<1> DEFINE S == {i \in DOMAIN xapps : xapps[i] = x}
<1>1. S \subseteq Nat /\ mine[x] \in S
  BY DEF TypeOK, XappInv
<1>2. PICK i \in S : \A j \in S : i <= j
  BY <1>1, SmallestExists
<1>3. i \in DOMAIN xapps /\ xapps[i] = x /\ \A j \in DOMAIN xapps : xapps[j] = x => i <= j
  BY <1>2
<1> QED
  BY <1>3 DEF IdOfAddress

LEMMA XappDisconnectedCore ==
    ASSUME TypeOK, TypeOK', CoreInv, XappInv, NEW x \in XApps, XappDisconnected(x)
    PROVE  CoreInv'
<1>1. /\ iapp = "idle" /\ iapp' \in {"idle", "clean"} /\ failed[x] > 0
      /\ todo' = SubscriptionsOf(IdOfAddress(x))
      /\ UNCHANGED <<xstate, xapps, job, routes, req_id, pending, tasks, toNode, subs, asked,
                     effect, closing, ended, heard>>
  BY DEF XappDisconnected, IappIdle, xappVars, ricVars, nodeVars, history
<1>2. xstate[x] = "gone"
  BY <1>1 DEF XappInv
<1>3. IdOfAddress(x) \in DOMAIN xapps /\ xapps[IdOfAddress(x)] = x
  BY <1>2, AddressHasId
<1>4. \A p \in todo' : p \in routes /\ p.req.op = "sub" /\ p.req.xapp = x
  BY <1>1, <1>3 DEF SubscriptionsOf, CoreInv, OwnerInv
<1>5. routes \subseteq Holders
  BY DEF Holders
<1>6. \A p \in todo' : Lost(p.req)
  BY <1>2, <1>4, <1>5 DEF Lost, Mistaken, CoreInv, BindInv, AskedInv
<1>7. /\ Flying' = Flying /\ Served' = Served /\ Forwarded' = {} /\ Forwarded = {}
      /\ Carriers' = Carriers
  BY <1>1 DEF Flying, Served, Forwarded, Carriers
<1>8. Holders' \subseteq Holders
  BY <1>1, <1>4, <1>7 DEF Holders
<1>9. BindInv'
  BY <1>1, <1>8, BindStep DEF CoreInv
<1>10. OwnerInv' /\ JobInv' /\ QueueInv' /\ PendingInv' /\ EffectInv'
  BY <1>1, <1>7 DEF CoreInv, OwnerInv, JobInv, QueueInv, PendingInv, EffectInv, Lost, Mistaken
<1>11. KindInv'
  BY <1>1, <1>4, <1>7 DEF CoreInv, KindInv
<1>12. AskedInv' /\ HeardInv'
  BY <1>1, <1>7 DEF CoreInv, AskedInv, HeardInv, Lost, Mistaken
<1>13. OnceInv'
  BY <1>1, <1>4, <1>6, <1>7 DEF CoreInv, OnceInv, Exclusive, Lost, Mistaken
<1>14. RouteInv'
  <2>1. \A q : (Found(q) => Found(q)') /\ (Routed(q) => Routed(q)') /\ (Closed(q) => Closed(q)')
    BY <1>1 DEF Found, Routed, Closed, HasRoute, Lost, Mistaken
  <2>2. \A p \in todo' : Closed(p.req)
    BY <1>6 DEF Closed
  <2>3. \A h \in Deleters' : h \in Deleters \/ h \in todo'
    BY <1>1, <1>7 DEF Deleters
  <2> QED
    BY <1>1, <1>7, <2>1, <2>2, <2>3 DEF CoreInv, RouteInv
<1> QED
  BY <1>9, <1>10, <1>11, <1>12, <1>13, <1>14 DEF CoreInv

\* A delete that is not sent, because one is pending or the node is unknown.
LEMMA DeleteUnsent ==
    ASSUME TypeOK, TypeOK', CoreInv, NEW p \in todo, ForwardDelete(p), toNode' = toNode
    PROVE  CoreInv'
<1>1. /\ iapp \in {"delete", "clean"} /\ iapp' \in {"idle", "delete", "clean"}
      /\ todo' = todo \ {p} /\ pending \subseteq pending'
      /\ UNCHANGED <<xstate, xapps, job, routes, req_id, tasks, toNode, subs, asked,
                     effect, closing, ended, heard>>
  BY DEF ForwardDelete, xappVars, history
<1>2. /\ Flying' = Flying /\ Served' = Served /\ Forwarded' = {} /\ Forwarded = {}
      /\ Carriers' = Carriers /\ Deleters' \subseteq Deleters
  BY <1>1 DEF Flying, Served, Forwarded, Carriers, Deleters
<1>3. Holders' \subseteq Holders
  BY <1>1, <1>2 DEF Holders
<1>4. BindInv'
  BY <1>1, <1>3, BindStep DEF CoreInv
<1>5. OwnerInv' /\ JobInv' /\ QueueInv' /\ PendingInv' /\ EffectInv' /\ KindInv'
  BY <1>1, <1>2 DEF CoreInv, OwnerInv, JobInv, QueueInv, PendingInv, EffectInv, KindInv, Lost, Mistaken
<1>6. AskedInv' /\ HeardInv' /\ OnceInv'
  BY <1>1, <1>2 DEF CoreInv, AskedInv, HeardInv, OnceInv, Exclusive, Lost, Mistaken
<1>7. RouteInv'
  <2>1. \A q : (Found(q) => Found(q)') /\ (Routed(q) => Routed(q)') /\ (Closed(q) => Closed(q)')
    BY <1>1 DEF Found, Routed, Closed, HasRoute, Lost, Mistaken
  <2> QED
    BY <1>1, <1>2, <2>1 DEF CoreInv, RouteInv
<1> QED
  BY <1>4, <1>5, <1>6, <1>7 DEF CoreInv

LEMMA DeleteSent ==
    ASSUME TypeOK, TypeOK', CoreInv, NEW p \in todo, ForwardDelete(p), ~DeletePending(p),
           Send(p.req.node, [op |-> "del", id |-> p.id, req |-> p.req])
    PROVE  CoreInv'
<1> DEFINE m == [op |-> "del", id |-> p.id, req |-> p.req]
<1>1. /\ iapp \in {"delete", "clean"} /\ iapp' \in {"idle", "delete", "clean"}
      /\ todo' = todo \ {p} /\ pending' = pending \cup {[ev |-> "del", id |-> p.id]}
      /\ UNCHANGED <<xstate, xapps, job, routes, req_id, tasks, subs, asked,
                     effect, closing, ended, heard>>
  BY DEF ForwardDelete, xappVars, history
<1>2. p.req.node \in Nodes /\ m \in Message /\ m.op = "del" /\ m.id = p.id /\ m.req = p.req
  BY TodoFacts DEF Message
<1>3. Send(p.req.node, m)
  OBVIOUS
<1> HIDE DEF m
<1>4. Flying' \subseteq Flying \cup {m}
  BY <1>2, <1>3, FlyingSend
<1>5. /\ \A h \in Flying : ~(h.op = "del" /\ h.id = p.id)
      /\ \A t \in tasks : t.at = "stop" => ~(t.op = "del" /\ t.id = p.id)
  BY DEF DeletePending, CoreInv, PendingInv
<1>6. /\ Served' = Served /\ Forwarded' = {} /\ Forwarded = {}
      /\ Carriers' \subseteq Carriers /\ Deleters' \subseteq Deleters \cup {m}
  BY <1>1, <1>2, <1>4 DEF Served, Forwarded, Carriers, Deleters, Ops
<1>7. p \in Holders /\ p \in Deleters /\ tasks \subseteq Holders
  BY DEF Holders, Deleters
<1>8. \A h \in Holders' : h \in Holders \/ h = m
  BY <1>1, <1>4, <1>6 DEF Holders
<1>9. BindInv'
  <2>1. \A h \in Holders' : \E g \in Holders : g.id = h.id /\ g.req = h.req
    BY <1>2, <1>7, <1>8
  <2> QED
    BY <1>1, <2>1, BindStep DEF CoreInv
<1>10. QueueInv'
  BY <1>2, <1>3, <1>5, QueueSend DEF CoreInv
<1>11. OwnerInv' /\ JobInv' /\ AskedInv'
  BY <1>1 DEF CoreInv, OwnerInv, JobInv, AskedInv, Lost, Mistaken
<1>12. PendingInv'
  BY <1>1, <1>2, <1>4 DEF CoreInv, PendingInv
<1>13. KindInv' /\ EffectInv'
  BY <1>1, <1>2, <1>4 DEF CoreInv, KindInv, EffectInv, Lost, Mistaken, Ops
<1>14. HeardInv'
  BY <1>1, <1>6 DEF CoreInv, HeardInv, Lost, Mistaken
<1>15. OnceInv'
  <2>1. \A t \in tasks : t.op = "del" /\ t.id = p.id => ~Exclusive(t)
    <3> SUFFICES ASSUME NEW t \in tasks, t.op = "del", t.id = p.id, Exclusive(t) PROVE FALSE
      OBVIOUS
    <3>1. ~Lost(t.req)
      BY <1>5 DEF Exclusive, Ops
    <3>2. t.req = p.req
      BY <1>7 DEF CoreInv, BindInv
    <3> QED
      BY <3>1, <3>2 DEF CoreInv, OnceInv
  <2>2. \A t : Exclusive(t)' <=> Exclusive(t)
    BY <1>1 DEF Exclusive, Lost, Mistaken
  <2>3. \A r : Lost(r)' <=> Lost(r)
    BY <1>1 DEF Lost, Mistaken
  <2>4. \A h \in Flying', t \in tasks' : h.op = t.op /\ h.id = t.id => ~Exclusive(t)
    BY <1>1, <1>2, <1>4, <2>1 DEF CoreInv, OnceInv
  <2>5. \A q \in todo', h \in Flying' \cup tasks' : ~Lost(q.req) => ~(h.op = "del" /\ h.id = q.id)
    <3>1. \A q \in todo' : q \in todo /\ q.id # p.id
      BY <1>1 DEF CoreInv, OnceInv
    <3> QED
      BY <1>1, <1>2, <1>4, <3>1 DEF CoreInv, OnceInv
  <2> QED
    BY <1>1, <2>2, <2>3, <2>4, <2>5 DEF CoreInv, OnceInv
<1>16. RouteInv'
  <2>1. \A q : (Found(q) => Found(q)') /\ (Routed(q) => Routed(q)') /\ (Closed(q) => Closed(q)')
    BY <1>1 DEF Found, Routed, Closed, HasRoute, Lost, Mistaken
  <2>2. Closed(m.req)
    BY <1>2, <1>7 DEF CoreInv, RouteInv
  <2> QED
    BY <1>1, <1>6, <2>1, <2>2 DEF CoreInv, RouteInv
<1> QED
  BY <1>9, <1>10, <1>11, <1>12, <1>13, <1>14, <1>15, <1>16 DEF CoreInv

LEMMA ForwardDeleteCore ==
    ASSUME TypeOK, TypeOK', CoreInv, NEW p \in todo, ForwardDelete(p)
    PROVE  CoreInv'
<1>1. \/ toNode' = toNode
      \/ ~DeletePending(p) /\ Send(p.req.node, [op |-> "del", id |-> p.id, req |-> p.req])
  BY DEF ForwardDelete
<1> QED
  BY <1>1, DeleteUnsent, DeleteSent

LEMMA XappLeavesCore ==
    ASSUME TypeOK, TypeOK', CoreInv, NEW x \in XApps, XappLeaves(x)
    PROVE  CoreInv'
<1>1. /\ xstate' = [xstate EXCEPT ![x] = "gone"]
      /\ UNCHANGED <<xapps, iapp, job, todo, routes, req_id, pending, tasks, toNode, subs, asked,
                     effect, closing, ended, heard>>
  BY DEF XappLeaves, iappVars, ricVars, nodeVars, history
<1>2. /\ Flying' = Flying /\ Served' = Served /\ Forwarded' = Forwarded /\ Holders' = Holders
      /\ Carriers' = Carriers /\ Deleters' = Deleters
  BY <1>1 DEF Flying, Served, Forwarded, Holders, Carriers, Deleters
<1>3. \A r \in Request : Lost(r) => Lost(r)'
  BY <1>1, RequestFacts DEF Lost, Mistaken, TypeOK
<1>4. /\ \A h \in Holders : h.req \in Request
      /\ asked \subseteq Request /\ closing \subseteq Request
  BY HolderFacts DEF TypeOK
<1>5. routes \subseteq Holders /\ todo \subseteq Holders /\ tasks \subseteq Holders /\ Flying \subseteq Holders
  BY DEF Holders
<1>6. Carriers \subseteq Holders /\ Deleters \subseteq Holders
  BY <1>5 DEF Carriers, Deleters
<1>7. BindInv' /\ OwnerInv' /\ JobInv' /\ QueueInv' /\ KindInv' /\ PendingInv'
  BY <1>1, <1>2 DEF CoreInv, BindInv, Given, OwnerInv, JobInv, QueueInv, KindInv, PendingInv
<1>8. AskedInv'
  BY <1>1, <1>3, <1>4 DEF CoreInv, AskedInv
<1>9. OnceInv'
  <2>1. \A t \in tasks : Exclusive(t)' => Exclusive(t)
    BY <1>3, <1>4, <1>5 DEF Exclusive
  <2> QED
    BY <1>1, <1>2, <1>3, <1>4, <1>5, <2>1 DEF CoreInv, OnceInv
<1>10. RouteInv'
  <2>1. \A r \in Request : /\ Found(r) => Found(r)'
                           /\ (Routed(r) => Routed(r)') /\ (Closed(r) => Closed(r)')
    BY <1>1, <1>3 DEF Found, Routed, Closed, HasRoute
  <2> QED
    BY <1>1, <1>2, <1>4, <1>6, <2>1 DEF CoreInv, RouteInv
<1>11. EffectInv'
  BY <1>1, <1>2, <1>3, <1>4, <1>5 DEF CoreInv, EffectInv
<1>12. HeardInv'
  BY <1>1, <1>2 DEF CoreInv, HeardInv
<1> QED
  BY <1>7, <1>8, <1>9, <1>10, <1>11, <1>12 DEF CoreInv

-----------------------------------------------------------------------------
(* The steps of the workers.                                                *)

\* A task moves on.
LEMMA MovedTask ==
    ASSUME TypeOK, NEW t \in tasks, NEW step, NEW k
    PROVE  /\ [t EXCEPT !.at = step].op = t.op /\ [t EXCEPT !.at = step].id = t.id
           /\ [t EXCEPT !.at = step].req = t.req /\ [t EXCEPT !.at = step].at = step
           /\ [t EXCEPT !.at = step, !.key = k].op = t.op
           /\ [t EXCEPT !.at = step, !.key = k].id = t.id
           /\ [t EXCEPT !.at = step, !.key = k].req = t.req
           /\ [t EXCEPT !.at = step, !.key = k].at = step
           /\ [t EXCEPT !.at = step, !.key = k].key = k
  BY DEF TypeOK, Task

LEMMA StopPendingFinds ==
    ASSUME TypeOK, CoreInv, NEW t \in tasks, StopPending(t)
    PROVE  /\ t.at = "stop" /\ [ev |-> t.op, id |-> t.id] \in pending /\ UNCHANGED aborted
           /\ tasks' = (tasks \ {t}) \cup {[t EXCEPT !.at = "lookup"]}
           /\ pending' = pending \ {[ev |-> t.op, id |-> t.id]}
<1>1. t.at = "stop" /\ pending' = pending \ {[ev |-> t.op, id |-> t.id]}
  BY DEF StopPending
<1>2. [ev |-> t.op, id |-> t.id] \in pending
  BY <1>1 DEF CoreInv, PendingInv
<1> QED
  BY <1>1, <1>2 DEF StopPending, Move

LEMMA StopPendingCore ==
    ASSUME TypeOK, TypeOK', CoreInv, NEW t \in tasks, StopPending(t)
    PROVE  CoreInv'
<1> DEFINE u == [t EXCEPT !.at = "lookup"]
<1>1. /\ t.at = "stop" /\ tasks' = (tasks \ {t}) \cup {u}
      /\ pending' = pending \ {[ev |-> t.op, id |-> t.id]}
  BY StopPendingFinds
<1>2. u.op = t.op /\ u.id = t.id /\ u.req = t.req /\ u.at = "lookup"
  BY MovedTask
<1> HIDE DEF u
<1>3. UNCHANGED <<xstate, xapps, iapp, job, todo, routes, req_id, toNode, subs, asked,
                  effect, closing, ended, heard>>
  BY DEF StopPending, xappVars, iappVars, nodeVars, history
<1>4. Flying' = Flying /\ Served' = Served /\ Forwarded' = Forwarded
  BY <1>3 DEF Flying, Served, Forwarded
<1>5. \A h \in Holders' : h \in Holders \/ h = u
  BY <1>1, <1>3, <1>4 DEF Holders
<1>6. t \in Holders /\ t.op # "report" /\ Exclusive(t)
  <2>1. t.op \in Ops \cup {"del", "report"} /\ t.op # "report"
    BY <1>1, TaskFacts DEF CoreInv, KindInv
  <2> QED
    BY <1>1, <2>1 DEF Holders, Exclusive
<1>7. BindInv'
  <2>1. \A h \in Holders' : \E g \in Holders : g.id = h.id /\ g.req = h.req
    BY <1>2, <1>5, <1>6
  <2> QED
    BY <1>3, <2>1, BindStep DEF CoreInv
<1>8. OwnerInv' /\ AskedInv' /\ QueueInv' /\ KindInv'
  BY <1>1, <1>2, <1>3, <1>4, <1>6 DEF CoreInv, OwnerInv, AskedInv, QueueInv, KindInv, Lost, Mistaken
<1>9. JobInv'
  <2>1. iapp' = "forward" => \A h \in Holders' : h.req # job'.req
    BY <1>2, <1>3, <1>5, <1>6 DEF CoreInv, JobInv
  <2> QED
    BY <1>1, <1>2, <1>3, <2>1 DEF CoreInv, JobInv
<1>10. PendingInv'
  <2>1. \A m \in Flying : ~(m.op = t.op /\ m.id = t.id)
    BY <1>6 DEF CoreInv, OnceInv
  <2>2. \A v \in tasks' : v.at = "stop" => v \in tasks /\ ~(v.op = t.op /\ v.id = t.id)
    <3> SUFFICES ASSUME NEW v \in tasks', v.at = "stop", v.op = t.op, v.id = t.id PROVE FALSE
      BY <1>1, <1>2
    <3>1. v \in tasks /\ v # t
      BY <1>1, <1>2
    <3>2. Exclusive(v)
      BY <1>6 DEF Exclusive
    <3> QED
      BY <1>6, <3>1, <3>2 DEF CoreInv, OnceInv
  <2> QED
    BY <1>1, <1>4, <2>1, <2>2 DEF CoreInv, PendingInv
<1>11. OnceInv'
  <2>1. \A v : Exclusive(v)' <=> Exclusive(v)
    BY <1>3 DEF Exclusive, Lost, Mistaken
  <2>2. \A r : Lost(r)' <=> Lost(r)
    BY <1>3 DEF Lost, Mistaken
  <2> QED
    BY <1>1, <1>2, <1>3, <1>4, <1>6, <2>1, <2>2 DEF CoreInv, OnceInv
<1>12. /\ \A h \in Carriers' : \E g \in Carriers : g.req = h.req
       /\ \A h \in Deleters' : \E g \in Deleters : g.req = h.req
  BY <1>1, <1>2, <1>3, <1>4 DEF Carriers, Deleters
<1>13. RouteInv'
  <2>1. \A q : (Found(q) => Found(q)') /\ (Routed(q) => Routed(q)') /\ (Closed(q) => Closed(q)')
    BY <1>3 DEF Found, Routed, Closed, HasRoute, Lost, Mistaken
  <2>2. \A h \in Carriers' : Routed(h.req)
    BY <1>12 DEF CoreInv, RouteInv
  <2>3. \A h \in Deleters' : Closed(h.req)
    BY <1>12 DEF CoreInv, RouteInv
  <2> QED
    BY <1>3, <2>1, <2>2, <2>3 DEF CoreInv, RouteInv
<1>14. EffectInv'
  BY <1>1, <1>2, <1>3, <1>4 DEF CoreInv, EffectInv, Lost, Mistaken
<1>15. HeardInv'
  BY <1>3, <1>12 DEF CoreInv, HeardInv, Lost, Mistaken
<1> QED
  BY <1>7, <1>8, <1>9, <1>10, <1>11, <1>13, <1>14, <1>15 DEF CoreInv

\* The xApp and the key that a worker takes from a route are those of its request.
LEMMA RouteOfTask ==
    ASSUME TypeOK, CoreInv, NEW t \in tasks, NEW p \in RoutesOf(t.id)
    PROVE  /\ p \in routes /\ p.req = t.req /\ p.xid \in DOMAIN xapps /\ xapps[p.xid] = t.req.xapp
           /\ \A q \in routes : q.req = t.req => q = p
<1>1. p \in routes /\ p.id = t.id
  BY DEF RoutesOf
<1>2. t \in Holders /\ routes \subseteq Holders
  BY DEF Holders
<1>3. p.req = t.req
  BY <1>1, <1>2 DEF CoreInv, BindInv
<1>4. p.xid \in DOMAIN xapps /\ xapps[p.xid] = t.req.xapp
  BY <1>1, <1>3 DEF CoreInv, OwnerInv
<1>5. \A q \in routes : q.req = t.req => q = p
  BY <1>1, <1>2, <1>3 DEF CoreInv, BindInv, OnceInv
<1> QED
  BY <1>1, <1>3, <1>4, <1>5

\* A worker answers the xApp; S holds the task if it is to remove the route.
LEMMA TaskAnswers ==
    ASSUME TypeOK, TypeOK', CoreInv, NEW t \in tasks, t.at = "lookup", iapp # "route",
           UNCHANGED <<xstate, xapps, iapp, job, todo, routes, req_id, pending, toNode, subs, asked,
                       effect, closing, ended>>,
           NEW S, tasks' = (tasks \ {t}) \cup S, \A u, v \in S : u = v,
           \A u \in S : /\ t.op \in LastAnswers
                        /\ u.op = t.op /\ u.id = t.id /\ u.req = t.req /\ u.at = "remove"
                        /\ u.key.xid \in DOMAIN xapps /\ xapps[u.key.xid] = t.req.xapp
                        /\ u.key.own = t.req.own
                        /\ \A q \in routes : q.req = t.req => q.xid = u.key.xid,
           \/ heard' = heard
           \/ heard' = heard \cup {About(t.req, What(t.op))} /\ HasRoute(t.req)
    PROVE  CoreInv'
<1>1. Flying' = Flying /\ Served' = Served /\ Forwarded' = {} /\ Forwarded = {}
  BY DEF Flying, Served, Forwarded
<1>2. \A h \in Holders' : h \in Holders \/ h \in S
  BY <1>1 DEF Holders
<1>3. t \in Holders /\ tasks \subseteq Holders /\ Flying \subseteq Holders
  BY DEF Holders
<1>4. BindInv'
  <2>1. \A h \in Holders' : \E g \in Holders : g.id = h.id /\ g.req = h.req
    BY <1>2, <1>3
  <2> QED
    BY <2>1, BindStep DEF CoreInv
<1>5. OwnerInv'
  BY DEF CoreInv, OwnerInv
<1>6. AskedInv' /\ QueueInv' /\ PendingInv'
  BY <1>1 DEF CoreInv, AskedInv, QueueInv, PendingInv, Lost, Mistaken
<1>7. KindInv'
  <2>1. \A h \in S : /\ h.op \in Ops => h.req.op = h.op
                     /\ h.op \notin Ops => h.req.op = "sub"
                     /\ h.op \in {"control", "del"}
    BY DEF CoreInv, KindInv, LastAnswers
  <2> QED
    BY <1>1, <2>1 DEF CoreInv, KindInv
<1>8. JobInv'
  BY <1>2, <1>3 DEF CoreInv, JobInv
<1>9. OnceInv'
  <2>1. \A v : Exclusive(v)' <=> Exclusive(v)
    BY DEF Exclusive, Lost, Mistaken
  <2>2. \A r : Lost(r)' <=> Lost(r)
    BY DEF Lost, Mistaken
  <2>3. \A u \in S : Exclusive(u) => Exclusive(t)
    BY DEF Exclusive
  <2> QED
    BY <1>1, <2>1, <2>2, <2>3 DEF CoreInv, OnceInv
<1>10. /\ \A h \in Carriers' : \E g \in Carriers : g.req = h.req
       /\ \A h \in Deleters' : \E g \in Deleters : g.req = h.req
  BY <1>1 DEF Carriers, Deleters
<1>11. EffectInv'
  BY <1>1 DEF CoreInv, EffectInv, Lost, Mistaken
<1>12. t.req \in asked
  BY <1>3 DEF CoreInv, BindInv
<1>13. \A r \in asked : About(r, "done") \in heard' =>
          \/ About(r, "done") \in heard
          \/ r = t.req /\ t.op \in Ops /\ HasRoute(r)
  <2> SUFFICES ASSUME NEW r \in asked, About(r, "done") \in heard', About(r, "done") \notin heard
               PROVE  r = t.req /\ t.op \in Ops /\ HasRoute(r)
    OBVIOUS
  <2>1. About(r, "done") = About(t.req, What(t.op)) /\ HasRoute(t.req)
    OBVIOUS
  <2>2. r.xapp = t.req.xapp /\ r.own = t.req.own /\ What(t.op) = "done"
    BY <2>1 DEF About
  <2>3. r = t.req
    BY <1>12, <2>2 DEF CoreInv, AskedInv
  <2>4. t.op \in Ops
    BY <2>2, TaskFacts DEF What, Ops
  <2> QED
    BY <2>1, <2>3, <2>4
<1>14. RouteInv'
  <2>1. \A q : (Found(q) => Found(q)') /\ (Routed(q) => Routed(q)') /\ (Closed(q) => Closed(q)')
    BY DEF Found, Routed, Closed, HasRoute, Lost, Mistaken
  <2>2. \A h \in Carriers' : Routed(h.req)
    BY <1>10 DEF CoreInv, RouteInv
  <2>3. \A h \in Deleters' : Closed(h.req)
    BY <1>10 DEF CoreInv, RouteInv
  <2>4. \A r \in asked : r.op = "sub" /\ About(r, "done") \in heard' /\ r \notin closing => Found(r)
    BY <1>13 DEF CoreInv, RouteInv, Found
  <2> QED
    BY <2>1, <2>2, <2>3, <2>4 DEF RouteInv
<1>15. HeardInv'
  <2>1. \A h \in heard' : \E r \in asked : h.to = r.xapp /\ h.own = r.own
    <3>1. About(t.req, What(t.op)).to = t.req.xapp /\ About(t.req, What(t.op)).own = t.req.own
      BY DEF About
    <3> QED
      BY <1>12, <3>1 DEF CoreInv, HeardInv
  <2>2. t.op \in Ops => t.req \in effect
    BY DEF CoreInv, EffectInv, Ops
  <2>3. ASSUME t.op \in Ops, t.req.op = "sub", NEW h \in Carriers', h.req = t.req
        PROVE  FALSE
    <3>1. t.op = "sub" /\ Exclusive(t)
      BY <2>3 DEF CoreInv, KindInv, Exclusive
    <3>2. S = {}
      BY <3>1 DEF LastAnswers
    <3>3. h \in Flying \/ h \in tasks \ {t}
      BY <1>1, <2>3, <3>2 DEF Carriers
    <3>4. h.op = t.op
      BY <2>3, <3>1, <3>3 DEF CoreInv, KindInv, Carriers
    <3>5. h.id = t.id
      BY <1>3, <2>3, <3>3 DEF CoreInv, BindInv
    <3>6. h \in tasks => Exclusive(h)
      BY <3>1, <3>4 DEF Exclusive, Ops
    <3> QED
      BY <3>1, <3>3, <3>4, <3>5, <3>6 DEF CoreInv, OnceInv
  <2>4. \A r \in asked : About(r, "done") \in heard' =>
           r \in effect /\ (r.op = "sub" => \A h \in Carriers' : h.req # r)
    BY <1>10, <1>13, <2>2, <2>3 DEF CoreInv, HeardInv
  <2>5. \A r \in closing : About(r, "done") \in heard'
    BY DEF CoreInv, HeardInv
  <2> QED
    BY <2>1, <2>4, <2>5 DEF HeardInv
<1> QED
  BY <1>4, <1>5, <1>6, <1>7, <1>8, <1>9, <1>11, <1>14, <1>15 DEF CoreInv

\* What a worker tells is about the request of its task.
LEMMA TellsOwner ==
    ASSUME TypeOK, CoreInv, NEW t \in tasks, NEW p \in RoutesOf(t.id),
           Deliver(xapps[p.xid], p.req.own, What(t.op))
    PROVE  heard' = heard \/ heard' = heard \cup {About(t.req, What(t.op))}
<1>1. p.req = t.req /\ xapps[p.xid] = t.req.xapp
  BY RouteOfTask
<1> QED
  BY <1>1 DEF Deliver, About

LEMMA RouteAnswerCore ==
    ASSUME TypeOK, TypeOK', CoreInv, NEW t \in tasks, RouteAnswer(t)
    PROVE  CoreInv'
<1>1. /\ t.at = "lookup" /\ iapp # "route"
      /\ UNCHANGED <<xstate, xapps, iapp, job, todo, routes, req_id, pending, toNode, subs, asked,
                     effect, closing, ended>>
  BY RouteAnswerCases DEF RouteLockFree, xappVars, iappVars, ricVars, nodeVars
<1>2. CASE UNCHANGED <<tasks, heard>>
  BY <1>1, <1>2, CoreFrame
<1>3. CASE tasks' = tasks \ {t} /\ heard' = heard
  <2> DEFINE S == {}
  <2>1. tasks' = (tasks \ {t}) \cup S /\ \A v \in S : FALSE
    BY <1>3
  <2> HIDE DEF S
  <2> QED
    BY <1>1, <1>3, <2>1, TaskAnswers
<1>4. ASSUME NEW p \in RoutesOf(t.id), Deliver(xapps[p.xid], p.req.own, What(t.op)),
             \/ tasks' = tasks \ {t}
             \/ /\ t.op \in LastAnswers
                /\ tasks' = (tasks \ {t}) \cup
                      {[t EXCEPT !.at = "remove", !.key = [xid |-> p.xid, own |-> p.req.own]]}
      PROVE  CoreInv'
  <2> DEFINE k == [xid |-> p.xid, own |-> p.req.own]
             u == [t EXCEPT !.at = "remove", !.key = k]
  <2>1. /\ p \in routes /\ p.req = t.req /\ p.xid \in DOMAIN xapps /\ xapps[p.xid] = t.req.xapp
        /\ \A q \in routes : q.req = t.req => q = p
    BY RouteOfTask
  <2>2. /\ u.op = t.op /\ u.id = t.id /\ u.req = t.req /\ u.at = "remove" /\ u.key = k
        /\ k.xid = p.xid /\ k.own = t.req.own
    BY <2>1, MovedTask
  <2>3. heard' = heard \/ heard' = heard \cup {About(t.req, What(t.op))}
    BY <1>4, TellsOwner
  <2>4. HasRoute(t.req)
    BY <2>1 DEF HasRoute
  <2>5. tasks' = tasks \ {t} \/ (t.op \in LastAnswers /\ tasks' = (tasks \ {t}) \cup {u})
    BY <1>4
  <2> HIDE DEF u, k
  <2>6. CASE tasks' = tasks \ {t}
    <3> DEFINE S == {}
    <3>1. tasks' = (tasks \ {t}) \cup S /\ \A v \in S : FALSE
      BY <2>6
    <3> HIDE DEF S
    <3> QED
      BY <1>1, <2>3, <2>4, <3>1, TaskAnswers
  <2>7. CASE t.op \in LastAnswers /\ tasks' = (tasks \ {t}) \cup {u}
    <3> DEFINE S == {u}
    <3>1. tasks' = (tasks \ {t}) \cup S /\ \A v, w \in S : v = w
      BY <2>7
    <3>2. \A v \in S : /\ t.op \in LastAnswers
                       /\ v.op = t.op /\ v.id = t.id /\ v.req = t.req /\ v.at = "remove"
                       /\ v.key.xid \in DOMAIN xapps /\ xapps[v.key.xid] = t.req.xapp
                       /\ v.key.own = t.req.own
                       /\ \A q \in routes : q.req = t.req => q.xid = v.key.xid
      BY <2>1, <2>2, <2>7
    <3> HIDE DEF S
    <3> QED
      BY <1>1, <2>3, <2>4, <3>1, <3>2, TaskAnswers
  <2> QED
    BY <2>5, <2>6, <2>7
<1> QED
  BY <1>2, <1>3, <1>4, RouteAnswerCases, Zenon

\* The task that removes a route finds it, unless a second delete has removed it.
LEMMA RemoveFinds ==
    ASSUME TypeOK, CoreInv, NEW t \in tasks, t.at = "remove", iapp # "route",
           RoutesWithKey(t.key) = {}
    PROVE  t.op = "del" /\ Lost(t.req)
<1>1. t.op \in {"control", "del"} /\ t.key.own = t.req.own
  BY DEF CoreInv, KindInv, OwnerInv
<1>2. ~HasRoute(t.req)
  <2> SUFFICES ASSUME NEW p \in routes, p.req = t.req PROVE FALSE
    BY DEF HasRoute
  <2>1. p.xid = t.key.xid
    BY DEF CoreInv, OwnerInv
  <2> QED
    BY <1>1, <2>1 DEF RoutesWithKey
<1>3. t.op # "control"
  <2> SUFFICES ASSUME t.op = "control" PROVE FALSE
    OBVIOUS
  <2>1. t \in Carriers /\ t.req.op = "control"
    BY DEF Carriers, Ops, CoreInv, KindInv
  <2> QED
    BY <1>2, <2>1 DEF CoreInv, RouteInv, Routed
<1>4. t \in Deleters
  BY <1>1, <1>3 DEF Deleters
<1> QED
  BY <1>1, <1>2, <1>3, <1>4 DEF CoreInv, RouteInv, Closed

\* A route that is removed is that of the task's request.
LEMMA RemovesOwn ==
    ASSUME TypeOK, CoreInv, NEW t \in tasks, t.at = "remove", NEW p \in RoutesWithKey(t.key)
    PROVE  p \in routes /\ p.req = t.req
<1>1. p \in routes /\ p.xid = t.key.xid /\ p.req.own = t.key.own
  BY DEF RoutesWithKey
<1>2. p.req.xapp = t.req.xapp /\ p.req.own = t.req.own
  BY <1>1 DEF CoreInv, OwnerInv
<1>3. p.req \in asked /\ t.req \in asked
  BY <1>1 DEF CoreInv, BindInv, Holders
<1> QED
  BY <1>1, <1>2, <1>3 DEF CoreInv, AskedInv

\* All that carries out or deletes a request, but for one task.
Others(t) == todo \cup Flying \cup (tasks \ {t})

\* Once its route is removed nothing is left of a request, unless its xApp has gone.
LEMMA NothingLeft ==
    ASSUME TypeOK, CoreInv, NEW t \in tasks, t.at = "remove"
    PROVE  /\ \A h \in Carriers \cap Others(t) : h.req = t.req => t.req.op = "sub" /\ Lost(t.req)
           /\ \A h \in Deleters \cap Others(t) : h.req = t.req => Lost(t.req)
           /\ t.req.op = "sub" => t.req \in closing \/ Lost(t.req)
<1>1. /\ t.op \in {"control", "del"} /\ t \in Holders
      /\ Flying \cup tasks \subseteq Holders /\ todo \subseteq Holders
  BY DEF CoreInv, KindInv, Holders
<1>2. CASE t.op = "control"
  <2>1. t.req.op = "control" /\ Exclusive(t)
    BY <1>2 DEF CoreInv, KindInv, Exclusive, Ops
  <2>2. ASSUME NEW h \in Carriers, h \in Others(t), h.req = t.req PROVE FALSE
    <3>1. /\ h \in Flying \cup tasks /\ h.op \in Ops
          /\ h \in Flying \/ h \in tasks \ {t} \/ h \in todo
      BY <2>2 DEF Carriers, Others
    <3>2. h.op = "control"
      BY <2>1, <2>2, <3>1 DEF CoreInv, KindInv
    <3>3. h.id = t.id
      BY <1>1, <2>2, <3>1 DEF CoreInv, BindInv
    <3>4. Exclusive(h)
      BY <3>2 DEF Exclusive, Ops
    <3>5. h \notin todo
      <4>1. h \in todo => h.req.op = "sub"
        BY DEF CoreInv, KindInv
      <4> QED
        BY <2>1, <2>2, <4>1
    <3> QED
      BY <1>2, <2>1, <3>1, <3>2, <3>3, <3>4, <3>5 DEF CoreInv, OnceInv
  <2>3. \A h \in Deleters : h.req # t.req
    <3>1. \A h \in Deleters : h.req.op = "sub"
      BY DEF Deleters, CoreInv, KindInv, Ops
    <3> QED
      BY <2>1, <3>1
  <2> QED
    BY <2>1, <2>2, <2>3
<1>3. CASE t.op = "del"
  <2>1. t \in Deleters /\ t.req.op = "sub"
    BY <1>3 DEF Deleters, CoreInv, KindInv, Ops
  <2>2. t.req \in closing \/ Lost(t.req)
    BY <2>1 DEF CoreInv, RouteInv, Closed
  <2>3. CASE ~Lost(t.req)
    <3>1. About(t.req, "done") \in heard /\ t.req \in asked
      BY <2>2, <2>3 DEF CoreInv, HeardInv, AskedInv
    <3>2. \A h \in Carriers : h.req # t.req
      BY <2>1, <3>1 DEF CoreInv, HeardInv
    <3>3. Exclusive(t)
      BY <1>3, <2>3 DEF Exclusive
    <3>4. ASSUME NEW h \in Deleters, h \in Others(t), h.req = t.req PROVE FALSE
      <4>1. h.id = t.id
        BY <1>1, <3>4 DEF CoreInv, BindInv, Deleters
      <4>2. CASE h \in todo
        BY <1>3, <2>3, <3>4, <4>1, <4>2 DEF CoreInv, OnceInv
      <4>3. CASE h \in Flying /\ h.op = "del"
        BY <1>3, <3>3, <4>1, <4>3 DEF CoreInv, OnceInv
      <4>4. CASE h \in tasks \ {t} /\ h.op = "del"
        <5>1. Exclusive(h)
          BY <2>3, <3>4, <4>4 DEF Exclusive
        <5> QED
          BY <1>3, <3>3, <3>4, <4>1, <4>4, <5>1 DEF CoreInv, OnceInv
      <4> QED
        <5>1. h \in todo \/ h.op = "del"
          BY DEF Deleters
        <5> QED
          BY <3>4, <4>2, <4>3, <4>4, <5>1 DEF Others
    <3> QED
      BY <2>2, <3>2, <3>4
  <2> QED
    BY <2>1, <2>2, <2>3
<1> QED
  BY <1>1, <1>2, <1>3

LEMMA RemoveRouteCore ==
    ASSUME TypeOK, TypeOK', CoreInv, NEW t \in tasks, RemoveRoute(t)
    PROVE  CoreInv'
<1>1. /\ t.at = "remove" /\ iapp # "route"
      /\ UNCHANGED <<xstate, xapps, iapp, job, todo, req_id, pending, toNode, subs, asked,
                     effect, closing, ended, heard>>
  BY DEF RemoveRoute, RouteLockFree, xappVars, iappVars, ricVars, nodeVars, history
<1>2. CASE UNCHANGED <<routes, tasks>>
  BY <1>1, <1>2, CoreFrame
<1>3. CASE routes' = routes \ RoutesWithKey(t.key) /\ tasks' = tasks \ {t}
  <2>1. routes' \subseteq routes /\ \A p \in routes : p \in routes' \/ p.req = t.req
    BY <1>1, <1>3, RemovesOwn
  <2>2. /\ Flying' = Flying /\ Served' = Served /\ Forwarded' = {} /\ Forwarded = {}
        /\ Carriers' \subseteq Carriers \cap Others(t) /\ Deleters' \subseteq Deleters \cap Others(t)
    BY <1>1, <1>3 DEF Flying, Served, Forwarded, Carriers, Deleters, Others
  <2>3. Holders' \subseteq Holders
    BY <1>1, <1>3, <2>1, <2>2 DEF Holders
  <2>4. BindInv'
    BY <1>1, <2>3, BindStep DEF CoreInv
  <2>5. OwnerInv' /\ JobInv'
    BY <1>1, <1>3, <2>1, <2>3 DEF CoreInv, OwnerInv, JobInv
  <2>6. AskedInv' /\ QueueInv' /\ PendingInv' /\ KindInv' /\ EffectInv'
    BY <1>1, <1>3, <2>2 DEF CoreInv, AskedInv, QueueInv, PendingInv, KindInv, EffectInv, Lost, Mistaken
  <2>7. OnceInv'
    BY <1>1, <1>3, <2>1, <2>2 DEF CoreInv, OnceInv, Exclusive, Lost, Mistaken
  <2>8. HeardInv'
    BY <1>1, <2>2 DEF CoreInv, HeardInv, Lost, Mistaken
  <2>9. RouteInv'
    <3>1. \A r : HasRoute(r) /\ r # t.req => HasRoute(r)'
      BY <2>1 DEF HasRoute
    <3>2. \A r : Lost(r)' <=> Lost(r)
      BY <1>1 DEF Lost, Mistaken
    <3>3. \A h \in Carriers' : Routed(h.req)'
      <4> SUFFICES ASSUME NEW h \in Carriers' PROVE Routed(h.req)'
        OBVIOUS
      <4>1. h \in Carriers \cap Others(t)
        BY <2>2
      <4>2. Routed(h.req)
        BY <4>1 DEF CoreInv, RouteInv
      <4>3. CASE h.req = t.req
        BY <1>1, <3>2, <4>1, <4>3, NothingLeft DEF Routed
      <4>4. CASE h.req # t.req
        BY <1>1, <3>1, <3>2, <4>2, <4>4 DEF Routed
      <4> QED
        BY <4>3, <4>4
    <3>4. \A h \in Deleters' : Closed(h.req)'
      <4> SUFFICES ASSUME NEW h \in Deleters' PROVE Closed(h.req)'
        OBVIOUS
      <4>1. h \in Deleters \cap Others(t)
        BY <2>2
      <4>2. Closed(h.req)
        BY <4>1 DEF CoreInv, RouteInv
      <4>3. CASE h.req = t.req
        <5>1. Lost(t.req)
          BY <1>1, <4>1, <4>3, NothingLeft
        <5> QED
          BY <1>1, <3>2, <4>2, <4>3, <5>1 DEF Closed
      <4>4. CASE h.req # t.req
        BY <1>1, <3>1, <3>2, <4>2, <4>4 DEF Closed
      <4> QED
        BY <4>3, <4>4
    <3>5. \A r \in asked : r.op = "sub" /\ About(r, "done") \in heard /\ r \notin closing => Found(r)'
      BY <1>1, <3>1, <3>2, NothingLeft DEF CoreInv, RouteInv, Found
    <3> QED
      BY <1>1, <3>3, <3>4, <3>5 DEF RouteInv
  <2> QED
    BY <2>4, <2>5, <2>6, <2>7, <2>8, <2>9 DEF CoreInv
<1> QED
  BY <1>2, <1>3 DEF RemoveRoute, Finish

-----------------------------------------------------------------------------
(* The steps of the E2 nodes.                                               *)

\* What a node that handles a message does, with the task u of its answer.
LEMMA NodeHandlesStep ==
    ASSUME TypeOK, CoreInv, NEW n \in Nodes, NodeHandles(n)
    PROVE  \E m \in Flying, u \in tasks' :
              /\ tasks' = tasks \cup {u}
              /\ u.op = m.op /\ u.id = m.id /\ u.req = m.req /\ u.at = "stop"
              /\ m.req.node = n /\ Flying' \subseteq Flying /\ QueueInv'
              /\ \A h \in Flying' : ~(h.op = m.op /\ h.id = m.id)
              /\ \/ /\ m.op \in Ops /\ effect' = effect \cup {m.req} /\ ended' = ended
                    /\ subs' = IF m.op = "sub"
                               THEN [subs EXCEPT ![n] = @ \cup {[id |-> m.id, req |-> m.req]}]
                               ELSE subs
                 \/ /\ m.op = "del" /\ effect' = effect
                    /\ ended' = ended \cup {s.req : s \in {s \in subs[n] : s.id = m.id}}
                    /\ subs' = [subs EXCEPT ![n] = {s \in @ : s.id # m.id}]
<1> DEFINE m == Head(toNode[n])
<1>1. toNode[n] # <<>> /\ toNode' = [toNode EXCEPT ![n] = Tail(@)]
  BY DEF NodeHandles
<1>2. /\ m \in Flying /\ m.req.node = n /\ Flying' \subseteq Flying /\ QueueInv'
      /\ \A h \in Flying' : ~(h.op = m.op /\ h.id = m.id)
  BY <1>1, FlyingHandled DEF CoreInv
<1>3. m.id \in Nat /\ m.req \in Request /\ m.op \in Ops \cup {"del", "report"}
  BY <1>1, HeadFacts
<1>4. NewTask(m.op, m, "stop")
  BY DEF NodeHandles
<1>5. \/ /\ m.op \in Ops /\ effect' = effect \cup {m.req} /\ ended' = ended
         /\ subs' = IF m.op = "sub"
                    THEN [subs EXCEPT ![n] = @ \cup {[id |-> m.id, req |-> m.req]}]
                    ELSE subs
      \/ /\ m.op = "del" /\ effect' = effect
         /\ ended' = ended \cup {s.req : s \in {s \in subs[n] : s.id = m.id}}
         /\ subs' = [subs EXCEPT ![n] = {s \in @ : s.id # m.id}]
  BY DEF NodeHandles
<1> HIDE DEF m
<1>6. PICK k \in Nat : tasks' = tasks \cup {[op |-> m.op, id |-> m.id, no |-> k, req |-> m.req,
                                             at |-> "stop", key |-> NoKey]}
  BY <1>3, <1>4, NewTaskType
<1> DEFINE u == [op |-> m.op, id |-> m.id, no |-> k, req |-> m.req, at |-> "stop", key |-> NoKey]
<1>7. tasks' = tasks \cup {u} /\ u.op = m.op /\ u.id = m.id /\ u.req = m.req /\ u.at = "stop"
  BY <1>6
<1>8. u \in tasks'
  BY <1>7
<1> HIDE DEF u
<1> QED
  BY <1>2, <1>5, <1>7, <1>8

\* The parts of the invariant that do not depend on what the node has done.
LEMMA NewAnswer ==
    ASSUME TypeOK, TypeOK', CoreInv, NEW m \in Flying, NEW u, tasks' = tasks \cup {u},
           u.op = m.op, u.id = m.id, u.req = m.req, u.at = "stop",
           Flying' \subseteq Flying, \A h \in Flying' : ~(h.op = m.op /\ h.id = m.id),
           Served' \subseteq Served \cup {[id |-> m.id, req |-> m.req]},
           effect \subseteq effect', effect' \subseteq effect \cup {m.req},
           UNCHANGED <<xstate, xapps, iapp, job, todo, routes, req_id, pending, asked, closing, heard>>
    PROVE  /\ BindInv' /\ OwnerInv' /\ JobInv' /\ PendingInv' /\ OnceInv' /\ RouteInv' /\ HeardInv'
           /\ \A h \in Flying' \cup tasks' : /\ h.op \in Ops => h.req.op = h.op
                                            /\ h.op \notin Ops => h.req.op = "sub"
           /\ \A t \in tasks' : /\ t.at = "remove" => t.op \in {"control", "del"}
                                /\ t.op = "report" => t.at = "lookup"
<1>1. Forwarded' = Forwarded /\ m \in Holders /\ tasks \subseteq Holders
  BY DEF Forwarded, Holders
<1>2. \A h \in Holders' : h \in Holders \/ (h.id = m.id /\ h.req = m.req)
  BY <1>1 DEF Holders
<1>3. BindInv'
  <2>1. \A h \in Holders' : \E g \in Holders : g.id = h.id /\ g.req = h.req
    BY <1>1, <1>2
  <2> QED
    BY <2>1, BindStep DEF CoreInv
<1>4. OwnerInv' /\ PendingInv'
  BY DEF CoreInv, OwnerInv, PendingInv
<1>5. JobInv'
  <2>1. iapp = "forward" => /\ job.req \notin effect' /\ \A h \in Holders' : h.req # job.req
    BY <1>1, <1>2 DEF CoreInv, JobInv
  <2> QED
    BY <2>1 DEF CoreInv, JobInv
<1>6. OnceInv'
  <2>1. \A v : Exclusive(v)' <=> Exclusive(v)
    BY DEF Exclusive, Lost, Mistaken
  <2>2. \A r : Lost(r)' <=> Lost(r)
    BY DEF Lost, Mistaken
  <2>3. \A t \in tasks : t.op = u.op /\ t.id = u.id => ~Exclusive(t)
    BY DEF CoreInv, OnceInv
  <2>4. \A p \in todo : ~Lost(p.req) => ~(u.op = "del" /\ u.id = p.id)
    BY DEF CoreInv, OnceInv
  <2> QED
    BY <2>1, <2>2, <2>3, <2>4 DEF CoreInv, OnceInv
<1>7. /\ \A h \in Carriers' : \E g \in Carriers : g.req = h.req
      /\ \A h \in Deleters' : \E g \in Deleters : g.req = h.req
  BY DEF Carriers, Deleters
<1>8. RouteInv'
  <2>1. \A q : (Found(q) => Found(q)') /\ (Routed(q) => Routed(q)') /\ (Closed(q) => Closed(q)')
    BY DEF Found, Routed, Closed, HasRoute, Lost, Mistaken
  <2>2. \A h \in Carriers' : Routed(h.req)
    BY <1>7 DEF CoreInv, RouteInv
  <2>3. \A h \in Deleters' : Closed(h.req)
    BY <1>7 DEF CoreInv, RouteInv
  <2> QED
    BY <2>1, <2>2, <2>3 DEF CoreInv, RouteInv
<1>9. HeardInv'
  BY <1>7 DEF CoreInv, HeardInv, Lost, Mistaken
<1>10. /\ \A h \in Flying' \cup tasks' : /\ h.op \in Ops => h.req.op = h.op
                                        /\ h.op \notin Ops => h.req.op = "sub"
       /\ \A t \in tasks' : /\ t.at = "remove" => t.op \in {"control", "del"}
                            /\ t.op = "report" => t.at = "lookup"
  <2>1. m.op # "report"
    BY FlyingFacts DEF Ops
  <2> QED
    BY <2>1 DEF CoreInv, KindInv
<1> QED
  BY <1>3, <1>4, <1>5, <1>6, <1>8, <1>9, <1>10

LEMMA NodeCarries ==
    ASSUME TypeOK, TypeOK', CoreInv, NEW n \in Nodes, NEW m \in Flying, NEW u, m.op \in Ops,
           tasks' = tasks \cup {u}, u.op = m.op, u.id = m.id, u.req = m.req, u.at = "stop",
           m.req.node = n, Flying' \subseteq Flying, QueueInv',
           \A h \in Flying' : ~(h.op = m.op /\ h.id = m.id),
           effect' = effect \cup {m.req}, ended' = ended,
           subs' = IF m.op = "sub"
                   THEN [subs EXCEPT ![n] = @ \cup {[id |-> m.id, req |-> m.req]}]
                   ELSE subs,
           UNCHANGED <<xstate, xapps, iapp, job, todo, routes, req_id, pending, asked, closing, heard>>
    PROVE  CoreInv'
<1> DEFINE s0 == [id |-> m.id, req |-> m.req]
<1>1. /\ \A l \in Nodes : subs[l] \subseteq subs'[l]
      /\ \A l \in Nodes : \A s \in subs'[l] : s \in subs[l] \/ (l = n /\ s = s0 /\ m.op = "sub")
      /\ m.op = "sub" => s0 \in subs'[n]
  <2>1. CASE m.op = "sub"
    BY <2>1 DEF TypeOK
  <2>2. CASE m.op # "sub"
    BY <2>2
  <2> QED
    BY <2>1, <2>2
<1>2. s0.id = m.id /\ s0.req = m.req
  OBVIOUS
<1>3. Served' \subseteq Served \cup {s0}
  BY <1>1 DEF Served
<1>4. /\ BindInv' /\ OwnerInv' /\ JobInv' /\ PendingInv' /\ OnceInv' /\ RouteInv' /\ HeardInv'
      /\ \A h \in Flying' \cup tasks' : /\ h.op \in Ops => h.req.op = h.op
                                       /\ h.op \notin Ops => h.req.op = "sub"
      /\ \A t \in tasks' : /\ t.at = "remove" => t.op \in {"control", "del"}
                           /\ t.op = "report" => t.at = "lookup"
  BY <1>3, NewAnswer
<1> HIDE DEF s0
<1>5. /\ m.req \in asked /\ m.req \notin effect /\ m.req \notin ended /\ m.req.op = m.op
      /\ m \in Holders /\ Flying \subseteq Holders
  BY DEF Holders, CoreInv, BindInv, EffectInv, AskedInv, KindInv
<1>6. AskedInv'
  BY <1>5 DEF CoreInv, AskedInv, Lost, Mistaken
<1>7. KindInv'
  BY <1>1, <1>2, <1>4, <1>5 DEF CoreInv, KindInv
<1>8. EffectInv'
  <2>1. \A h \in Flying' : h.op \in Ops => h.req \notin effect'
    <3> SUFFICES ASSUME NEW h \in Flying', h.op \in Ops, h.req = m.req PROVE FALSE
      BY DEF CoreInv, EffectInv
    <3>1. h.op = m.op
      BY <1>5 DEF CoreInv, KindInv
    <3>2. h.id = m.id
      BY <1>5 DEF CoreInv, BindInv
    <3> QED
      BY <3>1, <3>2
  <2>2. \A t \in tasks' : /\ t.op # "del" => t.req \in effect'
                          /\ t.op = "del" => Lost(t.req)' \/ t.req \in ended'
    <3>1. m.op # "del"
      BY DEF Ops
    <3> QED
      BY <3>1 DEF CoreInv, EffectInv, Lost, Mistaken
  <2>3. \A l \in Nodes : \A s \in subs'[l] : s.req \in effect' /\ s.req \notin ended'
    BY <1>1, <1>2, <1>5 DEF CoreInv, EffectInv
  <2>4. \A r \in effect' : r.op = "sub" => r \in ended' \/ \E s \in subs'[r.node] : s.req = r
    <3> SUFFICES ASSUME NEW r \in effect', r.op = "sub", r \notin ended'
                 PROVE  \E s \in subs'[r.node] : s.req = r
      OBVIOUS
    <3>1. CASE r = m.req
      BY <1>1, <1>2, <1>5, <3>1
    <3>2. CASE r \in effect
      <4>1. PICK s \in subs[r.node] : s.req = r
        BY <3>2 DEF CoreInv, EffectInv
      <4>2. r.node \in Nodes
        BY <3>2, RequestFacts DEF TypeOK
      <4> QED
        BY <1>1, <4>1, <4>2
    <3> QED
      BY <3>1, <3>2
  <2> QED
    BY <2>1, <2>2, <2>3, <2>4 DEF EffectInv
<1> QED
  BY <1>4, <1>6, <1>7, <1>8 DEF CoreInv

LEMMA NodeDeletes ==
    ASSUME TypeOK, TypeOK', CoreInv, NEW n \in Nodes, NEW m \in Flying, NEW u, m.op = "del",
           tasks' = tasks \cup {u}, u.op = m.op, u.id = m.id, u.req = m.req, u.at = "stop",
           m.req.node = n, Flying' \subseteq Flying, QueueInv',
           \A h \in Flying' : ~(h.op = m.op /\ h.id = m.id),
           effect' = effect,
           ended' = ended \cup {s.req : s \in {s \in subs[n] : s.id = m.id}},
           subs' = [subs EXCEPT ![n] = {s \in @ : s.id # m.id}],
           UNCHANGED <<xstate, xapps, iapp, job, todo, routes, req_id, pending, asked, closing, heard>>
    PROVE  CoreInv'
<1>1. /\ \A l \in Nodes : \A s \in subs'[l] : s \in subs[l] /\ (l = n => s.id # m.id)
      /\ \A l \in Nodes : \A s \in subs[l] : s \in subs'[l] \/ (l = n /\ s.id = m.id)
  BY DEF TypeOK
<1>2. Served' \subseteq Served
  BY <1>1 DEF Served
<1>3. /\ BindInv' /\ OwnerInv' /\ JobInv' /\ PendingInv' /\ OnceInv' /\ RouteInv' /\ HeardInv'
      /\ \A h \in Flying' \cup tasks' : /\ h.op \in Ops => h.req.op = h.op
                                       /\ h.op \notin Ops => h.req.op = "sub"
      /\ \A t \in tasks' : /\ t.at = "remove" => t.op \in {"control", "del"}
                           /\ t.op = "report" => t.at = "lookup"
  BY <1>2, NewAnswer
<1>4. m \in Holders /\ \A l \in Nodes : \A s \in subs[l] : s \in Holders
  BY DEF Holders, Served
<1>5. \A l \in Nodes : \A s \in subs[l] : s.id = m.id <=> s.req = m.req
  BY <1>4 DEF CoreInv, BindInv
<1>6. \A r : r \in ended' <=> r \in ended \/ (r = m.req /\ \E s \in subs[n] : s.req = m.req)
  BY <1>5
<1>7. AskedInv'
  BY <1>6 DEF CoreInv, AskedInv, EffectInv, Lost, Mistaken
<1>8. KindInv'
  BY <1>1, <1>3 DEF CoreInv, KindInv
<1>9. EffectInv'
  <2>1. \A h \in Flying' : h.op \in Ops => h.req \notin effect'
    BY DEF CoreInv, EffectInv
  <2>2. Lost(m.req) \/ m.req \in ended'
    <3>1. m \in Deleters /\ m.req.op = "sub"
      BY DEF Deleters, CoreInv, KindInv, Ops
    <3>2. Lost(m.req) \/ m.req \in effect
      BY <3>1 DEF CoreInv, RouteInv, Closed
    <3> QED
      BY <1>6, <3>1, <3>2 DEF CoreInv, EffectInv
  <2>3. \A t \in tasks' : /\ t.op # "del" => t.req \in effect'
                          /\ t.op = "del" => Lost(t.req)' \/ t.req \in ended'
    BY <1>6, <2>2 DEF CoreInv, EffectInv, Lost, Mistaken
  <2>4. \A l \in Nodes : \A s \in subs'[l] : s.req \in effect' /\ s.req \notin ended'
    <3> SUFFICES ASSUME NEW l \in Nodes, NEW s \in subs'[l] PROVE s.req \in effect' /\ s.req \notin ended'
      OBVIOUS
    <3>1. s \in subs[l] /\ s.req \in effect /\ s.req \notin ended /\ s.req.node = l
      BY <1>1 DEF CoreInv, EffectInv, KindInv
    <3>2. s.req # m.req
      BY <1>1, <1>5, <3>1
    <3> QED
      BY <1>6, <3>1, <3>2
  <2>5. \A r \in effect' : r.op = "sub" => r \in ended' \/ \E s \in subs'[r.node] : s.req = r
    <3> SUFFICES ASSUME NEW r \in effect, r.op = "sub", r \notin ended'
                 PROVE  \E s \in subs'[r.node] : s.req = r
      OBVIOUS
    <3>1. PICK s \in subs[r.node] : s.req = r
      BY <1>6 DEF CoreInv, EffectInv
    <3>2. r.node \in Nodes
      BY RequestFacts DEF TypeOK
    <3>3. ~(r.node = n /\ s.id = m.id)
      BY <1>5, <1>6, <3>1, <3>2
    <3> QED
      BY <1>1, <3>1, <3>2, <3>3
  <2> QED
    BY <2>1, <2>3, <2>4, <2>5 DEF EffectInv
<1> QED
  BY <1>3, <1>7, <1>8, <1>9 DEF CoreInv

LEMMA NodeHandlesCore ==
    ASSUME TypeOK, TypeOK', CoreInv, NEW n \in Nodes, NodeHandles(n)
    PROVE  CoreInv'
<1>1. UNCHANGED <<xstate, xapps, iapp, job, todo, routes, req_id, pending, asked, closing, heard>>
  BY DEF NodeHandles, xappVars, iappVars, ricVars
<1> QED
  BY <1>1, NodeHandlesStep, NodeCarries, NodeDeletes

LEMMA NodeReportsCore ==
    ASSUME TypeOK, TypeOK', CoreInv, NEW n \in Nodes, NodeReports(n)
    PROVE  CoreInv'
<1>1. UNCHANGED <<xstate, xapps, iapp, job, todo, routes, req_id, pending, toNode, subs, asked,
                  effect, closing, ended, heard>>
  BY DEF NodeReports, xappVars, iappVars, ricVars, history
<1>2. PICK s \in subs[n] : NewTask("report", s, "lookup")
  BY DEF NodeReports
<1>3. s.id \in Nat /\ s.req \in Request
  BY <1>2, SubFacts
<1>4. PICK k \in Nat : tasks' = tasks \cup {[op |-> "report", id |-> s.id, no |-> k, req |-> s.req,
                                             at |-> "lookup", key |-> NoKey]}
  BY <1>2, <1>3, NewTaskType
<1> DEFINE u == [op |-> "report", id |-> s.id, no |-> k, req |-> s.req, at |-> "lookup", key |-> NoKey]
<1>5. /\ tasks' = tasks \cup {u} /\ u.op = "report" /\ u.id = s.id /\ u.req = s.req
      /\ u.at = "lookup"
  BY <1>4
<1> HIDE DEF u
<1>6. /\ Flying' = Flying /\ Served' = Served /\ Forwarded' = Forwarded /\ s \in Holders
      /\ Carriers' \subseteq Carriers /\ Deleters' \subseteq Deleters
  BY <1>1, <1>5 DEF Flying, Served, Forwarded, Holders, Carriers, Deleters, Ops
<1>7. \A h \in Holders' : h \in Holders \/ h = u
  BY <1>1, <1>5, <1>6 DEF Holders
<1>8. BindInv'
  <2>1. \A h \in Holders' : \E g \in Holders : g.id = h.id /\ g.req = h.req
    BY <1>5, <1>6, <1>7
  <2> QED
    BY <1>1, <2>1, BindStep DEF CoreInv
<1>9. JobInv'
  BY <1>1, <1>5, <1>6, <1>7 DEF CoreInv, JobInv
<1>10. OwnerInv' /\ AskedInv' /\ QueueInv' /\ PendingInv'
  BY <1>1, <1>5, <1>6 DEF CoreInv, OwnerInv, AskedInv, QueueInv, PendingInv, Lost, Mistaken
<1>11. s.req.op = "sub" /\ s.req \in effect
  BY <1>2 DEF CoreInv, KindInv, EffectInv
<1>12. KindInv' /\ EffectInv'
  BY <1>1, <1>5, <1>6, <1>11 DEF CoreInv, KindInv, EffectInv, Lost, Mistaken, Ops
<1>13. OnceInv'
  <2>1. \A v : Exclusive(v)' <=> Exclusive(v)
    BY <1>1 DEF Exclusive, Lost, Mistaken
  <2>2. \A r : Lost(r)' <=> Lost(r)
    BY <1>1 DEF Lost, Mistaken
  <2>3. ~Exclusive(u)
    BY <1>5 DEF Exclusive, Ops
  <2> QED
    BY <1>1, <1>5, <1>6, <2>1, <2>2, <2>3 DEF CoreInv, OnceInv
<1>14. RouteInv'
  <2>1. \A q : (Found(q) => Found(q)') /\ (Routed(q) => Routed(q)') /\ (Closed(q) => Closed(q)')
    BY <1>1 DEF Found, Routed, Closed, HasRoute, Lost, Mistaken
  <2> QED
    BY <1>1, <1>6, <2>1 DEF CoreInv, RouteInv
<1>15. HeardInv'
  BY <1>1, <1>6 DEF CoreInv, HeardInv, Lost, Mistaken
<1> QED
  BY <1>8, <1>9, <1>10, <1>12, <1>13, <1>14, <1>15 DEF CoreInv

LEMMA NodeLeavesCore ==
    ASSUME TypeOK, TypeOK', CoreInv, NEW n \in Nodes, NodeLeaves(n)
    PROVE  CoreInv'
<1>1. /\ toNode' = [toNode EXCEPT ![n] = <<>>] /\ subs' = [subs EXCEPT ![n] = {}]
      /\ ended' = ended \cup {s.req : s \in subs[n]}
      /\ UNCHANGED <<xstate, xapps, iapp, job, todo, routes, req_id, pending, tasks, asked,
                     effect, closing, heard>>
  BY DEF NodeLeaves, xappVars, iappVars, ricVars
<1>2. Flying' \subseteq Flying /\ QueueInv'
  BY <1>1, FlyingLost DEF CoreInv
<1>3. /\ \A l \in Nodes : \A s \in subs'[l] : s \in subs[l] /\ l # n
      /\ \A l \in Nodes : \A s \in subs[l] : s \in subs'[l] \/ l = n
      /\ \A r : r \in ended' <=> r \in ended \/ \E s \in subs[n] : s.req = r
  BY <1>1 DEF TypeOK
<1>4. /\ Served' \subseteq Served /\ Forwarded' = Forwarded
      /\ Carriers' \subseteq Carriers /\ Deleters' \subseteq Deleters
  BY <1>1, <1>2, <1>3 DEF Served, Forwarded, Carriers, Deleters
<1>5. Holders' \subseteq Holders
  BY <1>1, <1>2, <1>4 DEF Holders
<1>6. BindInv'
  BY <1>1, <1>5, BindStep DEF CoreInv
<1>7. OwnerInv' /\ JobInv' /\ PendingInv'
  BY <1>1, <1>2, <1>5 DEF CoreInv, OwnerInv, JobInv, PendingInv
<1>8. KindInv' /\ OnceInv'
  BY <1>1, <1>2, <1>3 DEF CoreInv, KindInv, OnceInv, Exclusive, Lost, Mistaken
<1>9. AskedInv'
  BY <1>1, <1>3 DEF CoreInv, AskedInv, EffectInv, Lost, Mistaken
<1>10. HeardInv'
  BY <1>1, <1>4 DEF CoreInv, HeardInv, Lost, Mistaken
<1>11. RouteInv'
  <2>1. \A q : (Found(q) => Found(q)') /\ (Routed(q) => Routed(q)') /\ (Closed(q) => Closed(q)')
    BY <1>1 DEF Found, Routed, Closed, HasRoute, Lost, Mistaken
  <2> QED
    BY <1>1, <1>4, <2>1 DEF CoreInv, RouteInv
<1>12. EffectInv'
  <2>1. \A l \in Nodes : \A s \in subs'[l] : s.req \in effect /\ s.req \notin ended'
    <3> SUFFICES ASSUME NEW l \in Nodes, NEW s \in subs'[l] PROVE s.req \in effect /\ s.req \notin ended'
      OBVIOUS
    <3>1. s \in subs[l] /\ l # n /\ s.req.node = l /\ s.req \in effect /\ s.req \notin ended
      BY <1>3 DEF CoreInv, KindInv, EffectInv
    <3>2. \A v \in subs[n] : v.req.node = n
      BY DEF CoreInv, KindInv
    <3> QED
      BY <1>3, <3>1, <3>2
  <2>2. \A r \in effect : r.op = "sub" => r \in ended' \/ \E s \in subs'[r.node] : s.req = r
    <3> SUFFICES ASSUME NEW r \in effect, r.op = "sub", r \notin ended'
                 PROVE  \E s \in subs'[r.node] : s.req = r
      OBVIOUS
    <3>1. PICK s \in subs[r.node] : s.req = r
      BY <1>3 DEF CoreInv, EffectInv
    <3>2. r.node \in Nodes
      BY RequestFacts DEF TypeOK
    <3> QED
      BY <1>3, <3>1, <3>2
  <2> QED
    BY <1>1, <1>2, <1>3, <2>1, <2>2 DEF CoreInv, EffectInv, Lost, Mistaken
<1> QED
  BY <1>2, <1>6, <1>7, <1>8, <1>9, <1>10, <1>11, <1>12 DEF CoreInv

LEMMA CoreInit == Init => CoreInv
<1> SUFFICES ASSUME Init PROVE CoreInv
  OBVIOUS
<1>1. Flying = {}
  <2>1. \A n \in Nodes : DOMAIN toNode[n] = {}
    BY DEF Init
  <2> QED
    BY <2>1 DEF Flying
<1>2. Served = {} /\ Forwarded = {} /\ Holders = {} /\ Carriers = {} /\ Deleters = {}
  BY <1>1 DEF Init, Served, Forwarded, Holders, Carriers, Deleters
<1>3. QueueInv
  BY DEF Init, QueueInv
<1> QED
  BY <1>1, <1>2, <1>3 DEF Init, CoreInv, BindInv, OwnerInv, JobInv, AskedInv, KindInv, PendingInv,
                          OnceInv, RouteInv, EffectInv, HeardInv

\* Every step keeps the identifiers, the routes and the history consistent.
LEMMA CoreInduction ==
    ASSUME TypeOK, CoreInv, XappInv, [Next]_vars
    PROVE  CoreInv'
<1>1. TypeOK'
  BY TypeInduction
<1>2. CASE \/ UNCHANGED vars
           \/ \E n \in Nodes : RegisterNode(n)
           \/ \E e \in pending : TimerExpires(e)
           \/ HandleTimer
           \/ \E n \in Nodes : NodeShutdown(n)
           \/ \E n \in Nodes : NodeJoins(n)
  <2>1. UNCHANGED <<xstate, xapps, iapp, job, todo, routes, req_id, pending, tasks, toNode, subs,
                    asked, effect, closing, ended, heard>>
    BY <1>2 DEF vars, RegisterNode, TimerExpires, HandleTimer, NodeShutdown, NodeJoins, xappVars,
                iappVars, ricVars, nodeVars, history
  <2> QED
    BY <2>1, CoreFrame
<1>3. CASE Forward
  BY <1>1, <1>3, ForwardSends, ForwardFails
<1> QED
  BY <1>1, <1>2, <1>3, SetupCore, RequestArrivesCore, AddRouteCore, DeleteArrivesCore,
     XappDisconnectedCore, ForwardDeleteCore, XappLeavesCore, StopPendingCore, RouteAnswerCore,
     RemoveRouteCore, NodeHandlesCore, NodeReportsCore, NodeLeavesCore DEF Next

-----------------------------------------------------------------------------
(* The E2 nodes while none has shut down.                                   *)

LEMMA NodeFrame ==
    ASSUME NodeInv, UNCHANGED <<departures, leaving, joining, addr, reg, known, iapp, job, routes, todo>>
    PROVE  NodeInv'
  BY DEF NodeInv

LEMMA NodeInduction ==
    ASSUME TypeOK, NodeInv, [Next]_vars
    PROVE  NodeInv'
<1>1. CASE \/ UNCHANGED vars
           \/ \E x \in XApps : XappLeaves(x)
           \/ \E t \in tasks : StopPending(t)
           \/ \E t \in tasks : RouteAnswer(t)
           \/ \E e \in pending : TimerExpires(e)
           \/ HandleTimer
           \/ \E n \in Nodes : NodeHandles(n)
           \/ \E n \in Nodes : NodeReports(n)
  BY <1>1, NodeFrame DEF vars, XappLeaves, StopPending, RouteAnswer, TimerExpires, HandleTimer,
       NodeHandles, NodeReports, xappVars, iappVars, nodeMaps, links
<1>2. ASSUME NEW x \in XApps, Setup(x) PROVE NodeInv'
  <2>1. /\ UNCHANGED <<departures, leaving, joining, addr, reg, iapp, job, routes, todo>>
        /\ known' = known \/ known' = [known EXCEPT ![x] = reg]
    BY <1>2 DEF Setup, xappVars, iappVars, nodeMaps, links
  <2>2. \A y \in XApps : known'[y] = known[y] \/ known'[y] = reg
    BY <2>1 DEF TypeOK
  <2> QED
    BY <2>1, <2>2 DEF NodeInv
<1>3. ASSUME NEW x \in XApps, NEW o \in Own[x], NEW op \in Ops, NEW n \in Nodes,
             RequestArrives(x, o, op, n)
      PROVE NodeInv'
  BY <1>3 DEF RequestArrives, IappIdle, NodeInv, xappVars, nodeMaps, links
<1>4. CASE Forward
  <2>1. /\ UNCHANGED <<departures, leaving, joining, addr, reg, known, routes, todo>>
        /\ iapp = "forward" /\ job'.req = job.req
    BY <1>4 DEF Forward, xappVars, nodeMaps, links, TypeOK
  <2> QED
    BY <2>1 DEF NodeInv
<1>5. CASE AddRoute
  <2>1. /\ UNCHANGED <<departures, leaving, joining, addr, reg, known, todo>> /\ iapp = "route"
        /\ \/ UNCHANGED <<routes, iapp, job>>
           \/ iapp' = "idle" /\ routes' = routes \cup {[id |-> job.id, xid |-> job.xid, req |-> job.req]}
    BY <1>5 DEF AddRoute, xappVars, nodeMaps, links
  <2> QED
    BY <2>1 DEF NodeInv
<1>6. ASSUME NEW x \in XApps, NEW o \in Own[x], DeleteArrives(x, o) PROVE NodeInv'
  <2>1. /\ UNCHANGED <<departures, leaving, joining, addr, reg, known, job, routes>> /\ iapp = "idle"
        /\ UNCHANGED <<todo, iapp>> \/ (iapp' = "delete" /\ todo' \subseteq routes)
    BY <1>6 DEF DeleteArrives, IappIdle, FirstRoutesOf, xappVars, nodeMaps, links
  <2> QED
    BY <2>1 DEF NodeInv
<1>7. ASSUME NEW x \in XApps, XappDisconnected(x) PROVE NodeInv'
  <2>1. /\ UNCHANGED <<departures, leaving, joining, addr, reg, known, job, routes>>
        /\ iapp' \in {"idle", "clean"} /\ todo' \subseteq routes
    BY <1>7 DEF XappDisconnected, IappIdle, SubscriptionsOf, xappVars, nodeMaps, links
  <2> QED
    BY <2>1 DEF NodeInv
<1>8. ASSUME NEW p \in todo, ForwardDelete(p) PROVE NodeInv'
  <2>1. /\ UNCHANGED <<departures, leaving, joining, addr, reg, known, job, routes>>
        /\ iapp' = iapp \/ iapp' = "idle"
        /\ todo' \subseteq todo
    BY <1>8 DEF ForwardDelete, xappVars, nodeMaps, links
  <2> QED
    BY <2>1 DEF NodeInv
<1>9. ASSUME NEW t \in tasks, RemoveRoute(t) PROVE NodeInv'
  <2>1. /\ UNCHANGED <<departures, leaving, joining, addr, reg, known, iapp, job, todo>>
        /\ routes' \subseteq routes
    BY <1>9 DEF RemoveRoute, xappVars, iappVars, nodeMaps, links
  <2> QED
    BY <2>1 DEF NodeInv
<1>10. ASSUME NEW n \in Nodes, RegisterNode(n) PROVE NodeInv'
  <2>1. UNCHANGED <<departures, leaving, known, iapp, job, routes, todo>>
    BY <1>10 DEF RegisterNode, xappVars, iappVars
  <2>2. CASE /\ joining' = [joining EXCEPT ![n] = "registry"]
             /\ addr' = addr \cup {n} /\ reg' = reg
    <3>1. \A l \in Nodes : l # n => joining'[l] = joining[l]
      BY <2>2 DEF TypeOK
    <3> QED
      BY <2>1, <2>2, <3>1 DEF NodeInv
  <2>3. CASE /\ joining[n] = "registry" /\ joining' = [joining EXCEPT ![n] = "connected"]
             /\ reg' = reg \cup {n} /\ addr' = addr
    <3>1. \A l \in Nodes : l # n => joining'[l] = joining[l]
      BY <2>3 DEF TypeOK
    <3> QED
      BY <2>1, <2>3, <3>1 DEF NodeInv
  <2>4. CASE /\ joining' = [joining EXCEPT ![n] = "no"] /\ addr' = addr /\ reg' = reg
    <3>1. joining'[n] = "no" /\ \A l \in Nodes : l # n => joining'[l] = joining[l]
      BY <2>4 DEF TypeOK
    <3> QED
      BY <2>1, <2>4, <3>1 DEF NodeInv
  <2> QED
    BY <1>10, <2>2, <2>3, <2>4 DEF RegisterNode
<1>11. ASSUME NEW n \in Nodes, NodeShutdown(n) PROVE NodeInv'
  <2>1. leaving[n] # "no" /\ departures' = departures
    BY <1>11 DEF NodeShutdown
  <2> QED
    BY <2>1 DEF NodeInv
<1>12. ASSUME NEW n \in Nodes, NodeJoins(n) PROVE NodeInv'
  <2>1. /\ UNCHANGED <<departures, leaving, addr, reg, known, iapp, job, routes, todo>>
        /\ joining' = [joining EXCEPT ![n] = "address"]
    BY <1>12 DEF NodeJoins, xappVars, iappVars, nodeMaps
  <2>2. joining'[n] = "address" /\ \A l \in Nodes : l # n => joining'[l] = joining[l]
    BY <2>1 DEF TypeOK
  <2> QED
    BY <2>1, <2>2 DEF NodeInv
<1>13. ASSUME NEW n \in Nodes, NodeLeaves(n) PROVE NodeInv'
  <2>1. departures \in Nat /\ departures' = departures + 1
    BY <1>13 DEF NodeLeaves, TypeOK
  <2>2. departures' # 0
    BY <2>1
  <2> QED
    BY <2>2 DEF NodeInv
<1> QED
  BY <1>1, <1>2, <1>3, <1>4, <1>5, <1>6, <1>7, <1>8, <1>9, <1>10, <1>11, <1>12, <1>13 DEF Next

-----------------------------------------------------------------------------
(* The assertions.                                                          *)

LEMMA NoAbort == ASSUME aborted' = "no" PROVE Excused'
  BY DEF Excused, SureAssertions, AbortCauses

\* The steps that look up no map.
LEMMA QuietSteps ==
    ASSUME \/ \E x \in XApps : Setup(x)
           \/ \E x \in XApps : XappDisconnected(x)
           \/ \E x \in XApps : XappLeaves(x)
           \/ \E n \in Nodes : RegisterNode(n)
           \/ \E e \in pending : TimerExpires(e)
           \/ \E n \in Nodes : NodeJoins(n)
           \/ \E n \in Nodes : NodeHandles(n)
           \/ \E n \in Nodes : NodeReports(n)
           \/ \E n \in Nodes : NodeLeaves(n)
    PROVE  aborted' = "no"
  BY DEF Setup, XappDisconnected, XappLeaves, RegisterNode, TimerExpires, NodeJoins, NodeHandles,
         NodeReports, NodeLeaves, IappIdle, Running

LEMMA Positive == ASSUME NEW k \in Nat, k # 0 PROVE k > 0 /\ ~(k <= 0)
  OBVIOUS

\* The failures that need a node that has shut down.
LEMMA NodeFailures ==
    ASSUME TypeOK, departures # 0, departures' = departures,
           aborted' \in {"E2 Node not valid", "E2 Node address not found",
                         "shutdown of an unknown E2 Node", "E2 Node not connected"}
    PROVE  Excused'
<1>1. departures \in Nat
  BY DEF TypeOK
<1>2. departures' > 0
  BY <1>1, Positive, Zenon
<1> QED
  BY <1>2 DEF Excused, SureAssertions, AbortCauses

LEMMA RequestArrivesExcused ==
    ASSUME TypeOK, NodeInv, NEW x \in XApps, NEW o \in Own[x], NEW op \in Ops, NEW n \in Nodes,
           RequestArrives(x, o, op, n)
    PROVE  Excused'
<1>1. CASE n \in reg
  BY <1>1, NoAbort DEF RequestArrives, IappIdle, Running
<1>2. CASE n \notin reg
  <2>1. aborted' = "E2 Node not valid" /\ n \in known[x] /\ departures' = departures
    BY <1>2 DEF RequestArrives, Abort
  <2>2. departures # 0
    BY <1>2, <2>1 DEF NodeInv
  <2> QED
    BY <2>1, <2>2, NodeFailures
<1> QED
  BY <1>1, <1>2

LEMMA ForwardExcused ==
    ASSUME TypeOK, NodeInv, Forward
    PROVE  Excused'
<1>1. CASE job.req.node \in addr
  BY <1>1, NoAbort DEF Forward, Running
<1>2. CASE job.req.node \notin addr
  <2>1. aborted' = "E2 Node address not found" /\ departures' = departures /\ iapp = "forward"
    BY <1>2 DEF Forward, Abort
  <2>2. departures # 0
    BY <1>2, <2>1 DEF NodeInv
  <2> QED
    BY <2>1, <2>2, NodeFailures
<1> QED
  BY <1>1, <1>2

LEMMA AddRouteExcused ==
    ASSUME TypeOK, CoreInv, AddRoute
    PROVE  Excused'
<1>1. iapp = "route"
  BY DEF AddRoute
<1>2. job \in Holders /\ routes \subseteq Holders
  BY <1>1 DEF Holders, Forwarded
<1>3. \A p \in routes : p.id # job.id
  BY <1>1, <1>2 DEF CoreInv, BindInv, JobInv
<1> QED
  BY <1>3, NoAbort DEF AddRoute, Running

LEMMA DeleteArrivesExcused ==
    ASSUME TypeOK, CoreInv, NEW x \in XApps, NEW o \in Own[x], DeleteArrives(x, o)
    PROVE  Excused'
<1>1. PICK r \in asked \ closing :
         /\ closing' = closing \cup {r}
         /\ \/ aborted' = "xApp RIC ID not found" /\ Mistaken(r)
            \/ aborted' = aborted
            \/ /\ aborted' = "not a subscription"
               /\ \E p \in routes : p.req.op = "control" /\ Twins(p.req, r)
  BY DeleteArrivesStep
<1>2. aborted = "no" /\ asked' = asked
  BY DEF DeleteArrives, IappIdle, Running
<1>3. CASE aborted' = "xApp RIC ID not found" /\ Mistaken(r)
  <2>1. r \in closing' /\ Mistaken(r)'
    BY <1>1, <1>3 DEF Mistaken
  <2> QED
    BY <1>3, <2>1 DEF Excused, SureAssertions, AbortCauses
<1>4. ASSUME aborted' = "not a subscription",
             NEW p \in routes, p.req.op = "control", Twins(p.req, r)
      PROVE  Excused'
  <2>1. p.req \in asked'
    BY <1>2 DEF CoreInv, BindInv, Holders
  <2>2. Mistaken(p.req)'
    BY <1>1, <1>4 DEF Mistaken, Twins
  <2> QED
    BY <1>4, <2>1, <2>2 DEF Excused, SureAssertions, AbortCauses
<1> QED
  BY <1>1, <1>2, <1>3, <1>4, NoAbort

LEMMA ForwardDeleteExcused ==
    ASSUME TypeOK, NodeInv, NEW p \in todo, ForwardDelete(p)
    PROVE  Excused'
<1>1. CASE aborted' = aborted
  BY <1>1, NoAbort DEF ForwardDelete, Running
<1>2. CASE aborted' # aborted
  <2>1. aborted' = "E2 Node address not found" /\ departures' = departures /\ p.req.node \notin addr
    BY <1>2 DEF ForwardDelete, Abort
  <2>2. departures # 0
    BY <2>1 DEF NodeInv
  <2> QED
    BY <2>1, <2>2, NodeFailures
<1> QED
  BY <1>1, <1>2

LEMMA StopPendingExcused ==
    ASSUME TypeOK, CoreInv, NEW t \in tasks, StopPending(t)
    PROVE  Excused'
<1>1. aborted' = aborted
  BY StopPendingFinds
<1> QED
  BY <1>1, NoAbort DEF StopPending, Running

\* A worker that finds no route handles a subscription of an xApp that has gone.
LEMMA LookupFails ==
    ASSUME TypeOK, CoreInv, NEW t \in tasks, RoutesOf(t.id) = {}, t.op \in Ops, iapp # "route"
    PROVE  t.op = "sub" /\ Lost(t.req)
<1>1. t \in Carriers /\ t \in Holders /\ routes \subseteq Holders /\ t.req.op = t.op
  BY DEF Carriers, Holders, CoreInv, KindInv
<1>2. ~HasRoute(t.req)
  BY <1>1 DEF HasRoute, RoutesOf, CoreInv, BindInv
<1> QED
  BY <1>1, <1>2 DEF CoreInv, RouteInv, Routed

LEMMA RouteAnswerExcused ==
    ASSUME TypeOK, CoreInv, NEW t \in tasks, RouteAnswer(t)
    PROVE  Excused'
<1>1. /\ t.at = "lookup" /\ iapp # "route" /\ aborted = "no"
      /\ UNCHANGED <<xstate, closing, req_id>>
  BY RouteAnswerCases DEF RouteLockFree, xappVars, ricVars, Running
<1>2. CASE aborted' = aborted
  BY <1>1, <1>2, NoAbort
<1>3. CASE t.id = 0 /\ aborted' = "zero request id"
  <2>1. Given(t.id)
    BY DEF Holders, CoreInv, BindInv
  <2>2. req_id \in Nat /\ FirstReqId \in Nat /\ FirstReqId # 0
    BY IdAssumption DEF TypeOK
  <2>3. req_id < FirstReqId
    <3>1. ~(FirstReqId <= t.id)
      BY <1>3, <2>2, Positive, Zenon
    <3>2. ~(req_id >= FirstReqId)
      BY <2>1, <3>1 DEF Given
    <3> QED
      BY <2>2, <3>2
  <2> QED
    BY <1>1, <1>3, <2>3 DEF Excused, SureAssertions, AbortCauses
<1>4. CASE RoutesOf(t.id) = {} /\ t.op = "sub" /\ aborted' = "RIC Req Id not found" /\ tasks' = tasks
  <2>1. Lost(t.req)
    BY <1>1, <1>4, LookupFails DEF Ops
  <2>2. \E u \in tasks' : u.op = "sub" /\ u.at = "lookup" /\ Lost(u.req)'
    BY <1>1, <1>4, <2>1 DEF Lost, Mistaken
  <2> QED
    BY <1>4, <2>2 DEF Excused, SureAssertions, AbortCauses, Lost
<1>5. CASE RoutesOf(t.id) = {} /\ t.op = "control"
  BY <1>1, <1>5, LookupFails DEF Ops
<1>6. ASSUME NEW p \in RoutesOf(t.id), p.xid \notin DOMAIN xapps
      PROVE  FALSE
  BY <1>6, RouteOfTask
<1> QED
  BY <1>2, <1>3, <1>4, <1>5, <1>6 DEF RouteAnswer, Abort

LEMMA RemoveRouteExcused ==
    ASSUME TypeOK, CoreInv, NEW t \in tasks, RemoveRoute(t)
    PROVE  Excused'
<1>1. t.at = "remove" /\ iapp # "route" /\ aborted = "no" /\ UNCHANGED <<xstate, closing>>
  BY DEF RemoveRoute, RouteLockFree, Running, xappVars, history
<1>2. CASE aborted' = aborted
  BY <1>1, <1>2, NoAbort
<1>3. CASE RoutesWithKey(t.key) = {} /\ aborted' = "key not found in the map" /\ tasks' = tasks
  <2>1. t.op = "del" /\ Lost(t.req)
    BY <1>1, <1>3, RemoveFinds
  <2>2. \E u \in tasks' : u.op = "del" /\ u.at = "remove" /\ Lost(u.req)'
    BY <1>1, <1>3, <2>1 DEF Lost, Mistaken
  <2> QED
    BY <1>3, <2>2 DEF Excused, SureAssertions, AbortCauses, Lost
<1> QED
  BY <1>2, <1>3 DEF RemoveRoute, Abort

LEMMA LoopExcused ==
    ASSUME TypeOK, NodeInv, HandleTimer \/ \E n \in Nodes : NodeShutdown(n)
    PROVE  Excused'
<1>1. CASE aborted' = "no"
  BY <1>1, NoAbort
<1>2. CASE HandleTimer /\ aborted' # "no"
  <2>1. aborted' = "timer of a stopped event"
    BY <1>2 DEF HandleTimer, Abort, Running
  <2> QED
    BY <2>1 DEF Excused, SureAssertions, AbortCauses
<1>3. ASSUME NEW n \in Nodes, NodeShutdown(n), aborted' # "no"
      PROVE  Excused'
  <2>1. /\ leaving[n] # "no" /\ departures' = departures
        /\ aborted' \in {"shutdown of an unknown E2 Node", "E2 Node not connected"}
    BY <1>3 DEF NodeShutdown, Abort, Running
  <2>2. departures # 0
    BY <2>1 DEF NodeInv
  <2> QED
    BY <2>1, <2>2, NodeFailures
<1> QED
  BY <1>1, <1>2, <1>3

LEMMA ExcusedInduction ==
    ASSUME TypeOK, CoreInv, NodeInv, Excused, [Next]_vars
    PROVE  Excused'
<1>1. CASE UNCHANGED vars
  BY <1>1 DEF vars, Excused, SureAssertions, AbortCauses, Mistaken, xappVars, ricVars, history
<1> QED
  BY <1>1, NoAbort, QuietSteps, RequestArrivesExcused, ForwardExcused, AddRouteExcused,
     DeleteArrivesExcused, ForwardDeleteExcused, StopPendingExcused, RouteAnswerExcused,
     RemoveRouteExcused, LoopExcused DEF Next

-----------------------------------------------------------------------------
(* The theorems about the assertions.                                       *)

LEMMA InitInv == Init => IInv
<1> SUFFICES ASSUME Init PROVE IInv
  OBVIOUS
<1>1. XappInv
  BY DEF Init, XappInv
<1>2. NodeInv
  BY DEF Init, NodeInv
<1>3. Excused
  BY DEF Init, Excused, SureAssertions, AbortCauses
<1> QED
  BY <1>1, <1>2, <1>3, InitType, CoreInit DEF IInv

LEMMA NextInv == IInv /\ [Next]_vars => IInv'
  BY TypeInduction, CoreInduction, XappInduction, NodeInduction, ExcusedInduction DEF IInv

\* The inductive invariant holds, however the xApps number their requests.
THEOREM InvariantHolds == Spec => []IInv
<1> QED
  BY NextInv, InitInv, PTL DEF Spec

\* Four assertions of the RIC hold whatever the order of the threads: the answer to a
\* control finds its route, the address and the pending event that its handler looks
\* for exist, and an identifier is free when its route is added.
THEOREM AssertionsHold == Spec => []SureAssertions
<1>1. IInv => SureAssertions
  BY DEF IInv, Excused
<1> QED
  BY <1>1, InvariantHolds, PTL

\* The other assertions fail only after an xApp has left in the middle of a request,
\* another xApp has deleted a subscription that has the same own id, an E2 node has
\* shut down, or the request identifier has wrapped.
THEOREM FailuresHaveCauses == Spec => []AbortCauses
<1>1. IInv => AbortCauses
  BY DEF IInv, Excused
<1> QED
  BY <1>1, InvariantHolds, PTL

-----------------------------------------------------------------------------
(* The request service.                                                     *)

LEMMA SameRequests == Service!Request = Request
  BY DEF Service!Request, Request, Ops

LEMMA ArrivesAsks ==
    ASSUME NEW x \in XApps, NEW o \in Own[x], NEW op \in Ops, NEW n \in Nodes,
           RequestArrives(x, o, op, n)
    PROVE  Service!Next
<1> DEFINE r == [xapp |-> x, own |-> o, op |-> op, node |-> n]
<1>1. r \in Request /\ r.xapp = x /\ r.own = o
  BY DEF Request, OwnIds
<1>2. /\ \A q \in asked : q.xapp = x => q.own # o
      /\ asked' = asked \cup {r} /\ UNCHANGED <<effect, LeftXapps, closing, ended, heard>>
  BY DEF RequestArrives, xappVars, LeftXapps
<1> HIDE DEF r
<1>3. Service!Ask(r)
  BY <1>1, <1>2 DEF Service!Ask
<1> QED
  BY <1>1, <1>3, SameRequests DEF Service!Next

LEMMA DeleteCloses ==
    ASSUME TypeOK, CoreInv, NEW x \in XApps, NEW o \in Own[x], DeleteArrives(x, o)
    PROVE  Service!Next
<1>1. PICK r \in asked \ closing :
              /\ r.op = "sub" /\ About(r, "done") \in heard /\ closing' = closing \cup {r}
              /\ r.xapp = x /\ xstate[x] = "up"
  BY DeleteArrivesStep
<1>2. r \in effect /\ r \in Request /\ r.xapp \notin LeftXapps
  BY <1>1 DEF CoreInv, HeardInv, TypeOK, LeftXapps
<1>3. UNCHANGED <<asked, effect, LeftXapps, ended, heard>>
  BY DEF DeleteArrives, xappVars, LeftXapps
<1>4. Service!Close(r)
  BY <1>1, <1>2, <1>3 DEF Service!Close
<1> QED
  BY <1>2, <1>4, SameRequests DEF Service!Next

LEMMA LeavesLeave ==
    ASSUME TypeOK, NEW x \in XApps, XappLeaves(x)
    PROVE  Service!Next
<1>1. xstate' = [xstate EXCEPT ![x] = "gone"] /\ UNCHANGED <<asked, effect, closing, ended, heard>>
  BY DEF XappLeaves, history
<1>2. LeftXapps' = LeftXapps \cup {x}
  BY <1>1 DEF TypeOK, LeftXapps
<1>3. Service!Leave(x)
  BY <1>1, <1>2 DEF Service!Leave
<1> QED
  BY <1>3 DEF Service!Next

LEMMA HandlesCarries ==
    ASSUME TypeOK, CoreInv, NEW n \in Nodes, NodeHandles(n)
    PROVE  Service!Next \/ UNCHANGED <<asked, effect, LeftXapps, closing, ended, heard>>
<1>1. UNCHANGED <<asked, LeftXapps, closing, heard>>
  BY DEF NodeHandles, xappVars, LeftXapps
<1>2. PICK m \in Flying :
         \/ m.op \in Ops /\ effect' = effect \cup {m.req} /\ ended' = ended
         \/ /\ m.op = "del" /\ effect' = effect
            /\ ended' = ended \cup {s.req : s \in {s \in subs[n] : s.id = m.id}}
  BY NodeHandlesStep
<1>3. m.req \in Request /\ m \in Holders /\ \A s \in subs[n] : s \in Holders
  BY FlyingFacts DEF Holders, Served
<1>4. CASE m.op \in Ops /\ effect' = effect \cup {m.req} /\ ended' = ended
  <2>1. m.req \in asked \ effect
    BY <1>3, <1>4 DEF CoreInv, BindInv, EffectInv
  <2>2. Service!Carry(m.req)
    BY <1>1, <1>4, <2>1 DEF Service!Carry
  <2> QED
    BY <1>3, <2>2, SameRequests DEF Service!Next
<1>5. CASE /\ m.op = "del" /\ effect' = effect
           /\ ended' = ended \cup {s.req : s \in {s \in subs[n] : s.id = m.id}}
  <2>1. \A s \in subs[n] : s.id = m.id => s.req = m.req
    BY <1>3 DEF CoreInv, BindInv
  <2>2. CASE \A s \in subs[n] : s.id # m.id
    <3>1. ended' = ended
      BY <1>5, <2>2
    <3> QED
      BY <1>1, <1>5, <3>1
  <2>3. ASSUME NEW s \in subs[n], s.id = m.id
        PROVE  Service!Next
    <3>1. s.req = m.req /\ m.req \in effect /\ m.req \notin ended
      BY <2>1, <2>3 DEF CoreInv, EffectInv
    <3>2. m \in Deleters
      BY <1>5 DEF Deleters
    <3>3. m.req \in closing \/ m.req.xapp \in LeftXapps \/ Service!Mistaken(m.req)
      BY <1>3, <3>2, RequestFacts DEF CoreInv, RouteInv, Closed, Lost, Mistaken, Service!Mistaken, LeftXapps
    <3>4. ended' = ended \cup {m.req}
      BY <1>5, <2>1, <2>3, <3>1
    <3>5. Service!End(m.req)
      BY <1>1, <1>5, <3>1, <3>3, <3>4 DEF Service!End
    <3> QED
      BY <1>3, <3>5, SameRequests DEF Service!Next
  <2> QED
    BY <2>2, <2>3
<1> QED
  BY <1>2, <1>4, <1>5

LEMMA NodeLeavesDrops ==
    ASSUME TypeOK, CoreInv, NEW n \in Nodes, NodeLeaves(n)
    PROVE  Service!Next
<1>1. /\ ended' = ended \cup {s.req : s \in subs[n]}
      /\ UNCHANGED <<asked, effect, LeftXapps, closing, heard>>
  BY DEF NodeLeaves, xappVars, LeftXapps
<1>2. \A r \in effect : r.node = n /\ r.op = "sub" => r \in ended \/ \E s \in subs[n] : s.req = r
  BY DEF CoreInv, EffectInv
<1>3. \A s \in subs[n] : s.req \in effect /\ s.req.node = n /\ s.req.op = "sub"
  BY DEF CoreInv, EffectInv, KindInv
<1>4. ended' = ended \cup {r \in effect : r.node = n /\ r.op = "sub"}
  BY <1>1, <1>2, <1>3
<1>5. Service!Drop(n)
  BY <1>1, <1>4 DEF Service!Drop
<1> QED
  BY <1>5 DEF Service!Next

LEMMA AnswerTells ==
    ASSUME TypeOK, CoreInv, NEW t \in tasks, RouteAnswer(t)
    PROVE  Service!Next \/ UNCHANGED <<asked, effect, LeftXapps, closing, ended, heard>>
<1>1. UNCHANGED <<asked, effect, LeftXapps, closing, ended>>
  BY DEF RouteAnswer, xappVars, LeftXapps
<1>2. CASE heard' = heard
  BY <1>1, <1>2
<1>3. ASSUME NEW p \in RoutesOf(t.id), Deliver(xapps[p.xid], p.req.own, What(t.op)), heard' # heard
      PROVE  Service!Next
  <2>1. p.req = t.req /\ xapps[p.xid] = t.req.xapp
    BY RouteOfTask
  <2>2. heard' = heard \cup {About(t.req, What(t.op))} /\ t.req.xapp \notin LeftXapps
    BY <1>3, <2>1 DEF Deliver, About, LeftXapps
  <2>3. /\ t.op \in Ops \cup {"del", "report"} /\ t.req \in Request
        /\ What(t.op) \in {"done", "report", "ended"}
    BY TaskFacts, WhatType
  <2>4. \/ What(t.op) = "done" /\ t.req \in effect
        \/ What(t.op) = "report" /\ t.req \in effect /\ t.req.op = "sub"
        \/ What(t.op) = "ended" /\ (t.req \in ended \/ Service!Mistaken(t.req))
    <3>1. CASE t.op \in Ops
      BY <3>1 DEF What, Ops, CoreInv, EffectInv
    <3>2. CASE t.op = "report"
      BY <3>2 DEF What, Ops, CoreInv, EffectInv, KindInv
    <3>3. CASE t.op = "del"
      <4>1. t.req \in ended \/ Service!Mistaken(t.req)
        BY <2>2, <2>3, <3>3, RequestFacts DEF CoreInv, EffectInv, Lost, Mistaken, Service!Mistaken, LeftXapps
      <4> QED
        BY <3>3, <4>1 DEF What, Ops
    <3> QED
      BY <2>3, <3>1, <3>2, <3>3
  <2>5. Service!Tell(t.req, What(t.op))
    BY <1>1, <2>2, <2>4 DEF Service!Tell, Service!About, About
  <2> QED
    BY <2>3, <2>5, SameRequests DEF Service!Next
<1> QED
  BY <1>2, <1>3, RouteAnswerCases, Zenon

LEMMA SetupKeeps ==
    ASSUME TypeOK, NEW x \in XApps, Setup(x)
    PROVE  UNCHANGED <<asked, effect, LeftXapps, closing, ended, heard>>
<1>1. UNCHANGED history /\ xstate[x] # "gone"
  BY DEF Setup
<1>2. \/ xstate' = xstate
      \/ xstate' = [xstate EXCEPT ![x] = "starting"]
      \/ xstate' = [xstate EXCEPT ![x] = "up"]
  BY DEF Setup, xappVars
<1>3. LeftXapps' = LeftXapps
  BY <1>1, <1>2 DEF LeftXapps, TypeOK
<1> QED
  BY <1>1, <1>3 DEF history

LEMMA StepImplements ==
    ASSUME IInv, [Next]_vars
    PROVE  Service!Next \/ UNCHANGED <<asked, effect, LeftXapps, closing, ended, heard>>
<1>1. CASE \/ UNCHANGED vars
           \/ Forward
           \/ AddRoute
           \/ \E x \in XApps : XappDisconnected(x)
           \/ \E p \in todo : ForwardDelete(p)
           \/ \E t \in tasks : StopPending(t)
           \/ \E t \in tasks : RemoveRoute(t)
  BY <1>1 DEF vars, Forward, AddRoute, XappDisconnected, ForwardDelete, StopPending,
              RemoveRoute, history, xappVars, LeftXapps
<1>2. CASE \/ \E n \in Nodes : RegisterNode(n)
           \/ \E e \in pending : TimerExpires(e)
           \/ HandleTimer
           \/ \E n \in Nodes : NodeShutdown(n)
           \/ \E n \in Nodes : NodeJoins(n)
           \/ \E n \in Nodes : NodeReports(n)
  BY <1>2 DEF RegisterNode, TimerExpires, HandleTimer, NodeShutdown, NodeJoins, NodeReports,
              history, xappVars, LeftXapps
<1> QED
  BY <1>1, <1>2, ArrivesAsks, DeleteCloses, LeavesLeave, HandlesCarries, NodeLeavesDrops,
     AnswerTells, SetupKeeps DEF Next, IInv

\* The RIC implements the request service: each request is carried out at most once,
\* each xApp hears of its own requests only and of nothing that has not happened, and
\* a subscription ends only if its xApp left or gave it up, its node shut down, or
\* another xApp gave up a subscription that has the same own id.
THEOREM ImplementsService == Spec => ServiceSpec
<1>1. Init => Service!Init
  BY DEF Init, Service!Init, LeftXapps
<1>2. IInv /\ [Next]_vars => [Service!Next]_(Service!vars)
  BY StepImplements DEF Service!vars
<1> QED
  BY <1>1, <1>2, InvariantHolds, PTL DEF Spec, ServiceSpec, Service!Spec
=============================================================================
