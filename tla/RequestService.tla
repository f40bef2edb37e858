--------------------------- MODULE RequestService ---------------------------
(***************************************************************************)
(* What the near-RT RIC promises to its xApps and to the E2 nodes: a       *)
(* request that an xApp sends is carried out at most once, at the node it  *)
(* names; the xApp, and no other, hears of its own requests, and only of   *)
(* what has happened; a subscription ends only when its xApp asked for it, *)
(* or left, or its node went away, or another xApp asked to end one that   *)
(* it numbered alike: the service does not tell the two apart.  RicRouting *)
(* shows that the RIC with its identifier maps, its thread pool and its    *)
(* timers keeps this promise.                                              *)
(***************************************************************************)
CONSTANTS
    XApps,       \* the xApps
    Nodes,       \* the E2 nodes
    OwnIds       \* the identifiers that xApps give to their requests

VARIABLES
    asked,       \* requests that an xApp has sent
    effect,      \* requests that their node has carried out
    left,        \* xApps that have gone
    closing,     \* subscriptions whose xApp has asked to end them
    ended,       \* subscriptions that are no longer served by their node
    heard        \* what the xApps have been told

vars == <<asked, effect, left, closing, ended, heard>>

Request == [xapp: XApps, own: OwnIds, op: {"sub", "control"}, node: Nodes]
News == [to: XApps, own: OwnIds, what: {"done", "report", "ended"}]
About(r, what) == [to |-> r.xapp, own |-> r.own, what |-> what]

Init ==
    /\ asked = {} /\ effect = {} /\ left = {} /\ closing = {}
    /\ ended = {} /\ heard = {}

\* An xApp numbers its requests: no two of them have the same own id.
Ask(r) ==
    /\ \A q \in asked : q.xapp = r.xapp => q.own # r.own
    /\ asked' = asked \cup {r}
    /\ UNCHANGED <<effect, left, closing, ended, heard>>

Carry(r) ==
    /\ r \in asked \ effect
    /\ effect' = effect \cup {r}
    /\ UNCHANGED <<asked, left, closing, ended, heard>>

\* The xApp gives up one of its subscriptions.
Close(r) ==
    /\ r \in effect /\ r.op = "sub" /\ r.xapp \notin left
    /\ closing' = closing \cup {r}
    /\ UNCHANGED <<asked, effect, left, ended, heard>>

\* An xApp that leaves gives up all of its subscriptions.
Leave(x) ==
    /\ left' = left \cup {x}
    /\ UNCHANGED <<asked, effect, closing, ended, heard>>

\* What another xApp gives up may be taken for r, if it has r's own id.
Mistaken(r) == \E q \in closing : q.own = r.own /\ q.xapp # r.xapp

End(r) ==
    /\ r \in effect \ ended
    /\ r \in closing \/ r.xapp \in left \/ Mistaken(r)
    /\ ended' = ended \cup {r}
    /\ UNCHANGED <<asked, effect, left, closing, heard>>

\* A node that goes away no longer serves its subscriptions.
Drop(n) ==
    /\ ended' = ended \cup {r \in effect : r.node = n /\ r.op = "sub"}
    /\ UNCHANGED <<asked, effect, left, closing, heard>>

Tell(r, what) ==
    /\ \/ what = "done"   /\ r \in effect
       \/ what = "report" /\ r \in effect /\ r.op = "sub"
       \/ what = "ended"  /\ (r \in ended \/ Mistaken(r))
    /\ r.xapp \notin left
    /\ heard' = heard \cup {About(r, what)}
    /\ UNCHANGED <<asked, effect, left, closing, ended>>

Next ==
    \/ \E r \in Request : Ask(r) \/ Carry(r) \/ Close(r) \/ End(r)
    \/ \E r \in Request, what \in {"done", "report", "ended"} : Tell(r, what)
    \/ \E x \in XApps : Leave(x)
    \/ \E n \in Nodes : Drop(n)

Spec == Init /\ [][Next]_vars
=============================================================================
