----------------------------- MODULE SliceGrants -----------------------------
(***************************************************************************)
(* What slice-level PRB control promises, whatever passes the allocator    *)
(* makes: during a slot resource blocks are granted to UEs one after the   *)
(* other.  A UE gets at most one grant, of RBs of its bandwidth part that  *)
(* nobody else has on its beam, and keeps it until the slot ends; the      *)
(* new-data grants of an S-NSSAI with a quota stay within it, beam by      *)
(* beam; the quotas change between two slots only.  SlicePrbScheduler      *)
(* shows that the policy table, the passes and the budgets of the MAC keep *)
(* this promise.                                                           *)
(***************************************************************************)
EXTENDS Integers, FiniteSets

CONSTANTS
    UEs,        \* connected UEs
    Nssai,      \* S-NSSAIs
    UeNssai,    \* S-NSSAI of each UE
    Bwp         \* RBs of each UE's bandwidth part

VARIABLES
    open,       \* a slot is being scheduled
    quota,      \* RBs of new data that an S-NSSAI may have on a beam, or NoQuota
    held        \* the grants of the slot: UE, beam, RBs, symbols, and whether new data

vars == <<open, quota, held>>

NoQuota == -1

Init == ~open /\ quota = [n \in Nssai |-> NoQuota] /\ held = {}

\* The RBs of new data that the UEs of an S-NSSAI have on a beam.
DataRbs(n, b, grants) ==
    UNION {{g.ue} \X g.rbs : g \in {g \in grants : g.data /\ g.beam = b /\ UeNssai[g.ue] = n}}

WithinQuota(n, b, grants) ==
    quota[n] # NoQuota => Cardinality(DataRbs(n, b, grants)) <= quota[n]

Install ==
    /\ ~open
    /\ quota' \in [Nssai -> Nat \cup {NoQuota}]
    /\ UNCHANGED <<open, held>>

Open == ~open /\ open' /\ UNCHANGED <<quota, held>>

Overlap(g, h) ==
    g.beam = h.beam /\ (g.rbs \X g.symbols) \cap (h.rbs \X h.symbols) # {}

Grant(g) ==
    /\ open
    /\ g.ue \in UEs /\ g.rbs \subseteq Bwp[g.ue]
    /\ \A h \in held : h.ue # g.ue /\ ~Overlap(g, h)
    /\ held' = held \cup {g}
    /\ g.data => WithinQuota(UeNssai[g.ue], g.beam, held \cup {g})
    /\ UNCHANGED <<open, quota>>

Close == open /\ ~open' /\ held' = {} /\ UNCHANGED quota

Next == Install \/ Open \/ (\E g \in held' \ held : Grant(g)) \/ Close

Spec == Init /\ [][Next]_vars
=============================================================================
