------------------------- MODULE SlicePrbScheduler -------------------------
(***************************************************************************)
(* The gNB side of slice-level PRB control.                                *)
(*                                                                         *)
(* RC control (Style 2 / Action 6) decodes an RRM Policy Ratio List and    *)
(* installs it as the MAC's slice policy table; every downlink slot the    *)
(* allocator nr_dl_slice_prb_policy runs, per beam, a pass for HARQ        *)
(* retransmissions and no-data UEs, one new-data pass per table entry,     *)
(* limited by that entry's PRB budget, and one pass for the UEs no entry   *)
(* matches.  A pass visits the candidates in proportional-fair order; one  *)
(* visit is one step here.                                                 *)
(*                                                                         *)
(* Abstracted: the PF weight (any order with retransmissions first), the   *)
(* CCE/PUCCH search (may fail), the transport block size (a new            *)
(* transmission takes any number of RBs between the minimum and the        *)
(* largest allowed block), and MCS, rank and TDA selection.                *)
(***************************************************************************)
EXTENDS Integers, Sequences, FiniteSets

CONSTANTS
    UEs,            \* connected UEs
    Nssai,          \* S-NSSAIs
    ZeroNssai,      \* the S-NSSAI of a zeroed table entry
    UeNssai,        \* S-NSSAI of each UE's first DRB
    BwpStart,       \* first RB of each UE's bandwidth part
    BwpSize,        \* number of RBs of each UE's bandwidth part
    NumBeams,       \* beams of the slot
    Bandwidth,      \* RBs of the carrier: n_rb_avail of every beam
    Symbols,        \* symbols of the slot that a vrb_map entry distinguishes
    MinRbSize,      \* min_rbSize of the new-data passes (5)
    MaxNumUes,      \* values of max_num_ue: bw / 24 capped by MAX_DCI_CORESET
    MaxNumSlices,   \* MAX_NUM_SLICES (1024)
    CtrlLists,      \* RRM Policy Ratio Lists an RC control may carry
    RetxSizes,      \* RBs a pending retransmission may need
    Placements,     \* beam dl_beam_select gives each UE
    SlBitmaps,      \* symbols each UE's PDSCH may occupy, per slot TDA
    Grids,          \* RB/symbol pairs taken before the UE scheduler runs
    MaxSlots        \* bound: slots per behaviour

Beams == 0 .. NumBeams - 1
TableIndex == 1 .. MaxNumSlices
Unscheduled == -1              \* grant[u].by of a UE without an allocation
ControlPass == 0               \* ... of a retransmission or a no-data UE
RestPass == MaxNumSlices + 1   \* ... of the pass with policy = NULL

RrmPolicyGroup ==
    [wellFormed: BOOLEAN, nssai: Nssai, min: Int, max: Int, dedicated: Int]

ASSUME SchedulerConstants ==
    /\ IsFiniteSet(UEs)
    /\ UeNssai \in [UEs -> Nssai]
    /\ BwpStart \in [UEs -> Nat] /\ BwpSize \in [UEs -> Nat]
    /\ NumBeams \in Nat \ {0}
    /\ Bandwidth \in Nat
    /\ MinRbSize \in Nat \ {0}
    /\ MaxNumUes \subseteq Nat \ {0}
    /\ MaxNumSlices \in Nat \ {0}
    /\ CtrlLists \subseteq Seq(RrmPolicyGroup)
    /\ RetxSizes \subseteq Nat \ {0}
    /\ Placements \subseteq [UEs -> Beams]
    /\ SlBitmaps \subseteq [UEs -> SUBSET Symbols]
    /\ Grids \subseteq SUBSET (Nat \X Symbols)
    /\ MaxSlots \in Nat

VARIABLES
    (* gNB_MAC_INST *)
    dl_slice_policy,           \* the table
    dl_slice_policy_count,
    dl_slice_policy_enabled,
    dl_slice_policy_prb_used,  \* PRBs per entry since its installation
    (* the slot being scheduled *)
    cand,                      \* candidates as collect_dl_candidates fills them
    vrb_map,                   \* RB/symbol pairs taken, per beam
    max_num_ue,
    phase,                     \* where nr_dl_schedule is
    todo,                      \* beam groups still to be allocated
    beam,                      \* the beam group being allocated
    order,                     \* its candidates in PF order
    i,                         \* table entry of the current pass
    j,                         \* position in order
    used_budget,
    n_scheduled,
    slots,
    (* history *)
    grant,      \* pass and RBs each UE got in this slot
    granted,    \* new-data RBs each entry's pass gave out in this beam group
    delivered   \* new-data RBs each entry's pass gave out since installation

table == <<dl_slice_policy, dl_slice_policy_count, dl_slice_policy_enabled>>
stats == <<dl_slice_policy_prb_used, granted, delivered>>
group == <<todo, beam, order>>
slot == <<cand, max_num_ue, slots>>
vars == <<table, stats, group, slot, vrb_map, phase, i, j, used_budget,
          n_scheduled, grant>>

Policy ==
    [active: BOOLEAN, nssai: Nssai \cup {ZeroNssai},
     min: 0..100, max: 0..100, dedicated: 0..100]
NoPolicy ==
    [active |-> FALSE, nssai |-> ZeroNssai, min |-> 0, max |-> 0, dedicated |-> 0]
Zeros == [k \in TableIndex |-> 0]

Kinds == {"none", "retx", "nodata", "data"}
Candidate ==
    [kind: Kinds, need: RetxSizes \cup {0}, beam: Beams, sl: SUBSET Symbols]
NoCandidate == [kind |-> "none", need |-> 0, beam |-> 0, sl |-> {}]
Grant == [by: {Unscheduled} \cup (0 .. RestPass), start: Nat, size: Nat]
NoGrant == [by |-> Unscheduled, start |-> 0, size |-> 0]

Phases == {"idle", "group", "retx", "nodata", "policy", "slice", "rest"}
-----------------------------------------------------------------------------
(* RC control: decoding and installation of the policy table.              *)

\* Mutant: the decoder forgets dedicated <= max.
ParseWithoutMaxCheck(g) ==
    /\ g.wellFormed
    /\ g.min \in 0..100 /\ g.max \in 0..100 /\ g.dedicated \in 0..100
    /\ g.min <= g.dedicated

\* parse_slice_policy_group accepts the group.
ParseSlicePolicyGroup(g) ==
    /\ g.wellFormed
    /\ g.min \in 0..100 /\ g.max \in 0..100 /\ g.dedicated \in 0..100
    /\ g.min <= g.dedicated /\ g.dedicated <= g.max

AgentAccepts(list) ==
    /\ Len(list) <= MaxNumSlices
    /\ \A k \in 1..Len(list) : ParseSlicePolicyGroup(list[k])

\* The entry as the MAC stores it: the ratios are uint8_t fields.
ToPolicy(g) ==
    [active |-> TRUE, nssai |-> g.nssai,
     min |-> g.min % 256, max |-> g.max % 256, dedicated |-> g.dedicated % 256]

\* The MAC's own test of an entry.
MacRejects(p) ==
    \/ p.min > 100 \/ p.max > 100 \/ p.dedicated > 100
    \/ p.min > p.dedicated \/ p.dedicated > p.max

\* nr_mac_set_dl_slice_policies: the table is zeroed first and filled up to
\* the first entry the MAC rejects; count and enabled change only on success.
SetDlSlicePolicies(list) ==
    LET ok(k) == \A m \in 1..k : ~MacRejects(ToPolicy(list[m]))
    IN  IF Len(list) > MaxNumSlices
        THEN UNCHANGED <<table, dl_slice_policy_prb_used, delivered>>
        ELSE /\ dl_slice_policy' =
                   [k \in TableIndex |->
                      IF k <= Len(list) /\ ok(k) THEN ToPolicy(list[k]) ELSE NoPolicy]
             /\ dl_slice_policy_prb_used' = Zeros
             /\ delivered' = Zeros
             /\ IF ok(Len(list))
                THEN /\ dl_slice_policy_count' = Len(list)
                     /\ dl_slice_policy_enabled' = (Len(list) > 0)
                ELSE UNCHANGED <<dl_slice_policy_count, dl_slice_policy_enabled>>

\* Mutant: the installation does not take sched_lock.
WriteCtrlWithoutLock(list) ==
    /\ IF AgentAccepts(list)
       THEN SetDlSlicePolicies(list) /\ UNCHANGED granted
       ELSE UNCHANGED <<table, stats>>
    /\ UNCHANGED <<group, slot, vrb_map, phase, i, j, used_budget,
                   n_scheduled, grant>>

\* write_ctrl_rc_sm.  The scheduler holds sched_lock for a whole slot, so the
\* installation falls between two slots.  A list that does not decode is
\* logged and acknowledged like any other.
WriteCtrlRcSm(list) ==
    /\ phase = "idle"
    /\ IF AgentAccepts(list)
       THEN SetDlSlicePolicies(list) /\ UNCHANGED granted
       ELSE UNCHANGED <<table, stats>>
    /\ UNCHANGED <<group, slot, vrb_map, phase, i, j, used_budget,
                   n_scheduled, grant>>
-----------------------------------------------------------------------------
(* The free blocks of a candidate's bandwidth part.                         *)

\* The vrb_map entries of size RBs from start on, in u's BWP and symbols.
Area(u, start, size) ==
    ((BwpStart[u] + start) .. (BwpStart[u] + start + size - 1)) \X cand[u].sl

FreeRuns(u) ==
    {r \in [start: 0 .. BwpSize[u], len: 1 .. BwpSize[u]] :
        /\ r.start + r.len <= BwpSize[u]
        /\ Area(u, r.start, r.len) \cap vrb_map[cand[u].beam] = {}}

\* get_rb_alloc(n, ...): the first n free RBs (none: the empty set).
FirstFit(u, n) ==
    LET runs == {r \in FreeRuns(u) : r.len = n}
    IN  {r \in runs : \A q \in runs : r.start <= q.start}

\* find_largest_free_block: the largest block, the first of equals.
LargestFreeBlock(u) ==
    LET runs == FreeRuns(u)
    IN  {r \in runs : \A q \in runs :
            q.len < r.len \/ (q.len = r.len /\ r.start <= q.start)}
-----------------------------------------------------------------------------
(* The slot: candidates, beam groups, passes.                               *)

\* A candidate is a retransmission, with the RBs of its HARQ process, or new.
CollectDlCandidates(kind, need) == \A u \in UEs : kind[u] = "retx" <=> need[u] # 0

\* The RI/PMI, beam, TDA and MCS stages: each candidate's beam and symbols.
SelectStages(kind, need, place, sl) ==
    [u \in UEs |-> [kind |-> kind[u], need |-> need[u], beam |-> place[u], sl |-> sl[u]]]

\* nr_dlsch_preprocessor up to the allocation.  A UE that is inactive, has
\* nothing to send or is skipped by a stage has kind "none".
StartSlot ==
    /\ phase = "idle" /\ slots < MaxSlots
    /\ \E kind \in [UEs -> Kinds], need \in [UEs -> RetxSizes \cup {0}],
          place \in Placements, sl \in SlBitmaps :
          /\ CollectDlCandidates(kind, need)
          /\ cand' = SelectStages(kind, need, place, sl)
    /\ vrb_map' \in [Beams -> Grids]
    /\ grant' = [u \in UEs |-> NoGrant]
    /\ todo' = Beams
    /\ phase' = "group"
    /\ slots' = slots + 1
    /\ max_num_ue' \in MaxNumUes
    /\ UNCHANGED <<table, stats, beam, order, i, j, used_budget, n_scheduled>>

\* The candidates of a beam that no stage skipped.
Active(b) == {u \in UEs : cand[u].beam = b /\ cand[u].kind # "none"}

\* The orders the comparison of PF weights may give: a retransmission has
\* infinite weight.
PfOrders(active) ==
    {s \in [1 .. Cardinality(active) -> active] :
        /\ \A u \in active : \E p \in DOMAIN s : s[p] = u
        /\ \A p, q \in DOMAIN s :
              p < q /\ cand[s[q]].kind = "retx" => cand[s[p]].kind = "retx"}

\* One call of nr_dl_slice_prb_policy per beam, in ascending beam order.
StartGroup ==
    /\ phase = "group" /\ todo # {}
    /\ \E b \in todo :
          /\ \A c \in todo : b <= c
          /\ beam' = b
          /\ todo' = todo \ {b}
          /\ order' \in PfOrders(Active(b))
    /\ n_scheduled' = 0
    /\ granted' = Zeros
    /\ phase' = "retx" /\ j' = 1
    /\ UNCHANGED <<table, dl_slice_policy_prb_used, delivered, slot, vrb_map, i,
                   used_budget, grant>>

\* The slot's locals: the candidates with their allocations, the maps and the
\* progress of the allocator.
NoSlot ==
    /\ cand' = [u \in UEs |-> NoCandidate]
    /\ grant' = [u \in UEs |-> NoGrant]
    /\ vrb_map' = [b \in Beams |-> {}]
    /\ beam' = 0 /\ order' = <<>>
    /\ i' = 1 /\ j' = 1 /\ used_budget' = 0 /\ n_scheduled' = 0
    /\ granted' = Zeros

EndSlot ==
    /\ phase = "group" /\ todo = {}
    /\ phase' = "idle"
    /\ NoSlot
    /\ UNCHANGED <<table, dl_slice_policy_prb_used, delivered, todo, max_num_ue, slots>>

Current == order[j]
Visiting(p) == phase = p /\ j <= Len(order)

\* Mutant: the last RB of the block is not marked.
CommitAllButLastRb(u, pass, start, size) ==
    /\ grant' = [grant EXCEPT ![u] = [by |-> pass, start |-> start, size |-> size]]
    /\ vrb_map' = [vrb_map EXCEPT ![cand[u].beam] = @ \cup Area(u, start, size - 1)]
    /\ n_scheduled' = n_scheduled + 1

\* commit_alloc succeeded: the RBs are marked and the UE counts as scheduled.
CommitAlloc(u, pass, start, size) ==
    /\ grant' = [grant EXCEPT ![u] = [by |-> pass, start |-> start, size |-> size]]
    /\ vrb_map' = [vrb_map EXCEPT ![cand[u].beam] = @ \cup Area(u, start, size)]
    /\ n_scheduled' = n_scheduled + 1

\* Mutant: the test uses the count before this UE.
ReachesMaxNumUeLate == n_scheduled >= max_num_ue

\* COMMIT_ALLOC returns from the pass that reaches max_num_ue, not from the
\* allocator.
ReachesMaxNumUe == n_scheduled + 1 >= max_num_ue

\* Mutant: the loop does not advance.
ContinueInPlace == phase' = phase /\ j' = j

Continue == phase' = phase /\ j' = j + 1

\* Mutant: the table is walked from index 0.
LeaveControlPassesAtZero == phase' = "policy" /\ i' = 0 /\ UNCHANGED j

LeaveControlPasses == phase' = "policy" /\ i' = 1 /\ UNCHANGED j

ServedByControlPass(u, p) == grant[u].by = Unscheduled /\ cand[u].kind = p

\* alloc_retx_and_no_data_pf, one visit: phase 1 for retransmissions, which
\* need exactly retx_rbSize RBs, phase 2 for UEs without RLC data.
VisitControl(p, size) ==
    LET u == Current IN
    /\ Visiting(p)
    /\ \/ /\ ~ServedByControlPass(u, p)
          /\ Continue
          /\ UNCHANGED <<grant, vrb_map, n_scheduled, i>>
       \/ /\ ServedByControlPass(u, p)      \* no block, or no CCE or PUCCH
          /\ Continue
          /\ UNCHANGED <<grant, vrb_map, n_scheduled, i>>
       \/ /\ ServedByControlPass(u, p)
          /\ \E r \in FirstFit(u, size) : CommitAlloc(u, ControlPass, r.start, size)
          /\ IF ReachesMaxNumUe THEN LeaveControlPasses ELSE Continue /\ UNCHANGED i
    /\ UNCHANGED <<table, stats, group, slot, used_budget>>

VisitRetx == VisitControl("retx", cand[Current].need)
VisitNoData == VisitControl("nodata", MinRbSize)

EndRetx ==
    /\ phase = "retx" /\ j > Len(order)
    /\ phase' = "nodata" /\ j' = 1
    /\ UNCHANGED <<table, stats, group, slot, vrb_map, i, used_budget,
                   n_scheduled, grant>>

EndNoData ==
    /\ phase = "nodata" /\ j > Len(order)
    /\ LeaveControlPasses
    /\ UNCHANGED <<table, stats, group, slot, vrb_map, used_budget,
                   n_scheduled, grant>>

\* The PRB budget of table entry k, summed over the beams.
TotalBudget(k) == NumBeams * ((Bandwidth * dl_slice_policy[k].dedicated) \div 100)

Policies == IF dl_slice_policy_enabled THEN dl_slice_policy_count ELSE 0

SkipsEntry(k) == ~dl_slice_policy[k].active \/ TotalBudget(k) <= 0

\* The loop over the table: skip an entry, or start its new-data pass.
NextPolicy ==
    /\ phase = "policy"
    /\ \/ /\ i <= Policies /\ SkipsEntry(i)
          /\ i' = i + 1 /\ UNCHANGED <<phase, j>>
       \/ /\ i <= Policies /\ ~SkipsEntry(i)
          /\ phase' = "slice" /\ j' = 1 /\ UNCHANGED i
       \/ /\ i > Policies
          /\ phase' = "rest" /\ j' = 1 /\ UNCHANGED i
    /\ used_budget' = 0
    /\ UNCHANGED <<table, stats, group, slot, vrb_map, n_scheduled, grant>>

\* find_slice_policy finds an entry for the UE.
HasPolicy(u) ==
    \E k \in 1 .. Policies :
        dl_slice_policy[k].active /\ dl_slice_policy[k].nssai = UeNssai[u]

\* Mutant: the scheduled flag is not tested.
WaitingOrScheduled(u) == cand[u].kind = "data"

Waiting(u) == grant[u].by = Unscheduled /\ cand[u].kind = "data"

\* Mutant: the last pass takes every waiting UE.
ServedByRestPassAny(u) == Waiting(u)

ServedBySlicePass(u) == Waiting(u) /\ UeNssai[u] = dl_slice_policy[i].nssai
ServedByRestPass(u) == Waiting(u) /\ ~HasPolicy(u)

LeaveSlicePass == phase' = "policy" /\ i' = i + 1 /\ UNCHANGED j

\* Mutant: every UE of the slice gets the whole budget.
RemainingBudgetPerUe == TotalBudget(i)

RemainingBudget == TotalBudget(i) - used_budget

\* get_limited_free_block with a positive budget.
SliceBlockLimit(r) == IF r.len <= RemainingBudget THEN r.len ELSE RemainingBudget

\* add_slice_policy_prb_stats and the addition to used_budget.
ChargeBudget(size) ==
    /\ used_budget' = used_budget + size
    /\ dl_slice_policy_prb_used' = [dl_slice_policy_prb_used EXCEPT ![i] = @ + size]

\* The UE got the RBs.  The return inside COMMIT_ALLOC comes before the charge.
GrantBySlicePass(u, start, size) ==
    /\ CommitAlloc(u, i, start, size)
    /\ granted' = [granted EXCEPT ![i] = @ + size]
    /\ delivered' = [delivered EXCEPT ![i] = @ + size]
    /\ IF ReachesMaxNumUe
       THEN LeaveSlicePass /\ UNCHANGED <<used_budget, dl_slice_policy_prb_used>>
       ELSE Continue /\ UNCHANGED i /\ ChargeBudget(size)

\* commit_alloc found no CCE or PUCCH.  The `continue' of COMMIT_ALLOC leaves
\* the macro's own do-while (0), not the loop over the UEs, so the charge below
\* it is still made.
RefuseBySlicePass(size) ==
    /\ Continue
    /\ ChargeBudget(size)
    /\ UNCHANGED <<grant, vrb_map, n_scheduled, i, granted, delivered>>

\* alloc_newtx_pf(policy = &dl_slice_policy[i], rb_budget > 0), one visit.
\* nr_find_nb_rb picks a size between the minimum and the limit.
VisitSlice ==
    LET u == Current IN
    /\ Visiting("slice")
    /\ \/ /\ ~ServedBySlicePass(u)
          /\ Continue
          /\ UNCHANGED <<grant, vrb_map, n_scheduled, i, used_budget, stats>>
       \/ /\ ServedBySlicePass(u) /\ RemainingBudget < MinRbSize      \* break
          /\ LeaveSlicePass
          /\ UNCHANGED <<grant, vrb_map, n_scheduled, used_budget, stats>>
       \/ /\ ServedBySlicePass(u) /\ RemainingBudget >= MinRbSize
          /\ \A r \in LargestFreeBlock(u) : SliceBlockLimit(r) < MinRbSize
          /\ Continue
          /\ UNCHANGED <<grant, vrb_map, n_scheduled, i, used_budget, stats>>
       \/ /\ ServedBySlicePass(u) /\ RemainingBudget >= MinRbSize
          /\ \E r \in LargestFreeBlock(u) : \E size \in MinRbSize .. SliceBlockLimit(r) :
                GrantBySlicePass(u, r.start, size) \/ RefuseBySlicePass(size)
    /\ UNCHANGED <<table, group, slot>>

EndSlice ==
    /\ phase = "slice" /\ j > Len(order)
    /\ LeaveSlicePass
    /\ UNCHANGED <<table, stats, group, slot, vrb_map, used_budget,
                   n_scheduled, grant>>

LeaveRestPass == phase' = "group" /\ UNCHANGED j

\* alloc_newtx_pf(policy = NULL, rb_budget = 0), one visit.
VisitRest ==
    LET u == Current IN
    /\ Visiting("rest")
    /\ \/ /\ ~ServedByRestPass(u)
          /\ Continue
          /\ UNCHANGED <<grant, vrb_map, n_scheduled>>
       \/ /\ ServedByRestPass(u)        \* no block, or no CCE or PUCCH
          /\ Continue
          /\ UNCHANGED <<grant, vrb_map, n_scheduled>>
       \/ /\ ServedByRestPass(u)
          /\ \E r \in LargestFreeBlock(u) : \E size \in MinRbSize .. r.len :
                CommitAlloc(u, RestPass, r.start, size)
          /\ IF ReachesMaxNumUe THEN LeaveRestPass ELSE Continue
    /\ UNCHANGED <<table, stats, group, slot, i, used_budget>>

EndRest ==
    /\ phase = "rest" /\ j > Len(order)
    /\ LeaveRestPass
    /\ UNCHANGED <<table, stats, group, slot, vrb_map, i, used_budget,
                   n_scheduled, grant>>
-----------------------------------------------------------------------------
Init ==
    /\ dl_slice_policy = [k \in TableIndex |-> NoPolicy]
    /\ dl_slice_policy_count = 0
    /\ dl_slice_policy_enabled = FALSE
    /\ dl_slice_policy_prb_used = Zeros
    /\ cand = [u \in UEs |-> NoCandidate]
    /\ vrb_map = [b \in Beams |-> {}]
    /\ max_num_ue = 1
    /\ phase = "idle"
    /\ todo = {} /\ beam = 0 /\ order = <<>>
    /\ i = 1 /\ j = 1
    /\ used_budget = 0 /\ n_scheduled = 0 /\ slots = 0
    /\ grant = [u \in UEs |-> NoGrant]
    /\ granted = Zeros /\ delivered = Zeros

Schedule ==
    \/ StartGroup \/ EndSlot
    \/ VisitRetx \/ EndRetx \/ VisitNoData \/ EndNoData
    \/ NextPolicy \/ VisitSlice \/ EndSlice
    \/ VisitRest \/ EndRest

Next ==
    \/ \E list \in CtrlLists : WriteCtrlRcSm(list)
    \/ StartSlot
    \/ Schedule

Spec == Init /\ [][Next]_vars

\* The MAC thread finishes a slot it has begun; slots and controls are inputs.
FairSpec == Spec /\ WF_vars(Schedule)
-----------------------------------------------------------------------------
(* Properties.                                                              *)

Scheduled(u) == grant[u].by # Unscheduled
AllocatedArea(u) == Area(u, grant[u].start, grant[u].size)

\* Every variable stays in its domain; in particular the table holds ratios
\* that fit the uint8_t fields and the pass index stays inside the table.
TypeOK ==
    /\ dl_slice_policy \in [TableIndex -> Policy]
    /\ dl_slice_policy_count \in 0 .. MaxNumSlices
    /\ dl_slice_policy_enabled \in BOOLEAN
    /\ dl_slice_policy_prb_used \in [TableIndex -> Nat]
    /\ cand \in [UEs -> Candidate]
    /\ vrb_map \in [Beams -> SUBSET (Nat \X Symbols)]
    /\ phase \in Phases
    /\ todo \in SUBSET Beams /\ beam \in Beams /\ order \in Seq(UEs)
    /\ i \in 1 .. MaxNumSlices + 1 /\ j \in Nat \ {0}
    /\ used_budget \in Nat /\ n_scheduled \in Nat
    /\ slots \in Nat /\ max_num_ue \in Nat \ {0}
    /\ grant \in [UEs -> Grant]
    /\ granted \in [TableIndex -> Nat] /\ delivered \in [TableIndex -> Nat]

\* The table the allocator reads is always one whole accepted list: exactly
\* the first dl_slice_policy_count entries are active, with min <= dedicated
\* <= max, and it is enabled iff it is not empty.  nr_mac_set_dl_slice_policies
\* zeroes the table before it validates; only the decoder's bounds keep a bad
\* list from leaving a wiped table behind an old count.
TableWhole ==
    /\ \A k \in TableIndex :
          /\ dl_slice_policy[k].active <=> k <= dl_slice_policy_count
          /\ dl_slice_policy[k].min <= dl_slice_policy[k].dedicated
          /\ dl_slice_policy[k].dedicated <= dl_slice_policy[k].max
    /\ dl_slice_policy_enabled <=> dl_slice_policy_count > 0

\* Whatever passes the UEs were scheduled in, two UEs on one beam never share
\* a resource block in a symbol, and a UE's RBs lie in its bandwidth part.
ExclusiveAllocation ==
    \A u \in UEs : Scheduled(u) =>
        /\ grant[u].start + grant[u].size <= BwpSize[u]
        /\ \A v \in UEs :
              Scheduled(v) /\ u # v /\ cand[u].beam = cand[v].beam
                 => AllocatedArea(u) \cap AllocatedArea(v) = {}

\* No entry's pass gives out more new-data RBs on a beam than the budget of
\* its dedicated ratio, however its UEs and their blocks follow each other.
SliceBudget == \A k \in TableIndex : granted[k] <= TotalBudget(k)

\* What UEs hold together, RB by RB, and what entries allow together.
GrantedRbs(u) ==
    (BwpStart[u] + grant[u].start) .. (BwpStart[u] + grant[u].start + grant[u].size - 1)
HeldRbs(holders) == UNION {{u} \X GrantedRbs(u) : u \in holders}
BudgetRbs(entries) == UNION {{k} \X (1 .. TotalBudget(k)) : k \in entries}

HasData(u) == grant[u].by > ControlPass
EntriesOf(n) == {k \in 1 .. Policies : dl_slice_policy[k].nssai = n}
DataHolders(n) == {u \in UEs : UeNssai[u] = n /\ cand[u].beam = beam /\ HasData(u)}

\* On every beam, the new-data RBs that the UEs of a policed S-NSSAI hold
\* together never exceed the budgets of the entries for that S-NSSAI: nothing
\* leaks through the pass for unmatched UEs, and a slice with ratio 0 gets none.
NssaiQuota ==
    \A n \in Nssai :
        EntriesOf(n) # {} =>
            Cardinality(HeldRbs(DataHolders(n))) <= Cardinality(BudgetRbs(EntriesOf(n)))

\* The state of the slot as SliceGrants sees it.
Bwp == [u \in UEs |-> BwpStart[u] .. BwpStart[u] + BwpSize[u] - 1]
Quotas ==
    [n \in Nssai |-> IF EntriesOf(n) = {} THEN -1 ELSE Cardinality(BudgetRbs(EntriesOf(n)))]
GrantOf(u) ==
    [ue |-> u, beam |-> cand[u].beam, rbs |-> GrantedRbs(u), symbols |-> cand[u].sl,
     data |-> HasData(u)]
GrantsHeld == {GrantOf(u) : u \in {u \in UEs : Scheduled(u)}}

\* The policy table, the passes and the maps implement the abstract promise:
\* every grant is exclusive, final and within the quota of its S-NSSAI, and a
\* quota never changes while a slot is being scheduled.
Grants == INSTANCE SliceGrants WITH
              open <- phase # "idle", quota <- Quotas, held <- GrantsHeld
GrantsSpec == Grants!Spec

\* max_num_ue ends one pass, not the allocation: each later pass may add one
\* UE before it stops, so a beam gets at most that many more.
MaxUeOvershoot == n_scheduled <= max_num_ue + dl_slice_policy_count + 1

\* A UE keeps the RBs it got until the slot is over: no later pass schedules
\* it again (the scheduled flag), even when two entries match its S-NSSAI.
GrantIsFinal ==
    [][\A u \in UEs : Scheduled(u) /\ phase' # "idle" => grant'[u] = grant[u]]_vars

\* A slot that began is finished: every pass ends.
SlotCompletes == phase # "idle" ~> phase = "idle"

\* max_num_ue is "max UEs to schedule" (nr_mac_gNB.h), the DCI limit that lets
\* "at most 4 of the 5 UEs per downlink slot" in at 106 PRB.
MaxNumUeRespected == n_scheduled <= max_num_ue

\* COMMIT_ALLOC "continues on failure" (mac_proto.h): a UE that gets no RBs
\* costs its slice nothing.
BudgetSpentIsGranted == phase = "slice" => used_budget = granted[i]

\* The slice_prb log shows the cumulative PRBs of a slice: no PRB that an
\* entry's pass gave out is missing from its counter.
DeliveredIsCounted ==
    \A k \in TableIndex : delivered[k] <= dl_slice_policy_prb_used[k]
=============================================================================
