---------------------- MODULE SlicePrbSchedulerProofs ----------------------
(***************************************************************************)
(* Proofs about SlicePrbScheduler, for every set of UEs, every table size, *)
(* carrier width, beam count, UE limit and set of control lists.           *)
(***************************************************************************)
EXTENDS SlicePrbScheduler, FiniteSetTheorems, TLAPS

(* The inductive invariant, part by part. *)

\* The pass index: inside the installed part of the table during a slice
\* pass, at most one past it in the loop over the table.
PassIndex ==
    /\ phase = "policy" => i <= Policies + 1
    /\ phase = "slice" => i <= Policies

\* A scheduled UE's RBs lie in its BWP and are marked in its beam's map.
Marked ==
    \A u \in UEs : Scheduled(u) =>
        /\ grant[u].start + grant[u].size <= BwpSize[u]
        /\ AllocatedArea(u) \subseteq vrb_map[cand[u].beam]

\* What a pass has given out is covered by what it charged, and the passes to
\* come have given out nothing; outside a slot nothing is given out.
Charged ==
    /\ phase \in {"idle", "retx", "nodata"} => \A k \in TableIndex : granted[k] = 0
    /\ phase = "policy" => \A k \in TableIndex : k >= i => granted[k] = 0
    /\ phase = "slice" =>
          /\ \A k \in TableIndex : k > i => granted[k] = 0
          /\ granted[i] <= used_budget
          /\ used_budget <= TotalBudget(i)

\* How many UEs each pass may have added beyond max_num_ue.
UeCount ==
    /\ phase = "idle" => n_scheduled = 0
    /\ phase \in {"retx", "nodata"} => n_scheduled < max_num_ue
    /\ phase \in {"policy", "slice"} => n_scheduled <= max_num_ue + i - 1
    /\ phase = "rest" => n_scheduled <= max_num_ue + Policies
    /\ phase = "group" => n_scheduled <= max_num_ue + Policies + 1

-----------------------------------------------------------------------------
(* Operators. *)

\* A group that parse_slice_policy_group accepts survives the conversion to
\* the MAC's uint8_t fields, and the MAC accepts it too.
LEMMA ToPolicyAccepted ==
    ASSUME NEW g \in RrmPolicyGroup, ParseSlicePolicyGroup(g)
    PROVE  /\ ToPolicy(g) \in Policy
           /\ ToPolicy(g).active
           /\ ToPolicy(g).min <= ToPolicy(g).dedicated
           /\ ToPolicy(g).dedicated <= ToPolicy(g).max
           /\ ~MacRejects(ToPolicy(g))
<1>1. \A n \in 0..100 : n % 256 = n
  OBVIOUS
<1>2. /\ g.min % 256 = g.min /\ g.max % 256 = g.max
      /\ g.dedicated % 256 = g.dedicated
  BY <1>1 DEF ParseSlicePolicyGroup
<1>3. g.nssai \in Nssai
  BY DEF RrmPolicyGroup
<1>4. ToPolicy(g) = [active |-> TRUE, nssai |-> g.nssai, min |-> g.min,
                     max |-> g.max, dedicated |-> g.dedicated]
  BY <1>2 DEF ToPolicy
<1>5. g.min \in 0..100 /\ g.max \in 0..100 /\ g.dedicated \in 0..100
      /\ g.min <= g.dedicated /\ g.dedicated <= g.max
  BY DEF ParseSlicePolicyGroup
<1>6. ToPolicy(g) \in Policy
  BY <1>3, <1>4, <1>5 DEF Policy
<1>7. /\ ToPolicy(g).min = g.min /\ ToPolicy(g).max = g.max
      /\ ToPolicy(g).dedicated = g.dedicated
  BY <1>4
<1>8. ToPolicy(g).active
  BY Zenon DEF ToPolicy
<1>9. /\ ToPolicy(g).min <= ToPolicy(g).dedicated
      /\ ToPolicy(g).dedicated <= ToPolicy(g).max
  BY <1>5, <1>7
<1>10. ~MacRejects(ToPolicy(g))
  <2>1. \A a, b, c \in 0..100 : a <= c /\ c <= b =>
           ~(a > 100 \/ b > 100 \/ c > 100 \/ a > c \/ c > b)
    OBVIOUS
  <2>2. ~(\/ ToPolicy(g).min > 100 \/ ToPolicy(g).max > 100
          \/ ToPolicy(g).dedicated > 100
          \/ ToPolicy(g).min > ToPolicy(g).dedicated
          \/ ToPolicy(g).dedicated > ToPolicy(g).max)
    BY <1>5, <1>7, <2>1, ZenonT(60)
  <2> QED
    BY <2>2, Zenon DEF MacRejects
<1> QED
  BY <1>6, <1>8, <1>9, <1>10, Zenon

\* A list the agent accepts is installed whole.
LEMMA InstalledWhole ==
    ASSUME NEW list \in CtrlLists, AgentAccepts(list), SetDlSlicePolicies(list)
    PROVE  /\ Len(list) \in 0 .. MaxNumSlices
           /\ \A k \in 1 .. Len(list) :
                 list[k] \in RrmPolicyGroup /\ ParseSlicePolicyGroup(list[k])
           /\ dl_slice_policy' = [k \in TableIndex |->
                 IF k <= Len(list) THEN ToPolicy(list[k]) ELSE NoPolicy]
           /\ dl_slice_policy_count' = Len(list)
           /\ dl_slice_policy_enabled' = (Len(list) > 0)
           /\ dl_slice_policy_prb_used' = Zeros
           /\ delivered' = Zeros
<1>1. list \in Seq(RrmPolicyGroup) /\ MaxNumSlices \in Nat
  BY SchedulerConstants
<1>2. Len(list) \in Nat /\ Len(list) <= MaxNumSlices
  BY <1>1 DEF AgentAccepts
<1>3. \A k \in 1 .. Len(list) :
         list[k] \in RrmPolicyGroup /\ ParseSlicePolicyGroup(list[k])
  BY <1>1, <1>2 DEF AgentAccepts
<1>4. \A k \in 1 .. Len(list) : ~MacRejects(ToPolicy(list[k]))
  BY <1>3, ToPolicyAccepted
<1> DEFINE ok(k) == \A m \in 1..k : ~MacRejects(ToPolicy(list[m]))
<1>5. \A k \in Nat : k <= Len(list) => ok(k)
  BY <1>2, <1>4
<1>6. ~(Len(list) > MaxNumSlices)
  BY <1>1, <1>2
<1>7. /\ dl_slice_policy' = [k \in TableIndex |->
            IF k <= Len(list) /\ ok(k) THEN ToPolicy(list[k]) ELSE NoPolicy]
      /\ dl_slice_policy_prb_used' = Zeros
      /\ delivered' = Zeros
      /\ ok(Len(list)) => /\ dl_slice_policy_count' = Len(list)
                          /\ dl_slice_policy_enabled' = (Len(list) > 0)
  BY <1>6 DEF SetDlSlicePolicies
<1>8. \A k \in TableIndex : k <= Len(list) => ok(k)
  BY <1>5, <1>1 DEF TableIndex
<1> HIDE DEF ok
<1>9. dl_slice_policy' = [k \in TableIndex |->
         IF k <= Len(list) THEN ToPolicy(list[k]) ELSE NoPolicy]
  BY <1>7, <1>8
<1>10. ok(Len(list))
  BY <1>2, <1>5
<1>11. Len(list) \in 0 .. MaxNumSlices
  BY <1>1, <1>2
<1>12. /\ dl_slice_policy_count' = Len(list)
       /\ dl_slice_policy_enabled' = (Len(list) > 0)
       /\ dl_slice_policy_prb_used' = Zeros
       /\ delivered' = Zeros
  BY <1>7, <1>10, Zenon
<1> QED
  BY <1>3, <1>9, <1>11, <1>12, Zenon

LEMMA BudgetArithmetic ==
    \A d \in 0..100 : NumBeams * ((Bandwidth * d) \div 100) \in Nat
<1> SUFFICES ASSUME NEW d \in 0..100
             PROVE  NumBeams * ((Bandwidth * d) \div 100) \in Nat
  OBVIOUS
<1>1. Bandwidth \in Nat /\ NumBeams \in Nat
  BY SchedulerConstants
<1>2. Bandwidth * d \in Nat
  BY <1>1
<1>3. (Bandwidth * d) \div 100 \in Nat
  BY <1>2
<1> QED
  BY <1>1, <1>3

LEMMA TotalBudgetType ==
    ASSUME TypeOK, NEW k \in TableIndex
    PROVE  TotalBudget(k) \in Nat
<1>1. dl_slice_policy[k] \in Policy
  BY DEF TypeOK
<1>2. dl_slice_policy[k].dedicated \in 0..100
  BY <1>1 DEF Policy
<1> QED
  BY <1>2, BudgetArithmetic, Zenon DEF TotalBudget

LEMMA PoliciesType ==
    ASSUME TypeOK
    PROVE  /\ Policies \in 0 .. MaxNumSlices
           /\ Policies <= dl_slice_policy_count
  BY SchedulerConstants DEF TypeOK, Policies

\* Part of a free run is free, too.
LEMMA FreeBlock ==
    ASSUME TypeOK, NEW u \in UEs, NEW r \in FreeRuns(u),
           NEW size \in Nat, size <= r.len
    PROVE  /\ r.start \in Nat /\ r.len \in Nat
           /\ r.start + size <= BwpSize[u]
           /\ Area(u, r.start, size) \cap vrb_map[cand[u].beam] = {}
<1>1. BwpStart[u] \in Nat /\ BwpSize[u] \in Nat
  BY SchedulerConstants
<1>2. /\ r.start \in Nat /\ r.len \in Nat
      /\ r.start + r.len <= BwpSize[u]
      /\ Area(u, r.start, r.len) \cap vrb_map[cand[u].beam] = {}
  BY <1>1 DEF FreeRuns
<1>3. (BwpStart[u] + r.start) .. (BwpStart[u] + r.start + size - 1)
         \subseteq (BwpStart[u] + r.start) .. (BwpStart[u] + r.start + r.len - 1)
  BY <1>1, <1>2
<1>4. Area(u, r.start, size) \subseteq Area(u, r.start, r.len)
  BY <1>3 DEF Area
<1> QED
  BY <1>1, <1>2, <1>4

\* Both searches return free runs, the first one of the size asked for.
LEMMA SearchResults ==
    ASSUME NEW u \in UEs
    PROVE  /\ LargestFreeBlock(u) \subseteq FreeRuns(u)
           /\ \A n : FirstFit(u, n) \subseteq {r \in FreeRuns(u) : r.len = n}
  BY DEF LargestFreeBlock, FirstFit

LEMMA CurrentType ==
    ASSUME TypeOK, NEW p, Visiting(p)
    PROVE  Current \in UEs
  BY DEF TypeOK, Visiting, Current

\* A visit whose search succeeded commits a free block of the UE's BWP.
FreeCommit(u, pass, start, size) ==
    /\ CommitAlloc(u, pass, start, size)
    /\ start + size <= BwpSize[u]
    /\ Area(u, start, size) \cap vrb_map[cand[u].beam] = {}

LEMMA ControlCommit ==
    ASSUME TypeOK, NEW u \in UEs, NEW size \in Nat, NEW r \in FirstFit(u, size),
           CommitAlloc(u, ControlPass, r.start, size)
    PROVE  r.start \in Nat /\ FreeCommit(u, ControlPass, r.start, size)
<1>1. r \in FreeRuns(u) /\ r.len = size
  BY SearchResults
<1>2. size <= r.len
  BY <1>1
<1> QED
  BY <1>1, <1>2, FreeBlock DEF FreeCommit

LEMMA LargestCommit ==
    ASSUME TypeOK, NEW u \in UEs, NEW pass, NEW r \in LargestFreeBlock(u),
           NEW size \in Nat, size <= r.len, CommitAlloc(u, pass, r.start, size)
    PROVE  r.start \in Nat /\ FreeCommit(u, pass, r.start, size)
  BY SearchResults, FreeBlock DEF FreeCommit

LEMMA CommitTypes ==
    ASSUME TypeOK, NEW u \in UEs, NEW pass \in 0 .. RestPass,
           NEW start \in Nat, NEW size \in Nat, CommitAlloc(u, pass, start, size)
    PROVE  /\ grant' \in [UEs -> Grant]
           /\ vrb_map' \in [Beams -> SUBSET (Nat \X Symbols)]
           /\ n_scheduled' \in Nat
<1>1. [by |-> pass, start |-> start, size |-> size] \in Grant
  BY DEF Grant
<1>2. cand[u].beam \in Beams /\ cand[u].sl \subseteq Symbols
  BY DEF TypeOK, Candidate
<1>3. (BwpStart[u] + start) .. (BwpStart[u] + start + size - 1) \subseteq Nat
  BY SchedulerConstants
<1>4. Area(u, start, size) \subseteq Nat \X Symbols
  BY <1>2, <1>3 DEF Area
<1> QED
  BY <1>1, <1>2, <1>4 DEF TypeOK, CommitAlloc
-----------------------------------------------------------------------------
(* Types and the pass index. *)

LEMMA InitType == Init => TypeOK /\ PassIndex
<1> SUFFICES ASSUME Init PROVE TypeOK /\ PassIndex
  OBVIOUS
<1>1. NoPolicy \in Policy
  BY DEF NoPolicy, Policy
<1>2. NoCandidate \in Candidate /\ NoGrant \in Grant
  <2>1. 0 \in Beams
    BY SchedulerConstants DEF Beams
  <2> QED
    BY <2>1 DEF NoCandidate, Candidate, Kinds, NoGrant, Grant, Unscheduled
<1>3. 0 \in Beams /\ 0 \in 0 .. MaxNumSlices /\ 1 \in 1 .. MaxNumSlices + 1
  BY SchedulerConstants DEF Beams
<1>4. Zeros \in [TableIndex -> Nat]
  BY DEF Zeros
<1>5. <<>> \in Seq(UEs)
  OBVIOUS
<1>6. /\ dl_slice_policy \in [TableIndex -> Policy]
      /\ cand \in [UEs -> Candidate] /\ grant \in [UEs -> Grant]
      /\ vrb_map \in [Beams -> SUBSET (Nat \X Symbols)]
  BY <1>1, <1>2 DEF Init
<1>7. PassIndex
  BY DEF Init, PassIndex
<1> QED
  BY <1>3, <1>4, <1>5, <1>6, <1>7 DEF Init, TypeOK, Phases

LEMMA WriteType ==
    ASSUME TypeOK, PassIndex, NEW list \in CtrlLists, WriteCtrlRcSm(list)
    PROVE  TypeOK' /\ PassIndex'
<1>1. CASE AgentAccepts(list)
  <2>1. SetDlSlicePolicies(list) /\ UNCHANGED granted
    BY <1>1 DEF WriteCtrlRcSm
  <2>2. /\ Len(list) \in 0 .. MaxNumSlices
        /\ \A k \in 1 .. Len(list) :
              list[k] \in RrmPolicyGroup /\ ParseSlicePolicyGroup(list[k])
        /\ dl_slice_policy' = [k \in TableIndex |->
              IF k <= Len(list) THEN ToPolicy(list[k]) ELSE NoPolicy]
        /\ dl_slice_policy_count' = Len(list)
        /\ dl_slice_policy_enabled' = (Len(list) > 0)
        /\ dl_slice_policy_prb_used' = Zeros
        /\ delivered' = Zeros
    BY <1>1, <2>1, InstalledWhole
  <2>3. \A k \in TableIndex : k <= Len(list) => ToPolicy(list[k]) \in Policy
    BY <2>2, ToPolicyAccepted, SchedulerConstants DEF TableIndex
  <2>4. NoPolicy \in Policy
    BY DEF NoPolicy, Policy
  <2>5. dl_slice_policy' \in [TableIndex -> Policy]
    BY <2>2, <2>3, <2>4
  <2>6. dl_slice_policy_enabled' \in BOOLEAN
    BY <2>2
  <2>7. Zeros \in [TableIndex -> Nat]
    BY DEF Zeros
  <2> QED
    BY <2>1, <2>2, <2>5, <2>6, <2>7
       DEF WriteCtrlRcSm, TypeOK, PassIndex, group, slot
<1>2. CASE ~AgentAccepts(list)
  BY <1>2 DEF WriteCtrlRcSm, TypeOK, PassIndex, Policies, table, stats, group, slot
<1> QED
  BY <1>1, <1>2

LEMMA StartSlotType ==
    ASSUME TypeOK, PassIndex, StartSlot
    PROVE  TypeOK' /\ PassIndex'
<1>1. cand' \in [UEs -> Candidate]
  <2>1. PICK kind \in [UEs -> Kinds], need \in [UEs -> RetxSizes \cup {0}],
             place \in Placements, sl \in SlBitmaps :
             cand' = [u \in UEs |-> [kind |-> kind[u], need |-> need[u],
                                     beam |-> place[u], sl |-> sl[u]]]
    BY DEF StartSlot, CollectDlCandidates, SelectStages
  <2>2. place \in [UEs -> Beams] /\ sl \in [UEs -> SUBSET Symbols]
    BY SchedulerConstants
  <2> QED
    BY <2>1, <2>2 DEF Candidate
<1>2. vrb_map' \in [Beams -> SUBSET (Nat \X Symbols)]
  BY SchedulerConstants DEF StartSlot
<1>3. NoGrant \in Grant
  BY DEF NoGrant, Grant, Unscheduled
<1>4. max_num_ue' \in Nat \ {0}
  BY SchedulerConstants DEF StartSlot
<1> QED
  BY <1>1, <1>2, <1>3, <1>4
     DEF StartSlot, TypeOK, PassIndex, Phases, table, stats

LEMMA StartGroupType ==
    ASSUME TypeOK, PassIndex, StartGroup
    PROVE  TypeOK' /\ PassIndex'
<1>1. PICK b \in todo :
         /\ beam' = b /\ todo' = todo \ {b}
         /\ order' \in PfOrders(Active(b))
  BY DEF StartGroup
<1>2. Active(b) \subseteq UEs
  BY DEF Active
<1>3. Cardinality(Active(b)) \in Nat
  <2>1. IsFiniteSet(Active(b))
    BY <1>2, SchedulerConstants, FS_Subset
  <2> QED
    BY <2>1, FS_CardinalityType
<1>4. order' \in [1 .. Cardinality(Active(b)) -> Active(b)]
  BY <1>1 DEF PfOrders
<1>5. order' \in Seq(UEs)
  BY <1>2, <1>3, <1>4
<1>6. Zeros \in [TableIndex -> Nat]
  BY DEF Zeros
<1> QED
  BY <1>1, <1>5, <1>6 DEF StartGroup, TypeOK, PassIndex, Phases, table, slot

LEMMA EndSlotType ==
    ASSUME TypeOK, PassIndex, EndSlot
    PROVE  TypeOK' /\ PassIndex'
<1>1. 0 \in Beams /\ 1 \in 1 .. MaxNumSlices + 1
  BY SchedulerConstants DEF Beams
<1>2. NoCandidate \in Candidate /\ NoGrant \in Grant
  BY <1>1 DEF NoCandidate, Candidate, Kinds, NoGrant, Grant, Unscheduled
<1>3. Zeros \in [TableIndex -> Nat]
  BY DEF Zeros
<1>4. <<>> \in Seq(UEs)
  OBVIOUS
<1> QED
  BY <1>1, <1>2, <1>3, <1>4 DEF EndSlot, NoSlot, TypeOK, PassIndex, Phases, table
-----------------------------------------------------------------------------
(* What one visit of a pass does. *)

LEMMA ControlVisit ==
    ASSUME TypeOK, NEW p, NEW size \in Nat, VisitControl(p, size)
    PROVE  /\ Current \in UEs
           /\ phase = p
           /\ UNCHANGED <<table, stats, group, slot, used_budget>>
           /\ \/ Continue /\ UNCHANGED <<grant, vrb_map, n_scheduled, i>>
              \/ /\ ServedByControlPass(Current, p)
                 /\ \E start \in Nat : FreeCommit(Current, ControlPass, start, size)
                 /\ IF ReachesMaxNumUe THEN LeaveControlPasses
                                       ELSE Continue /\ UNCHANGED i
<1>1. Visiting(p)
  BY DEF VisitControl
<1>2. Current \in UEs
  BY <1>1, CurrentType
<1>3. phase = p
  BY <1>1 DEF Visiting
<1>4. ASSUME NEW r \in FirstFit(Current, size),
             CommitAlloc(Current, ControlPass, r.start, size)
      PROVE  \E start \in Nat : FreeCommit(Current, ControlPass, start, size)
  BY <1>2, <1>4, ControlCommit
<1> QED
  BY <1>2, <1>3, <1>4 DEF VisitControl

\* An index within the installed policies is an index of the table.
LEMMA PolicyIndex ==
    ASSUME TypeOK, i <= Policies
    PROVE  i \in TableIndex
<1>1. i \in 1 .. MaxNumSlices + 1
  BY DEF TypeOK
<1>2. Policies \in 0 .. MaxNumSlices
  BY PoliciesType
<1>3. MaxNumSlices \in Nat
  BY SchedulerConstants
<1> QED
  BY <1>1, <1>2, <1>3 DEF TableIndex

LEMMA SliceIndex ==
    ASSUME TypeOK, PassIndex, phase = "slice"
    PROVE  /\ i \in TableIndex
           /\ RemainingBudget \in Int
<1>1. i \in TableIndex
  BY PolicyIndex DEF PassIndex
<1>2. TotalBudget(i) \in Nat
  BY <1>1, TotalBudgetType
<1> QED
  BY <1>1, <1>2 DEF TypeOK, RemainingBudget

LEMMA SliceVisit ==
    ASSUME TypeOK, PassIndex, VisitSlice
    PROVE  /\ Current \in UEs
           /\ phase = "slice"
           /\ UNCHANGED <<table, group, slot>>
           /\ \/ /\ UNCHANGED <<grant, vrb_map, n_scheduled, used_budget, stats>>
                 /\ LeaveSlicePass \/ (Continue /\ UNCHANGED i)
              \/ \E size \in Nat : size <= RemainingBudget /\ RefuseBySlicePass(size)
              \/ /\ ServedBySlicePass(Current)
                 /\ \E start, size \in Nat :
                       /\ size <= RemainingBudget
                       /\ FreeCommit(Current, i, start, size)
                       /\ GrantBySlicePass(Current, start, size)
<1>1. Visiting("slice")
  BY DEF VisitSlice
<1>2. Current \in UEs
  BY <1>1, CurrentType
<1>3. phase = "slice"
  BY <1>1 DEF Visiting
<1>4. RemainingBudget \in Int
  BY <1>3, SliceIndex
<1>5. ASSUME NEW r \in LargestFreeBlock(Current),
             NEW size \in MinRbSize .. SliceBlockLimit(r)
      PROVE  size \in Nat /\ size <= RemainingBudget /\ size <= r.len
  <2>1. r.len \in Nat
    BY <1>2, SearchResults, FreeBlock, SchedulerConstants DEF FreeRuns
  <2> QED
    BY <1>4, <2>1, SchedulerConstants DEF SliceBlockLimit
<1>6. ASSUME NEW r \in LargestFreeBlock(Current),
             NEW size \in MinRbSize .. SliceBlockLimit(r),
             GrantBySlicePass(Current, r.start, size)
      PROVE  \E start, n \in Nat :
                /\ n <= RemainingBudget
                /\ FreeCommit(Current, i, start, n)
                /\ GrantBySlicePass(Current, start, n)
  <2>1. CommitAlloc(Current, i, r.start, size)
    BY <1>6 DEF GrantBySlicePass
  <2>2. r.start \in Nat /\ FreeCommit(Current, i, r.start, size)
    BY <1>2, <1>5, <2>1, LargestCommit
  <2> QED
    BY <1>5, <1>6, <2>2
<1> QED
  BY <1>2, <1>3, <1>5, <1>6 DEF VisitSlice

LEMMA RestVisit ==
    ASSUME TypeOK, VisitRest
    PROVE  /\ Current \in UEs
           /\ phase = "rest"
           /\ UNCHANGED <<table, stats, group, slot, i, used_budget>>
           /\ \/ Continue /\ UNCHANGED <<grant, vrb_map, n_scheduled>>
              \/ /\ ServedByRestPass(Current)
                 /\ \E start, size \in Nat : FreeCommit(Current, RestPass, start, size)
                 /\ IF ReachesMaxNumUe THEN LeaveRestPass ELSE Continue
<1>1. Visiting("rest")
  BY DEF VisitRest
<1>2. Current \in UEs
  BY <1>1, CurrentType
<1>3. phase = "rest"
  BY <1>1 DEF Visiting
<1>4. ASSUME NEW r \in LargestFreeBlock(Current), NEW size \in MinRbSize .. r.len,
             CommitAlloc(Current, RestPass, r.start, size)
      PROVE  \E start, n \in Nat : FreeCommit(Current, RestPass, start, n)
  <2>1. r.len \in Nat
    BY <1>2, SearchResults, SchedulerConstants DEF FreeRuns
  <2>2. size \in Nat /\ size <= r.len
    BY <2>1, SchedulerConstants
  <2> QED
    BY <1>2, <1>4, <2>2, LargestCommit
<1> QED
  BY <1>2, <1>3, <1>4 DEF VisitRest

LEMMA ControlType ==
    ASSUME TypeOK, PassIndex, NEW p \in {"retx", "nodata"}, NEW size \in Nat,
           VisitControl(p, size)
    PROVE  TypeOK' /\ PassIndex'
<1>1. 1 \in 1 .. MaxNumSlices + 1 /\ ControlPass \in 0 .. RestPass
  BY SchedulerConstants DEF ControlPass, RestPass
<1>2. /\ grant' \in [UEs -> Grant]
      /\ vrb_map' \in [Beams -> SUBSET (Nat \X Symbols)]
      /\ n_scheduled' \in Nat
  BY <1>1, ControlVisit, CommitTypes DEF FreeCommit, TypeOK
<1>3. /\ phase' \in {p, "policy"}
      /\ i' \in 1 .. MaxNumSlices + 1 /\ j' \in Nat \ {0}
      /\ phase' = "policy" => i' = 1
  <2>1. /\ phase = p
        /\ (Continue /\ UNCHANGED i) \/ LeaveControlPasses
    BY ControlVisit
  <2>2. CASE Continue /\ UNCHANGED i
    BY <2>1, <2>2 DEF TypeOK, Continue
  <2>3. CASE LeaveControlPasses
    BY <1>1, <2>3 DEF TypeOK, LeaveControlPasses
  <2> QED
    BY <2>1, <2>2, <2>3
<1>4. UNCHANGED <<table, stats, group, slot, used_budget>>
  BY ControlVisit
<1>5. Policies' \in Nat
  BY <1>4, PoliciesType, SchedulerConstants DEF table, Policies
<1>6. TypeOK'
  BY <1>2, <1>3, <1>4 DEF TypeOK, Phases, table, stats, group, slot
<1>7. phase' # "slice"
  BY <1>3
<1>8. phase' = "policy" => i' = 1
  BY <1>3
<1>9. PassIndex'
  BY <1>5, <1>7, <1>8 DEF PassIndex
<1> QED
  BY <1>6, <1>9

\* Charging a block keeps the types of the budget and of the counters.
LEMMA ChargeType ==
    ASSUME NEW size \in Nat, ChargeBudget(size), i \in TableIndex, used_budget \in Nat,
           dl_slice_policy_prb_used \in [TableIndex -> Nat]
    PROVE  used_budget' \in Nat /\ dl_slice_policy_prb_used' \in [TableIndex -> Nat]
<1>1. used_budget' \in Nat
  BY DEF ChargeBudget
<1>2. dl_slice_policy_prb_used' = [dl_slice_policy_prb_used EXCEPT ![i] = @ + size]
  BY DEF ChargeBudget
<1>3. dl_slice_policy_prb_used' \in [TableIndex -> Nat]
  BY <1>2
<1> QED
  BY <1>1, <1>3

LEMMA SliceType ==
    ASSUME TypeOK, PassIndex, VisitSlice
    PROVE  TypeOK' /\ PassIndex'
<1>1. /\ Current \in UEs /\ phase = "slice"
      /\ UNCHANGED <<table, group, slot>>
  BY SliceVisit
<1>2. i \in TableIndex /\ i <= Policies
  BY <1>1, SliceIndex DEF PassIndex
<1>3. i \in 0 .. RestPass
  BY <1>2, SchedulerConstants DEF RestPass, TableIndex
<1>4. /\ grant' \in [UEs -> Grant]
      /\ vrb_map' \in [Beams -> SUBSET (Nat \X Symbols)]
      /\ n_scheduled' \in Nat
  BY <1>3, SliceVisit, CommitTypes DEF FreeCommit, RefuseBySlicePass, TypeOK
<1>5. /\ used_budget' \in Nat
      /\ dl_slice_policy_prb_used' \in [TableIndex -> Nat]
      /\ granted' \in [TableIndex -> Nat] /\ delivered' \in [TableIndex -> Nat]
  <2>1. CASE UNCHANGED <<used_budget, stats>>
    BY <2>1 DEF TypeOK, stats
  <2>2. CASE \E size \in Nat : RefuseBySlicePass(size)
    BY <1>2, <2>2, ChargeType DEF RefuseBySlicePass, TypeOK
  <2>3. CASE \E start, size \in Nat : GrantBySlicePass(Current, start, size)
    <3>1. PICK start, size \in Nat : GrantBySlicePass(Current, start, size)
      BY <2>3
    <3>2. /\ granted' = [granted EXCEPT ![i] = @ + size]
          /\ delivered' = [delivered EXCEPT ![i] = @ + size]
          /\ \/ UNCHANGED <<used_budget, dl_slice_policy_prb_used>>
             \/ ChargeBudget(size)
      BY <3>1 DEF GrantBySlicePass
    <3>3. granted' \in [TableIndex -> Nat] /\ delivered' \in [TableIndex -> Nat]
      <4>1. \A f \in [TableIndex -> Nat] :
               [f EXCEPT ![i] = @ + size] \in [TableIndex -> Nat]
        BY <1>2
      <4>2. granted \in [TableIndex -> Nat] /\ delivered \in [TableIndex -> Nat]
        BY DEF TypeOK
      <4> QED
        BY <3>2, <4>1, <4>2
    <3>4. used_budget' \in Nat /\ dl_slice_policy_prb_used' \in [TableIndex -> Nat]
      BY <1>2, <3>2, ChargeType DEF TypeOK
    <3> QED
      BY <3>3, <3>4
  <2> QED
    BY <2>1, <2>2, <2>3, SliceVisit
<1>6. /\ (phase' = "slice" /\ i' = i) \/ (phase' = "policy" /\ i' = i + 1)
      /\ j' \in Nat \ {0}
  <2>1. (Continue /\ UNCHANGED i) \/ LeaveSlicePass
    BY SliceVisit DEF GrantBySlicePass, RefuseBySlicePass
  <2> QED
    BY <1>1, <2>1 DEF Continue, LeaveSlicePass, TypeOK
<1>7. Policies' = Policies /\ Policies \in 0 .. MaxNumSlices
  BY <1>1, PoliciesType DEF table, Policies
<1>8. i' \in 1 .. MaxNumSlices + 1
  BY <1>2, <1>6, SchedulerConstants DEF TableIndex
<1>9. TypeOK'
  BY <1>1, <1>4, <1>5, <1>6, <1>8 DEF TypeOK, Phases, table, group, slot
<1> QED
  BY <1>2, <1>6, <1>7, <1>9 DEF PassIndex, TableIndex

LEMMA RestType ==
    ASSUME TypeOK, PassIndex, VisitRest
    PROVE  TypeOK' /\ PassIndex'
<1>1. RestPass \in 0 .. RestPass
  BY SchedulerConstants DEF RestPass
<1>2. /\ grant' \in [UEs -> Grant]
      /\ vrb_map' \in [Beams -> SUBSET (Nat \X Symbols)]
      /\ n_scheduled' \in Nat
  BY <1>1, RestVisit, CommitTypes DEF FreeCommit, TypeOK
<1>3. phase' \in {"rest", "group"} /\ j' \in Nat \ {0}
  BY RestVisit DEF TypeOK, Continue, LeaveRestPass
<1>4. UNCHANGED <<table, stats, group, slot, i, used_budget>>
  BY RestVisit
<1> QED
  BY <1>2, <1>3, <1>4 DEF TypeOK, PassIndex, Phases, table, stats, group, slot

LEMMA NextPolicyType ==
    ASSUME TypeOK, PassIndex, NextPolicy
    PROVE  TypeOK' /\ PassIndex'
<1>1. Policies' = Policies /\ Policies \in 0 .. MaxNumSlices
  BY PoliciesType DEF NextPolicy, table, Policies
<1>2. /\ i' \in 1 .. MaxNumSlices + 1
      /\ phase' = "policy" => i' <= Policies + 1
      /\ phase' = "slice" => i' <= Policies
  BY <1>1, SchedulerConstants DEF NextPolicy, TypeOK
<1>3. TypeOK'
  BY <1>2 DEF NextPolicy, TypeOK, Phases, table, stats, group, slot
<1> QED
  BY <1>1, <1>2, <1>3 DEF PassIndex

LEMMA EndType ==
    ASSUME TypeOK, PassIndex, EndRetx \/ EndNoData \/ EndSlice \/ EndRest
    PROVE  TypeOK' /\ PassIndex'
<1>1. Policies' = Policies /\ Policies \in 0 .. MaxNumSlices
  BY PoliciesType DEF EndRetx, EndNoData, EndSlice, EndRest, table, Policies
<1>2. CASE EndRetx \/ EndRest
  <2>1. CASE EndRetx
    BY <2>1 DEF EndRetx, TypeOK, PassIndex, Phases, table, stats, group, slot
  <2>2. CASE EndRest
    BY <2>2 DEF EndRest, LeaveRestPass, TypeOK, PassIndex, Phases,
                table, stats, group, slot
  <2> QED
    BY <1>2, <2>1, <2>2
<1>3. CASE EndNoData
  BY <1>1, <1>3, SchedulerConstants
     DEF EndNoData, LeaveControlPasses, TypeOK, PassIndex, Phases,
         table, stats, group, slot
<1>4. CASE EndSlice
  BY <1>1, <1>4, SchedulerConstants
     DEF EndSlice, LeaveSlicePass, TypeOK, PassIndex, Phases,
         table, stats, group, slot
<1> QED
  BY <1>2, <1>3, <1>4

\* The size argument of the two control passes.
LEMMA ControlSizes ==
    ASSUME TypeOK, VisitRetx \/ VisitNoData
    PROVE  \E p \in {"retx", "nodata"}, size \in Nat : VisitControl(p, size)
<1>1. CASE VisitRetx
  <2>1. Current \in UEs
    BY <1>1, CurrentType DEF VisitRetx, VisitControl
  <2>2. cand[Current] \in Candidate
    BY <2>1 DEF TypeOK
  <2>3. cand[Current].need \in RetxSizes \cup {0}
    BY <2>2 DEF Candidate
  <2>4. \A n \in RetxSizes \cup {0} : n \in Nat
    BY SchedulerConstants
  <2>5. cand[Current].need \in Nat
    BY <2>3, <2>4, Zenon
  <2> QED
    BY <1>1, <2>5 DEF VisitRetx
<1>2. CASE VisitNoData
  BY <1>2, SchedulerConstants DEF VisitNoData
<1> QED
  BY <1>1, <1>2

LEMMA TypeStep ==
    ASSUME TypeOK, PassIndex, [Next]_vars
    PROVE  TypeOK' /\ PassIndex'
<1>1. CASE \E list \in CtrlLists : WriteCtrlRcSm(list)
  BY <1>1, WriteType
<1>2. CASE StartSlot
  BY <1>2, StartSlotType
<1>3. CASE StartGroup
  BY <1>3, StartGroupType
<1>4. CASE EndSlot
  BY <1>4, EndSlotType
<1>5. CASE VisitRetx \/ VisitNoData
  BY <1>5, ControlSizes, ControlType
<1>6. CASE NextPolicy
  BY <1>6, NextPolicyType
<1>7. CASE VisitSlice
  BY <1>7, SliceType
<1>8. CASE VisitRest
  BY <1>8, RestType
<1>9. CASE EndRetx \/ EndNoData \/ EndSlice \/ EndRest
  BY <1>9, EndType
<1>10. CASE UNCHANGED vars
  BY <1>10 DEF vars, table, stats, group, slot, TypeOK, PassIndex, Policies
<1> QED
  BY <1>1, <1>2, <1>3, <1>4, <1>5, <1>6, <1>7, <1>8, <1>9, <1>10 DEF Next, Schedule

\* The scheduler's variables keep their types in every reachable state: a ratio
\* never exceeds its uint8_t field, and no pass reads past the table.
THEOREM TypeCorrect == Spec => []TypeOK
<1>1. Init => TypeOK /\ PassIndex
  BY InitType
<1>2. TypeOK /\ PassIndex /\ [Next]_vars => (TypeOK /\ PassIndex)'
  BY TypeStep
<1> QED
  BY <1>1, <1>2, PTL DEF Spec
-----------------------------------------------------------------------------
(* The policy table. *)

\* Only an RC control changes the table.
LEMMA TableFrame ==
    ASSUME [Next]_vars
    PROVE  UNCHANGED table \/ \E list \in CtrlLists : WriteCtrlRcSm(list)
  BY DEF Next, Schedule, StartSlot, StartGroup, EndSlot, VisitRetx, VisitNoData,
         VisitControl, EndRetx, EndNoData, NextPolicy, VisitSlice, EndSlice,
         VisitRest, EndRest, vars

LEMMA WriteTable ==
    ASSUME TypeOK, TableWhole, NEW list \in CtrlLists, WriteCtrlRcSm(list)
    PROVE  TableWhole'
<1>1. CASE AgentAccepts(list)
  <2>1. SetDlSlicePolicies(list)
    BY <1>1 DEF WriteCtrlRcSm
  <2>2. /\ Len(list) \in 0 .. MaxNumSlices
        /\ \A k \in 1 .. Len(list) :
              list[k] \in RrmPolicyGroup /\ ParseSlicePolicyGroup(list[k])
        /\ dl_slice_policy' = [k \in TableIndex |->
              IF k <= Len(list) THEN ToPolicy(list[k]) ELSE NoPolicy]
        /\ dl_slice_policy_count' = Len(list)
        /\ dl_slice_policy_enabled' = (Len(list) > 0)
    BY <1>1, <2>1, InstalledWhole
  <2>3. ASSUME NEW k \in TableIndex
        PROVE  /\ dl_slice_policy'[k].active <=> k <= Len(list)
               /\ dl_slice_policy'[k].min <= dl_slice_policy'[k].dedicated
               /\ dl_slice_policy'[k].dedicated <= dl_slice_policy'[k].max
    <3>1. CASE k <= Len(list)
      <4>1. k \in 1 .. Len(list) /\ dl_slice_policy'[k] = ToPolicy(list[k])
        BY <2>2, <3>1, SchedulerConstants DEF TableIndex
      <4>2. /\ ToPolicy(list[k]).active
            /\ ToPolicy(list[k]).min <= ToPolicy(list[k]).dedicated
            /\ ToPolicy(list[k]).dedicated <= ToPolicy(list[k]).max
        BY <2>2, <4>1, ToPolicyAccepted
      <4> QED
        BY <3>1, <4>1, <4>2, Zenon
    <3>2. CASE ~(k <= Len(list))
      <4>1. dl_slice_policy'[k] = NoPolicy
        BY <2>2, <3>2
      <4>2. NoPolicy.min <= NoPolicy.dedicated /\ NoPolicy.dedicated <= NoPolicy.max
        BY DEF NoPolicy
      <4>3. ~NoPolicy.active
        BY Zenon DEF NoPolicy
      <4> QED
        BY <3>2, <4>1, <4>2, <4>3, Zenon
    <3> QED
      BY <3>1, <3>2
  <2> QED
    BY <2>2, <2>3, Zenon DEF TableWhole
<1>2. CASE ~AgentAccepts(list)
  BY <1>2 DEF WriteCtrlRcSm, TableWhole, table
<1> QED
  BY <1>1, <1>2

\* For every set of control lists, the allocator only ever sees a whole accepted
\* list: zeroing the table before validating it is harmless because the
\* decoder of the RC agent enforces the same bounds.
THEOREM TableAlwaysWhole == Spec => []TableWhole
<1>1. Init => TableWhole
  <2> SUFFICES ASSUME Init PROVE TableWhole
    OBVIOUS
  <2>1. \A k \in TableIndex : dl_slice_policy[k] = NoPolicy
    BY DEF Init
  <2>2. NoPolicy.min <= NoPolicy.dedicated /\ NoPolicy.dedicated <= NoPolicy.max
    BY DEF NoPolicy
  <2>3. ~NoPolicy.active
    BY Zenon DEF NoPolicy
  <2>4. \A k \in TableIndex : ~(k <= dl_slice_policy_count)
    BY SchedulerConstants DEF Init, TableIndex
  <2>5. dl_slice_policy_enabled = FALSE /\ ~(dl_slice_policy_count > 0)
    BY DEF Init
  <2> QED
    BY <2>1, <2>2, <2>3, <2>4, <2>5, Zenon DEF TableWhole
<1>2. TypeOK /\ TableWhole /\ [Next]_vars => TableWhole'
  <2> SUFFICES ASSUME TypeOK, TableWhole, [Next]_vars PROVE TableWhole'
    OBVIOUS
  <2>1. CASE UNCHANGED table
    BY <2>1 DEF TableWhole, table
  <2> QED
    BY <2>1, TableFrame, WriteTable
<1> QED
  BY <1>1, <1>2, TypeCorrect, PTL DEF Spec
-----------------------------------------------------------------------------
(* Resource blocks. *)

\* Every step either keeps candidates, grants and maps, or drops all grants,
\* or commits a free block to a UE that had none.
LEMMA AllocationStep ==
    ASSUME TypeOK, PassIndex, [Next]_vars
    PROVE  \/ UNCHANGED <<cand, grant, vrb_map>>
           \/ /\ grant' = [u \in UEs |-> NoGrant]
              /\ phase = "idle" \/ phase' = "idle"
           \/ /\ UNCHANGED cand
              /\ \E u \in UEs, pass \in 0 .. RestPass, start, size \in Nat :
                    FreeCommit(u, pass, start, size) /\ grant[u].by = Unscheduled
<1>1. CASE VisitRetx \/ VisitNoData
  <2>1. PICK p \in {"retx", "nodata"}, size \in Nat : VisitControl(p, size)
    BY <1>1, ControlSizes
  <2>2. ControlPass \in 0 .. RestPass
    BY SchedulerConstants DEF ControlPass, RestPass
  <2> QED
    BY <2>1, <2>2, ControlVisit DEF slot, ServedByControlPass
<1>2. CASE VisitSlice
  <2>1. i \in 0 .. RestPass
    BY <1>2, SliceVisit, SliceIndex, SchedulerConstants DEF TableIndex, RestPass
  <2> QED
    BY <1>2, <2>1, SliceVisit DEF slot, ServedBySlicePass, Waiting, RefuseBySlicePass
<1>3. CASE VisitRest
  <2>1. RestPass \in 0 .. RestPass
    BY SchedulerConstants DEF RestPass
  <2> QED
    BY <1>3, <2>1, RestVisit DEF slot, ServedByRestPass, Waiting
<1>4. CASE StartSlot \/ EndSlot
  BY <1>4 DEF StartSlot, EndSlot, NoSlot
<1>5. CASE \/ \E list \in CtrlLists : WriteCtrlRcSm(list)
           \/ StartGroup \/ EndRetx \/ EndNoData \/ NextPolicy \/ EndSlice \/ EndRest
           \/ UNCHANGED vars
  BY <1>5 DEF WriteCtrlRcSm, StartGroup, EndRetx, EndNoData, NextPolicy, EndSlice,
              EndRest, vars, slot
<1> QED
  BY <1>1, <1>2, <1>3, <1>4, <1>5 DEF Next, Schedule

LEMMA CommitEffect ==
    ASSUME TypeOK, NEW u \in UEs, NEW pass \in 0 .. RestPass,
           NEW start \in Nat, NEW size \in Nat,
           CommitAlloc(u, pass, start, size), UNCHANGED cand
    PROVE  /\ AllocatedArea(u)' = Area(u, start, size)
           /\ grant'[u].start = start /\ grant'[u].size = size
           /\ \A v \in UEs \ {u} : /\ Scheduled(v)' = Scheduled(v)
                                   /\ grant'[v] = grant[v]
                                   /\ AllocatedArea(v)' = AllocatedArea(v)
           /\ \A b \in Beams : vrb_map[b] \subseteq vrb_map'[b]
           /\ Area(u, start, size) \subseteq vrb_map'[cand[u].beam]
<1>1. /\ grant' = [grant EXCEPT ![u] = [by |-> pass, start |-> start, size |-> size]]
      /\ vrb_map' = [vrb_map EXCEPT ![cand[u].beam] = @ \cup Area(u, start, size)]
  BY DEF CommitAlloc
<1>2. grant'[u] = [by |-> pass, start |-> start, size |-> size]
  BY <1>1 DEF TypeOK
<1>3. \A v \in UEs \ {u} : grant'[v] = grant[v]
  BY <1>1 DEF TypeOK
<1>4. cand[u].beam \in Beams
  BY DEF TypeOK, Candidate
<1>5. /\ \A b \in Beams : vrb_map[b] \subseteq vrb_map'[b]
      /\ Area(u, start, size) \subseteq vrb_map'[cand[u].beam]
  BY <1>1, <1>4 DEF TypeOK
<1>6. AllocatedArea(u)' = Area(u, start, size)
  BY <1>2 DEF AllocatedArea, Area
<1>7. \A v \in UEs \ {u} : /\ Scheduled(v)' = Scheduled(v)
                           /\ AllocatedArea(v)' = AllocatedArea(v)
  BY <1>3 DEF AllocatedArea, Area, Scheduled
<1> QED
  BY <1>2, <1>3, <1>5, <1>6, <1>7

LEMMA ExclusiveStep ==
    ASSUME TypeOK, PassIndex, Marked, ExclusiveAllocation, [Next]_vars
    PROVE  Marked' /\ ExclusiveAllocation'
<1>1. CASE UNCHANGED <<cand, grant, vrb_map>>
  BY <1>1 DEF Marked, ExclusiveAllocation, Scheduled, AllocatedArea, Area
<1>2. CASE grant' = [u \in UEs |-> NoGrant]
  <2>1. \A u \in UEs : ~Scheduled(u)'
    BY <1>2 DEF Scheduled, NoGrant
  <2> QED
    BY <2>1 DEF Marked, ExclusiveAllocation
<1>3. ASSUME UNCHANGED cand, NEW u \in UEs, NEW pass \in 0 .. RestPass,
             NEW start \in Nat, NEW size \in Nat, FreeCommit(u, pass, start, size)
      PROVE  Marked' /\ ExclusiveAllocation'
  <2>1. /\ AllocatedArea(u)' = Area(u, start, size)
        /\ grant'[u].start = start /\ grant'[u].size = size
        /\ \A v \in UEs \ {u} : /\ Scheduled(v)' = Scheduled(v)
                                /\ grant'[v] = grant[v]
                                /\ AllocatedArea(v)' = AllocatedArea(v)
        /\ \A b \in Beams : vrb_map[b] \subseteq vrb_map'[b]
        /\ Area(u, start, size) \subseteq vrb_map'[cand[u].beam]
    BY <1>3, CommitEffect DEF FreeCommit
  <2>2. /\ start + size <= BwpSize[u]
        /\ Area(u, start, size) \cap vrb_map[cand[u].beam] = {}
    BY <1>3 DEF FreeCommit
  <2>3. \A v \in UEs : cand'[v] = cand[v] /\ cand[v].beam \in Beams
    BY <1>3 DEF TypeOK, Candidate
  <2>4. \A v \in UEs : Scheduled(v)' =>
           grant'[v].start + grant'[v].size <= BwpSize[v]
    BY <2>1, <2>2 DEF Marked
  <2>5. \A v \in UEs : Scheduled(v)' =>
           AllocatedArea(v)' \subseteq vrb_map'[cand'[v].beam]
    BY <2>1, <2>3 DEF Marked
  <2>6. Marked'
    BY <2>4, <2>5 DEF Marked
  <2>7. \A v \in UEs \ {u} :
           Scheduled(v) /\ cand[v].beam = cand[u].beam
              => AllocatedArea(u)' \cap AllocatedArea(v)' = {}
    BY <2>1, <2>2 DEF Marked
  <2>8. \A v, w \in UEs \ {u} :
           Scheduled(v) /\ Scheduled(w) /\ v # w /\ cand[v].beam = cand[w].beam
              => AllocatedArea(v)' \cap AllocatedArea(w)' = {}
    BY <2>1 DEF ExclusiveAllocation
  <2>9. \A v, w \in UEs :
           Scheduled(v)' /\ Scheduled(w)' /\ v # w /\ cand'[v].beam = cand'[w].beam
              => AllocatedArea(v)' \cap AllocatedArea(w)' = {}
    BY <2>1, <2>3, <2>7, <2>8
  <2> QED
    BY <2>4, <2>6, <2>9 DEF ExclusiveAllocation
<1> QED
  BY <1>1, <1>2, <1>3, AllocationStep

\* In every reachable state, for every mix of passes, the UEs scheduled on one
\* beam hold disjoint resource blocks inside their bandwidth parts.
THEOREM ResourceBlocksExclusive == Spec => []ExclusiveAllocation
<1> DEFINE Inv == TypeOK /\ PassIndex /\ Marked /\ ExclusiveAllocation
<1>1. Init => Inv
  <2> SUFFICES ASSUME Init PROVE Inv
    OBVIOUS
  <2>1. \A u \in UEs : ~Scheduled(u)
    BY DEF Init, Scheduled, NoGrant
  <2> QED
    BY <2>1, InitType DEF Marked, ExclusiveAllocation
<1>2. Inv /\ [Next]_vars => Inv'
  BY TypeStep, ExclusiveStep
<1>3. Inv => ExclusiveAllocation
  OBVIOUS
<1> QED
  BY <1>1, <1>2, <1>3, PTL DEF Spec

\* Between two slots no UE holds an allocation.
IdleClean == phase = "idle" => \A u \in UEs : ~Scheduled(u)

\* Only EndSlot returns to the idle state.
LEMMA IdleStep ==
    ASSUME TypeOK, PassIndex, [Next]_vars, phase' = "idle"
    PROVE  \/ grant' = [u \in UEs |-> NoGrant]
           \/ phase = "idle" /\ UNCHANGED grant
<1>1. CASE VisitRetx \/ VisitNoData
  <2>1. PICK p \in {"retx", "nodata"}, size \in Nat : VisitControl(p, size)
    BY <1>1, ControlSizes
  <2>2. phase' \in {p, "policy"}
    BY <2>1, ControlVisit DEF Continue, LeaveControlPasses
  <2> QED
    BY <2>2
<1>2. CASE VisitSlice
  <2>1. phase' \in {"slice", "policy"}
    BY <1>2, SliceVisit DEF Continue, LeaveSlicePass, GrantBySlicePass, RefuseBySlicePass
  <2> QED
    BY <2>1
<1>3. CASE VisitRest
  <2>1. phase' \in {"rest", "group"}
    BY <1>3, RestVisit DEF Continue, LeaveRestPass
  <2> QED
    BY <2>1
<1>4. CASE StartSlot \/ EndSlot \/ StartGroup
  BY <1>4 DEF StartSlot, EndSlot, NoSlot, StartGroup
<1>5. CASE EndRetx \/ EndNoData \/ NextPolicy \/ EndSlice \/ EndRest
  BY <1>5 DEF EndRetx, EndNoData, NextPolicy, EndSlice, EndRest,
              LeaveControlPasses, LeaveSlicePass, LeaveRestPass
<1>6. CASE \E list \in CtrlLists : WriteCtrlRcSm(list)
  BY <1>6 DEF WriteCtrlRcSm
<1>7. CASE UNCHANGED vars
  BY <1>7 DEF vars
<1> QED
  BY <1>1, <1>2, <1>3, <1>4, <1>5, <1>6, <1>7 DEF Next, Schedule

\* A UE scheduled by one pass keeps its allocation until the slot ends: the
\* later passes never move it.
THEOREM GrantsAreFinal == Spec => GrantIsFinal
<1> DEFINE Inv == TypeOK /\ PassIndex /\ IdleClean
<1>1. Init => Inv
  BY InitType DEF Init, IdleClean, Scheduled, NoGrant
<1>2. Inv /\ [Next]_vars => Inv'
  <2> SUFFICES ASSUME Inv, [Next]_vars, phase' = "idle", NEW u \in UEs
               PROVE  ~Scheduled(u)'
    BY TypeStep DEF IdleClean
  <2> QED
    BY IdleStep DEF IdleClean, Scheduled, NoGrant
<1>3. Inv /\ [Next]_vars =>
         [\A u \in UEs : Scheduled(u) /\ phase' # "idle" => grant'[u] = grant[u]]_vars
  <2> SUFFICES ASSUME Inv, [Next]_vars, NEW u \in UEs, Scheduled(u), phase' # "idle"
               PROVE  grant'[u] = grant[u]
    OBVIOUS
  <2>1. CASE UNCHANGED <<cand, grant, vrb_map>>
    BY <2>1
  <2>2. phase # "idle"
    BY DEF IdleClean
  <2>3. ASSUME UNCHANGED cand, NEW v \in UEs, NEW pass \in 0 .. RestPass,
               NEW start \in Nat, NEW size \in Nat,
               FreeCommit(v, pass, start, size), grant[v].by = Unscheduled
        PROVE  grant'[u] = grant[u]
    <3>1. u # v
      BY <2>3 DEF Scheduled
    <3> QED
      BY <2>3, <3>1 DEF FreeCommit, CommitAlloc, TypeOK
  <2> QED
    BY <2>1, <2>2, <2>3, AllocationStep
<1> QED
  BY <1>1, <1>2, <1>3, PTL DEF Spec, GrantIsFinal
-----------------------------------------------------------------------------
(* Budgets. *)

LEMMA WriteBudget ==
    ASSUME TypeOK, PassIndex, Charged, NEW list \in CtrlLists, WriteCtrlRcSm(list)
    PROVE  Charged' /\ SliceBudget'
<1>1. TypeOK'
  BY WriteType
<1>2. phase = "idle" /\ phase' = "idle" /\ granted' = granted
  BY DEF WriteCtrlRcSm, stats
<1>3. \A k \in TableIndex : granted'[k] = 0
  BY <1>2 DEF Charged
<1>4. \A k \in TableIndex : dl_slice_policy'[k] \in Policy
  BY <1>1 DEF TypeOK
<1>5. \A k \in TableIndex : dl_slice_policy'[k].dedicated \in 0..100
  BY <1>4 DEF Policy
<1>6. \A k \in TableIndex : TotalBudget(k)' \in Nat
  BY <1>5, BudgetArithmetic, Zenon DEF TotalBudget
<1>7. SliceBudget'
  BY <1>3, <1>6 DEF SliceBudget
<1> QED
  BY <1>2, <1>3, <1>7 DEF Charged

\* A slice pass gives out and charges at most what is left of its budget.
LEMMA SliceVisitBudget ==
    ASSUME TypeOK, PassIndex, Charged, SliceBudget, VisitSlice
    PROVE  Charged' /\ SliceBudget'
<1>1. phase = "slice" /\ UNCHANGED <<table, group, slot>>
  BY SliceVisit
<1>2. i \in TableIndex /\ i \in Nat
  BY <1>1, SliceIndex, SchedulerConstants DEF TableIndex
<1>3. \A k \in TableIndex : TotalBudget(k)' = TotalBudget(k) /\ TotalBudget(k) \in Nat
  BY <1>1, TotalBudgetType DEF table, TotalBudget
<1>4. /\ \A k \in TableIndex : k > i => granted[k] = 0
      /\ granted[i] <= used_budget /\ used_budget <= TotalBudget(i)
      /\ \A k \in TableIndex : granted[k] <= TotalBudget(k)
  BY <1>1 DEF Charged, SliceBudget
<1>5. /\ \A k \in TableIndex : granted[k] \in Nat
      /\ used_budget \in Nat /\ granted \in [TableIndex -> Nat]
      /\ TotalBudget(i) \in Nat
  BY <1>2, <1>3 DEF TypeOK
<1>6. \A k \in TableIndex : k >= i + 1 => k > i
  BY <1>2, SchedulerConstants DEF TableIndex
<1>7. CASE /\ UNCHANGED <<used_budget, stats>>
           /\ LeaveSlicePass \/ (Continue /\ UNCHANGED i)
  <2>1. granted' = granted /\ used_budget' = used_budget
    BY <1>7 DEF stats
  <2>2. SliceBudget'
    BY <1>3, <1>4, <2>1 DEF SliceBudget
  <2>3. CASE phase' = "policy" /\ i' = i + 1
    BY <1>4, <1>6, <2>1, <2>2, <2>3 DEF Charged
  <2>4. CASE phase' = "slice" /\ i' = i
    BY <1>2, <1>3, <1>4, <2>1, <2>2, <2>4 DEF Charged
  <2> QED
    BY <1>1, <1>7, <2>3, <2>4 DEF LeaveSlicePass, Continue
<1>8. CASE \E size \in Nat : size <= RemainingBudget /\ RefuseBySlicePass(size)
  <2>1. PICK size \in Nat : size <= RemainingBudget /\ RefuseBySlicePass(size)
    BY <1>8
  <2>2. /\ used_budget' = used_budget + size /\ granted' = granted
        /\ phase' = "slice" /\ i' = i
    BY <1>1, <2>1 DEF RefuseBySlicePass, ChargeBudget, Continue
  <2>3. used_budget' <= TotalBudget(i) /\ granted[i] <= used_budget'
    BY <1>2, <1>4, <1>5, <2>1, <2>2 DEF RemainingBudget
  <2> QED
    BY <1>2, <1>3, <1>4, <2>2, <2>3 DEF Charged, SliceBudget
<1>9. CASE \E start, size \in Nat :
              /\ size <= RemainingBudget
              /\ GrantBySlicePass(Current, start, size)
  <2>1. PICK start, size \in Nat :
           size <= RemainingBudget /\ GrantBySlicePass(Current, start, size)
    BY <1>9
  <2>2. granted' = [granted EXCEPT ![i] = @ + size]
    BY <2>1 DEF GrantBySlicePass
  <2>3. /\ granted'[i] = granted[i] + size
        /\ \A k \in TableIndex : k # i => granted'[k] = granted[k]
    BY <1>2, <1>5, <2>2
  <2>4. granted'[i] <= used_budget + size /\ used_budget + size <= TotalBudget(i)
    BY <1>2, <1>4, <1>5, <2>1, <2>3 DEF RemainingBudget
  <2>5. granted'[i] <= TotalBudget(i)
    BY <1>2, <1>5, <2>3, <2>4
  <2>6. \A k \in TableIndex : granted'[k] <= TotalBudget(k)'
    BY <1>3, <1>4, <2>3, <2>5
  <2>7. \A k \in TableIndex : k > i => granted'[k] = 0
    BY <1>2, <1>4, <2>3
  <2>8. \/ phase' = "policy" /\ i' = i + 1
        \/ phase' = "slice" /\ i' = i /\ used_budget' = used_budget + size
    BY <1>1, <2>1 DEF GrantBySlicePass, LeaveSlicePass, Continue, ChargeBudget
  <2> QED
    BY <1>2, <1>3, <1>6, <2>4, <2>6, <2>7, <2>8 DEF Charged, SliceBudget
<1> QED
  BY <1>7, <1>8, <1>9, SliceVisit

LEMMA BudgetStep ==
    ASSUME TypeOK, PassIndex, Charged, SliceBudget, [Next]_vars
    PROVE  Charged' /\ SliceBudget'
<1>1. CASE \E list \in CtrlLists : WriteCtrlRcSm(list)
  BY <1>1, WriteBudget
<1>2. CASE VisitSlice
  BY <1>2, SliceVisitBudget
<1>3. ASSUME UNCHANGED table
      PROVE  \A k \in TableIndex : TotalBudget(k)' = TotalBudget(k) /\ TotalBudget(k) \in Nat
  BY <1>3, TotalBudgetType DEF table, TotalBudget
<1>4. CASE StartSlot
  BY <1>3, <1>4 DEF StartSlot, Charged, SliceBudget, stats
<1>5. CASE StartGroup \/ EndSlot
  <2>1. granted' = Zeros /\ phase' \in {"retx", "idle"} /\ UNCHANGED table
    BY <1>5 DEF StartGroup, EndSlot, NoSlot
  <2>2. \A k \in TableIndex : granted'[k] = 0
    BY <2>1 DEF Zeros
  <2> QED
    BY <1>3, <2>1, <2>2 DEF Charged, SliceBudget
<1>6. CASE VisitRetx \/ VisitNoData
  <2>1. PICK p \in {"retx", "nodata"}, size \in Nat : VisitControl(p, size)
    BY <1>6, ControlSizes
  <2>2. phase = p /\ phase' \in {p, "policy"} /\ UNCHANGED <<table, stats>>
    BY <2>1, ControlVisit DEF Continue, LeaveControlPasses
  <2>3. \A k \in TableIndex : granted'[k] = 0
    BY <2>1, <2>2 DEF Charged, stats
  <2> QED
    BY <1>3, <2>2, <2>3 DEF Charged, SliceBudget
<1>7. CASE EndRetx \/ EndNoData
  <2>1. /\ phase \in {"retx", "nodata"} /\ phase' \in {"nodata", "policy"}
        /\ UNCHANGED <<table, stats>>
    BY <1>7 DEF EndRetx, EndNoData, LeaveControlPasses
  <2>2. \A k \in TableIndex : granted'[k] = 0
    BY <2>1 DEF Charged, stats
  <2> QED
    BY <1>3, <2>1, <2>2 DEF Charged, SliceBudget
<1>8. CASE NextPolicy
  <2>1. /\ phase = "policy" /\ UNCHANGED <<table, stats>> /\ used_budget' = 0
        /\ \/ phase' = "policy" /\ i' = i + 1
           \/ phase' = "slice" /\ i' = i /\ i <= Policies
           \/ phase' = "rest"
    BY <1>8 DEF NextPolicy
  <2>2. granted' = granted /\ \A k \in TableIndex : k >= i => granted[k] = 0
    BY <2>1 DEF Charged, stats
  <2>3. i \in Nat /\ \A k \in TableIndex : k \in Nat
    BY SchedulerConstants DEF TypeOK, TableIndex
  <2>4. i <= Policies => i \in TableIndex
    BY PolicyIndex
  <2>5. SliceBudget'
    BY <1>3, <2>1, <2>2 DEF SliceBudget
  <2>6. CASE phase' = "policy" /\ i' = i + 1
    BY <2>2, <2>3, <2>5, <2>6 DEF Charged
  <2>7. CASE phase' = "slice" /\ i' = i /\ i <= Policies
    <3>1. \A k \in TableIndex : k > i => granted'[k] = 0
      BY <2>2, <2>3
    <3>2. granted'[i'] <= used_budget'
      BY <2>1, <2>2, <2>3, <2>4, <2>7
    <3>3. used_budget' <= TotalBudget(i)'
      BY <1>3, <2>1, <2>4, <2>7
    <3> QED
      BY <2>5, <2>7, <3>1, <3>2, <3>3 DEF Charged
  <2>8. CASE phase' = "rest"
    BY <2>5, <2>8 DEF Charged
  <2> QED
    BY <2>1, <2>6, <2>7, <2>8
<1>9. CASE EndSlice
  <2>1. /\ phase = "slice" /\ phase' = "policy" /\ i' = i + 1
        /\ granted' = granted /\ UNCHANGED table
    BY <1>9 DEF EndSlice, LeaveSlicePass, stats
  <2>2. \A k \in TableIndex : k >= i + 1 => granted[k] = 0
    BY <2>1, SchedulerConstants DEF Charged, TypeOK, TableIndex
  <2> QED
    BY <1>3, <2>1, <2>2 DEF Charged, SliceBudget
<1>10. CASE VisitRest \/ EndRest
  <2>1. phase' \in {"rest", "group"} /\ UNCHANGED <<table, stats>>
    BY <1>10, RestVisit DEF EndRest, LeaveRestPass, Continue
  <2> QED
    BY <1>3, <2>1 DEF Charged, SliceBudget, stats
<1>11. CASE UNCHANGED vars
  BY <1>11 DEF vars, Charged, SliceBudget, TotalBudget, table, stats
<1> QED
  BY <1>1, <1>2, <1>4, <1>5, <1>6, <1>7, <1>8, <1>9, <1>10, <1>11 DEF Next, Schedule

\* For every table, carrier width and number of beams, a slice's pass hands out
\* at most the PRB budget of its dedicated ratio in each beam group, also when
\* refused UEs and the return inside COMMIT_ALLOC disturb the accounting.
THEOREM SliceBudgetKept == Spec => []SliceBudget
<1> DEFINE Inv == TypeOK /\ PassIndex /\ Charged /\ SliceBudget
<1>1. Init => Inv
  <2> SUFFICES ASSUME Init PROVE Inv
    OBVIOUS
  <2>1. TypeOK /\ PassIndex
    BY InitType
  <2>2. \A k \in TableIndex : granted[k] = 0 /\ TotalBudget(k) \in Nat
    BY <2>1, TotalBudgetType DEF Init, Zeros
  <2> QED
    BY <2>1, <2>2 DEF Init, Charged, SliceBudget
<1>2. Inv /\ [Next]_vars => Inv'
  BY TypeStep, BudgetStep
<1>3. Inv => SliceBudget
  OBVIOUS
<1> QED
  BY <1>1, <1>2, <1>3, PTL DEF Spec
-----------------------------------------------------------------------------
(* The number of scheduled UEs. *)

LEMMA UeCountStep ==
    ASSUME TypeOK, PassIndex, UeCount, [Next]_vars
    PROVE  UeCount'
<1>1. /\ n_scheduled \in Nat /\ max_num_ue \in Nat \ {0} /\ i \in Nat \ {0}
      /\ Policies \in Nat
  BY PoliciesType, SchedulerConstants DEF TypeOK
<1>2. ASSUME UNCHANGED table PROVE Policies' = Policies
  BY <1>2 DEF table, Policies
<1>3. ASSUME NEW u, NEW pass, NEW start, NEW size, FreeCommit(u, pass, start, size)
      PROVE  n_scheduled' = n_scheduled + 1
  BY <1>3 DEF FreeCommit, CommitAlloc
<1>4. CASE \E list \in CtrlLists : WriteCtrlRcSm(list)
  BY <1>4 DEF WriteCtrlRcSm, UeCount
<1>5. CASE StartSlot
  <2>1. TypeOK'
    BY <1>5, StartSlotType
  <2>2. /\ n_scheduled' = 0 /\ phase' = "group"
        /\ max_num_ue' \in Nat /\ Policies' = Policies
    BY <1>2, <1>5, <2>1 DEF StartSlot, UeCount, TypeOK
  <2>3. n_scheduled' <= max_num_ue' + Policies + 1
    <3>1. \A m, n \in Nat : 0 <= m + n + 1
      OBVIOUS
    <3> QED
      BY <1>1, <2>2, <3>1, Zenon
  <2> QED
    BY <2>2, <2>3 DEF UeCount
<1>6. CASE StartGroup \/ EndSlot
  <2>1. /\ n_scheduled' = 0 /\ phase' \in {"retx", "idle"}
        /\ max_num_ue' = max_num_ue
    BY <1>6 DEF StartGroup, EndSlot, NoSlot, slot
  <2> QED
    BY <1>1, <2>1 DEF UeCount
<1>7. CASE VisitRetx \/ VisitNoData
  <2>1. PICK p \in {"retx", "nodata"}, size \in Nat : VisitControl(p, size)
    BY <1>7, ControlSizes
  <2>2. n_scheduled < max_num_ue /\ max_num_ue' = max_num_ue
    BY <2>1, ControlVisit DEF UeCount, slot
  <2>3. \/ phase' = p /\ n_scheduled' = n_scheduled
        \/ phase' = p /\ n_scheduled' = n_scheduled + 1 /\ ~(n_scheduled + 1 >= max_num_ue)
        \/ phase' = "policy" /\ i' = 1 /\ n_scheduled' = n_scheduled + 1
    BY <1>3, <2>1, ControlVisit DEF Continue, LeaveControlPasses, ReachesMaxNumUe
  <2>4. \/ phase' \in {"retx", "nodata"} /\ n_scheduled' < max_num_ue
        \/ phase' = "policy" /\ i' = 1 /\ n_scheduled' <= max_num_ue
    BY <1>1, <2>1, <2>2, <2>3
  <2> QED
    BY <1>1, <2>2, <2>4 DEF UeCount
<1>8. CASE EndRetx \/ EndNoData
  <2>1. /\ n_scheduled < max_num_ue
        /\ n_scheduled' = n_scheduled /\ max_num_ue' = max_num_ue
        /\ phase' = "nodata" \/ (phase' = "policy" /\ i' = 1)
    BY <1>8 DEF EndRetx, EndNoData, LeaveControlPasses, UeCount, slot
  <2> QED
    BY <1>1, <2>1 DEF UeCount
<1>9. CASE NextPolicy
  <2>1. /\ n_scheduled <= max_num_ue + i - 1
        /\ n_scheduled' = n_scheduled /\ max_num_ue' = max_num_ue
        /\ Policies' = Policies /\ i <= Policies + 1
        /\ \/ phase' = "policy" /\ i' = i + 1
           \/ phase' = "slice" /\ i' = i
           \/ phase' = "rest"
    BY <1>2, <1>9 DEF NextPolicy, UeCount, PassIndex, slot
  <2> QED
    BY <1>1, <2>1 DEF UeCount
<1>10. CASE VisitSlice
  <2>1. n_scheduled <= max_num_ue + i - 1 /\ max_num_ue' = max_num_ue
    BY <1>10, SliceVisit DEF UeCount, slot
  <2>2. \/ phase' = "slice" /\ i' = i /\ n_scheduled' = n_scheduled
        \/ phase' = "slice" /\ i' = i /\ n_scheduled' = n_scheduled + 1
           /\ ~(n_scheduled + 1 >= max_num_ue)
        \/ /\ phase' = "policy" /\ i' = i + 1
           /\ n_scheduled' \in {n_scheduled, n_scheduled + 1}
    BY <1>3, <1>10, SliceVisit DEF Continue, LeaveSlicePass, ReachesMaxNumUe,
       GrantBySlicePass, RefuseBySlicePass
  <2> QED
    BY <1>1, <2>1, <2>2 DEF UeCount
<1>11. CASE EndSlice
  <2>1. /\ n_scheduled <= max_num_ue + i - 1
        /\ n_scheduled' = n_scheduled /\ max_num_ue' = max_num_ue
        /\ phase' = "policy" /\ i' = i + 1
    BY <1>11 DEF EndSlice, LeaveSlicePass, UeCount, slot
  <2> QED
    BY <1>1, <2>1 DEF UeCount
<1>12. CASE VisitRest \/ EndRest
  <2>1. /\ n_scheduled <= max_num_ue + Policies
        /\ max_num_ue' = max_num_ue /\ Policies' = Policies
    BY <1>2, <1>12, RestVisit DEF EndRest, UeCount, slot
  <2>2. \/ phase' \in {"rest", "group"} /\ n_scheduled' = n_scheduled
        \/ phase' = "rest" /\ n_scheduled' = n_scheduled + 1
           /\ ~(n_scheduled + 1 >= max_num_ue)
        \/ phase' = "group" /\ n_scheduled' = n_scheduled + 1
    BY <1>3, <1>12, RestVisit DEF EndRest, Continue, LeaveRestPass, ReachesMaxNumUe
  <2> QED
    BY <1>1, <2>1, <2>2 DEF UeCount
<1>13. CASE UNCHANGED vars
  BY <1>13 DEF vars, UeCount, Policies, table, slot
<1> QED
  BY <1>4, <1>5, <1>6, <1>7, <1>8, <1>9, <1>10, <1>11, <1>12, <1>13 DEF Next, Schedule

\* The return inside COMMIT_ALLOC bounds the UEs of a beam group by max_num_ue
\* plus one for each new-data pass, for every table and every limit.
THEOREM OvershootBounded == Spec => []MaxUeOvershoot
<1> DEFINE Inv == TypeOK /\ PassIndex /\ UeCount
<1>1. Init => Inv
  BY InitType DEF Init, UeCount
<1>2. Inv /\ [Next]_vars => Inv'
  BY TypeStep, UeCountStep
<1>3. Inv => MaxUeOvershoot
  <2> SUFFICES ASSUME Inv PROVE n_scheduled <= max_num_ue + dl_slice_policy_count + 1
    BY DEF MaxUeOvershoot
  <2>1. /\ n_scheduled \in Nat /\ max_num_ue \in Nat \ {0} /\ i \in Nat
        /\ Policies \in Nat /\ dl_slice_policy_count \in Nat
        /\ Policies <= dl_slice_policy_count
    BY PoliciesType, SchedulerConstants DEF TypeOK
  <2>2. phase \in Phases
    BY DEF TypeOK
  <2> QED
    BY <2>1, <2>2 DEF UeCount, PassIndex, Phases
<1> QED
  BY <1>1, <1>2, <1>3, PTL DEF Spec
=============================================================================
