-------------------------- MODULE SliceQuotaProofs --------------------------
(***************************************************************************)
(* The quota of an S-NSSAI: what its UEs hold together on a beam is        *)
(* covered by the budgets of its entries, for every table and every set of *)
(* UEs.  Sums over sets are cardinalities of sets of pairs here, so that   *)
(* one injection compares two of them.                                     *)
(***************************************************************************)
EXTENDS SlicePrbSchedulerProofs, FunctionTheorems

(* The inductive invariant, beside PassIndex, Charged and IdleClean. *)

Allocating == phase \in {"retx", "nodata", "policy", "slice", "rest"}

\* The allocator visits UEs of its own beam, and no beam group comes twice.
GroupOfBeam ==
    Allocating => /\ \A p \in 1 .. Len(order) : cand[order[p]].beam = beam
                  /\ beam \notin todo

\* A UE of a beam that is still to come holds nothing yet.
LaterBeamsEmpty == \A u \in UEs : cand[u].beam \in todo => ~Scheduled(u)

\* A UE was served by the pass of an entry for its S-NSSAI, or has no entry.
PassMatches ==
    \A u \in UEs :
        /\ grant[u].by \in TableIndex =>
              grant[u].by <= Policies /\ dl_slice_policy[grant[u].by].nssai = UeNssai[u]
        /\ grant[u].by = RestPass => ~HasPolicy(u)

PassHolders(k) == {u \in UEs : cand[u].beam = beam /\ grant[u].by = k}

\* The RBs that an entry's pass counts are those its UEs hold.
Counted ==
    \A k \in TableIndex :
        /\ IsFiniteSet(HeldRbs(PassHolders(k)))
        /\ Cardinality(HeldRbs(PassHolders(k))) = granted[k]

-----------------------------------------------------------------------------
(* Sets of pairs. *)

LEMMA PairsCounted ==
    ASSUME NEW x, NEW R, IsFiniteSet(R)
    PROVE  IsFiniteSet({x} \X R) /\ Cardinality({x} \X R) = Cardinality(R)
<1>1. IsFiniteSet({x}) /\ Cardinality({x}) = 1
  BY FS_Singleton
<1>2. \A S, T : /\ IsFiniteSet(S) /\ IsFiniteSet(T)
                => /\ IsFiniteSet(S \X T)
                   /\ Cardinality(S \X T) = Cardinality(S) * Cardinality(T)
  BY FS_Product
<1>3. /\ IsFiniteSet({x} \X R)
      /\ Cardinality({x} \X R) = Cardinality({x}) * Cardinality(R)
  BY <1>1, <1>2, Zenon
<1>4. Cardinality(R) \in Nat
  BY FS_CardinalityType
<1> QED
  BY <1>1, <1>3, <1>4

\* A run of n RBs.
LEMMA RunCounted ==
    ASSUME NEW a \in Nat, NEW n \in Nat
    PROVE  IsFiniteSet(a .. a + n - 1) /\ Cardinality(a .. a + n - 1) = n
<1>1. a \in Int /\ a + n - 1 \in Int
  OBVIOUS
<1>2. /\ IsFiniteSet(a .. a + n - 1)
      /\ Cardinality(a .. a + n - 1) = IF a > a + n - 1 THEN 0 ELSE (a + n - 1) - a + 1
  BY <1>1, FS_Interval
<1> QED
  BY <1>2

LEMMA HeldMember ==
    ASSUME NEW S, NEW x
    PROVE  x \in HeldRbs(S) <=> \E u \in S : x \in {u} \X GrantedRbs(u)
  BY DEF HeldRbs

LEMMA BudgetMember ==
    ASSUME NEW S, NEW x
    PROVE  x \in BudgetRbs(S) <=> \E k \in S : x \in {k} \X (1 .. TotalBudget(k))
  BY DEF BudgetRbs

\* What a finite set of entries allows is a finite set.
LEMMA BudgetFinite ==
    ASSUME TypeOK, NEW S \in SUBSET TableIndex
    PROVE  IsFiniteSet(BudgetRbs(S))
<1> DEFINE T == {{k} \X (1 .. TotalBudget(k)) : k \in S}
           f == [k \in S |-> {k} \X (1 .. TotalBudget(k))]
<1>1. IsFiniteSet(TableIndex)
  BY FS_Interval, SchedulerConstants DEF TableIndex
<1>2. IsFiniteSet(S)
  BY <1>1, FS_Subset
<1>3. f \in Surjection(S, T)
  BY DEF Surjection
<1>4. IsFiniteSet(T)
  <2> HIDE DEF f, T
  <2> QED
    BY <1>2, <1>3, FS_Surjection
<1>5. \A t \in T : IsFiniteSet(t)
  <2> SUFFICES ASSUME NEW k \in S PROVE IsFiniteSet({k} \X (1 .. TotalBudget(k)))
    OBVIOUS
  <2>1. TotalBudget(k) \in Nat
    BY TotalBudgetType
  <2>2. IsFiniteSet(1 .. TotalBudget(k))
    BY <2>1, FS_Interval
  <2> QED
    BY <2>2, PairsCounted
<1>6. IsFiniteSet(UNION T)
  BY <1>4, <1>5, FS_UNION
<1> QED
  BY <1>6 DEF BudgetRbs

\* A finite set of n elements goes one to one into an interval of at least n.
LEMMA FitsInterval ==
    ASSUME NEW S, IsFiniteSet(S), NEW m \in Nat, Cardinality(S) <= m
    PROVE  \E g \in [S -> 1 .. m] : \A x, y \in S : g[x] = g[y] => x = y
<1> DEFINE n == Cardinality(S)
<1>1. n \in Nat /\ ExistsBijection(1 .. n, S)
  BY FS_CardinalityType
<1>2. IsFiniteSet(1 .. n) /\ Cardinality(1 .. n) = n
  BY <1>1, FS_Interval
<1>3. ExistsBijection(S, 1 .. n)
  BY <1>2, FS_SameCardinalityBij
<1>4. PICK g \in Bijection(S, 1 .. n) : TRUE
  BY <1>3 DEF ExistsBijection
<1>5. g \in [S -> 1 .. n] /\ \A x, y \in S : g[x] = g[y] => x = y
  BY <1>4 DEF Bijection, Injection, IsInjective
<1>6. 1 .. n \subseteq 1 .. m
  BY <1>1
<1>7. g \in [S -> 1 .. m]
  BY <1>5, <1>6
<1> QED
  BY <1>5, <1>7

-----------------------------------------------------------------------------
(* What a step does to the group and its grants. *)

\* Every step ends or begins a slot or a beam group, changes neither candidates
\* nor grants, or commits RBs to the UE it visits.
LEMMA GroupStep ==
    ASSUME TypeOK, PassIndex, [Next]_vars
    PROVE  \/ StartSlot \/ EndSlot \/ StartGroup
           \/ \E list \in CtrlLists : WriteCtrlRcSm(list)
           \/ /\ UNCHANGED <<table, cand, grant, granted, group>>
              /\ Allocating' => Allocating
              /\ phase' = "idle" <=> phase = "idle"
           \/ /\ Allocating /\ phase' # "idle" /\ UNCHANGED <<table, cand, group>>
              /\ 1 <= j /\ j <= Len(order) /\ Current \in UEs
              /\ grant[Current].by = Unscheduled
              /\ \E pass \in 0 .. RestPass, start, size \in Nat :
                    /\ CommitAlloc(Current, pass, start, size)
                    /\ \/ pass = ControlPass /\ UNCHANGED granted
                       \/ /\ pass = i /\ phase = "slice" /\ i \in TableIndex
                          /\ i <= Policies
                          /\ dl_slice_policy[i].nssai = UeNssai[Current]
                          /\ granted' = [granted EXCEPT ![i] = @ + size]
                       \/ pass = RestPass /\ ~HasPolicy(Current) /\ UNCHANGED granted
<1>j. j \in Nat /\ 1 <= j
  BY DEF TypeOK
<1>1. CASE VisitRetx \/ VisitNoData
  <2>1. PICK p \in {"retx", "nodata"}, size \in Nat : VisitControl(p, size)
    BY <1>1, ControlSizes
  <2>2. ControlPass \in 0 .. RestPass
    BY SchedulerConstants DEF ControlPass, RestPass
  <2>3. j <= Len(order)
    BY <2>1 DEF VisitControl, Visiting
  <2>4. /\ Current \in UEs /\ phase = p /\ phase' \in {p, "policy"}
        /\ UNCHANGED <<table, stats, group, slot>>
        /\ \/ Continue /\ UNCHANGED grant
           \/ /\ grant[Current].by = Unscheduled
              /\ \E start \in Nat : CommitAlloc(Current, ControlPass, start, size)
    BY <2>1, ControlVisit DEF ServedByControlPass, FreeCommit, Continue, LeaveControlPasses
  <2> QED
    BY <1>j, <2>1, <2>2, <2>3, <2>4 DEF Allocating, stats, slot
<1>2. CASE VisitSlice
  <2>1. /\ Current \in UEs /\ phase = "slice" /\ UNCHANGED <<table, group, slot>>
        /\ phase' \in {"slice", "policy"}
        /\ \/ UNCHANGED <<grant, stats>>
           \/ UNCHANGED <<grant, granted>>
           \/ /\ ServedBySlicePass(Current)
              /\ \E start, size \in Nat :
                    /\ CommitAlloc(Current, i, start, size)
                    /\ granted' = [granted EXCEPT ![i] = @ + size]
    BY <1>2, SliceVisit DEF RefuseBySlicePass, GrantBySlicePass, Continue, LeaveSlicePass
  <2>2. i \in TableIndex /\ i <= Policies
    BY <2>1, SliceIndex DEF PassIndex
  <2>3. i \in 0 .. RestPass
    BY <2>2, SchedulerConstants DEF TableIndex, RestPass
  <2>4. j <= Len(order)
    BY <1>2 DEF VisitSlice, Visiting
  <2>5. ServedBySlicePass(Current) => /\ grant[Current].by = Unscheduled
                                      /\ dl_slice_policy[i].nssai = UeNssai[Current]
    BY DEF ServedBySlicePass, Waiting
  <2> QED
    BY <1>j, <2>1, <2>2, <2>3, <2>4, <2>5 DEF Allocating, stats, slot
<1>3. CASE VisitRest
  <2>1. RestPass \in 0 .. RestPass
    BY SchedulerConstants DEF RestPass
  <2>2. j <= Len(order)
    BY <1>3 DEF VisitRest, Visiting
  <2>3. /\ Current \in UEs /\ phase = "rest" /\ UNCHANGED <<table, stats, group, slot>>
        /\ phase' \in {"rest", "group"}
        /\ \/ UNCHANGED grant
           \/ /\ grant[Current].by = Unscheduled /\ ~HasPolicy(Current)
              /\ \E start, size \in Nat : CommitAlloc(Current, RestPass, start, size)
    BY <1>3, RestVisit DEF ServedByRestPass, Waiting, FreeCommit, Continue, LeaveRestPass
  <2> QED
    BY <1>j, <2>1, <2>2, <2>3 DEF Allocating, stats, slot
<1>4. CASE EndRetx \/ EndNoData \/ NextPolicy \/ EndSlice \/ EndRest
  BY <1>4 DEF EndRetx, EndNoData, NextPolicy, EndSlice, EndRest, Allocating, stats, slot,
              LeaveControlPasses, LeaveSlicePass, LeaveRestPass
<1>5. CASE UNCHANGED vars
  BY <1>5 DEF vars, Allocating, stats, slot
<1> QED
  BY <1>1, <1>2, <1>3, <1>4, <1>5 DEF Next, Schedule

\* No UE holds RBs and no entry has counted any.
NothingHeld ==
    /\ \A u \in UEs : ~Scheduled(u)
    /\ \A k \in TableIndex : granted[k] = 0

\* Without grants there is nothing to match or to count.
LEMMA EmptyGroup == NothingHeld => LaterBeamsEmpty /\ PassMatches /\ Counted
<1> SUFFICES ASSUME NothingHeld
             PROVE  LaterBeamsEmpty /\ PassMatches /\ Counted
  OBVIOUS
<1> USE DEF NothingHeld
<1>1. \A u \in UEs : grant[u].by = Unscheduled
  BY DEF Scheduled
<1>2. Unscheduled \notin TableIndex /\ Unscheduled # RestPass
  BY SchedulerConstants DEF Unscheduled, TableIndex, RestPass
<1>3. \A k \in TableIndex : PassHolders(k) = {}
  BY <1>1, <1>2 DEF PassHolders
<1>4. HeldRbs({}) = {}
  BY DEF HeldRbs
<1>5. Counted
  BY <1>3, <1>4, FS_EmptySet DEF Counted
<1> QED
  BY <1>1, <1>2, <1>5 DEF LaterBeamsEmpty, PassMatches

LEMMA EmptyAfter == NothingHeld' => LaterBeamsEmpty' /\ PassMatches' /\ Counted'
  BY EmptyGroup, PTL

\* The grants of a UE that had none add its RBs to those of the pass.
LEMMA CountedAfterCommit ==
    ASSUME TypeOK, NEW u \in UEs, NEW pass \in 0 .. RestPass, NEW start \in Nat,
           NEW size \in Nat, CommitAlloc(u, pass, start, size),
           grant[u].by = Unscheduled, cand[u].beam = beam, UNCHANGED <<cand, beam>>,
           NEW k \in TableIndex,
           IsFiniteSet(HeldRbs(PassHolders(k))),
           Cardinality(HeldRbs(PassHolders(k))) = granted[k],
           granted'[k] = IF pass = k THEN granted[k] + size ELSE granted[k]
    PROVE  /\ IsFiniteSet(HeldRbs(PassHolders(k))')
           /\ Cardinality(HeldRbs(PassHolders(k))') = granted'[k]
<1> DEFINE S == PassHolders(k)
           H == HeldRbs(PassHolders(k))
           a == BwpStart[u] + start
           N == {u} \X (a .. a + size - 1)
<1>1. /\ grant'[u] = [by |-> pass, start |-> start, size |-> size]
      /\ \A v \in UEs \ {u} : grant'[v] = grant[v]
  BY DEF CommitAlloc, TypeOK
<1>2. grant'[u].by = pass /\ GrantedRbs(u)' = a .. a + size - 1
  BY <1>1 DEF GrantedRbs
<1>3. Unscheduled # k
  BY SchedulerConstants DEF Unscheduled, TableIndex
<1>4. u \notin S
  BY <1>3 DEF PassHolders
<1>5. \A v \in S : v \in UEs /\ v # u /\ GrantedRbs(v)' = GrantedRbs(v)
  BY <1>1, <1>4 DEF PassHolders, GrantedRbs
<1>6. PassHolders(k)' = IF pass = k THEN S \cup {u} ELSE S
  BY <1>1, <1>2, <1>4 DEF PassHolders
<1>7. \A x : x \in H <=> \E v \in S : x \in {v} \X GrantedRbs(v)
  BY HeldMember
<1>8. \A x : x \in HeldRbs(PassHolders(k))'
              <=> \E v \in PassHolders(k)' : x \in {v} \X GrantedRbs(v)'
  BY DEF HeldRbs
<1>9. CASE pass # k
  <2>1. HeldRbs(PassHolders(k))' = H
    BY <1>5, <1>6, <1>7, <1>8, <1>9
  <2> QED
    BY <1>9, <2>1
<1>10. CASE pass = k
  <2>1. \A x : x \in HeldRbs(PassHolders(k))' <=> x \in H \/ x \in N
    BY <1>2, <1>5, <1>6, <1>7, <1>8, <1>10
  <2>2. HeldRbs(PassHolders(k))' = H \cup N
    BY <2>1
  <2>3. H \cap N = {}
    BY <1>4, <1>7
  <2>4. IsFiniteSet(N) /\ Cardinality(N) = size
    <3> DEFINE R == a .. a + size - 1
    <3>1. a \in Nat
      BY SchedulerConstants
    <3>2. IsFiniteSet(R) /\ Cardinality(R) = size
      BY <3>1, RunCounted
    <3> HIDE DEF R
    <3>3. IsFiniteSet({u} \X R) /\ Cardinality({u} \X R) = size
      BY <3>2, PairsCounted
    <3> QED
      BY <3>3 DEF R
  <2>5. granted[k] \in Nat
    BY DEF TypeOK
  <2> HIDE DEF H, N
  <2>6. /\ IsFiniteSet(H \cup N)
        /\ Cardinality(H \cup N) = Cardinality(H) + Cardinality(N) - Cardinality(H \cap N)
    BY <2>4, FS_Union DEF H
  <2>7. Cardinality(H \cap N) = 0
    BY <2>3, FS_EmptySet
  <2>8. Cardinality(H) = granted[k]
    BY DEF H
  <2> QED
    BY <1>10, <2>2, <2>4, <2>5, <2>6, <2>7, <2>8
<1> QED
  BY <1>9, <1>10

LEMMA GroupInit ==
    ASSUME Init
    PROVE  GroupOfBeam /\ LaterBeamsEmpty /\ PassMatches /\ Counted
<1>1. NothingHeld
  BY DEF Init, NothingHeld, Scheduled, NoGrant, Zeros
<1> QED
  BY <1>1, EmptyGroup DEF Init, GroupOfBeam, Allocating

\* A beam group begins with UEs that hold nothing.
LEMMA StartGroupQuota ==
    ASSUME TypeOK, LaterBeamsEmpty, PassMatches, StartGroup
    PROVE  GroupOfBeam' /\ LaterBeamsEmpty' /\ PassMatches' /\ Counted'
<1>1. PICK b \in todo : /\ beam' = b /\ todo' = todo \ {b}
                        /\ order' \in PfOrders(Active(b))
  BY DEF StartGroup
<1>2. UNCHANGED <<cand, grant, table>> /\ granted' = Zeros
  BY DEF StartGroup, slot
<1>3. GroupOfBeam'
  <2>1. order' \in [1 .. Cardinality(Active(b)) -> Active(b)]
    BY <1>1 DEF PfOrders
  <2>2. Active(b) \subseteq UEs /\ IsFiniteSet(UEs)
    BY SchedulerConstants DEF Active
  <2>3. Cardinality(Active(b)) \in Nat
    BY <2>2, FS_Subset, FS_CardinalityType
  <2>4. \A p \in 1 .. Len(order') : order'[p] \in Active(b)
    BY <2>1, <2>3
  <2> QED
    BY <1>1, <1>2, <2>4 DEF GroupOfBeam, Active
<1>4. LaterBeamsEmpty'
  BY <1>1, <1>2 DEF LaterBeamsEmpty, Scheduled
<1>5. PassMatches'
  BY <1>2 DEF PassMatches, HasPolicy, Policies, table
<1>6. \A k \in TableIndex : PassHolders(k)' = {}
  <2> SUFFICES ASSUME NEW k \in TableIndex, NEW u \in UEs, cand[u].beam = b
               PROVE  grant[u].by # k
    BY <1>1, <1>2 DEF PassHolders
  <2>1. grant[u].by = Unscheduled
    BY <1>1 DEF LaterBeamsEmpty, Scheduled
  <2> QED
    BY <2>1, SchedulerConstants DEF Unscheduled, TableIndex
<1>7. \A k \in TableIndex : HeldRbs(PassHolders(k))' = {} /\ granted'[k] = 0
  BY <1>2, <1>6 DEF HeldRbs, Zeros
<1>8. Counted'
  BY <1>7, FS_EmptySet DEF Counted
<1> QED
  BY <1>3, <1>4, <1>5, <1>8

\* A visit that commits RBs does so for a UE of its beam and of its S-NSSAI.
LEMMA CommitQuota ==
    ASSUME TypeOK, GroupOfBeam, LaterBeamsEmpty, PassMatches, Counted,
           Allocating, UNCHANGED <<table, cand, group>>,
           1 <= j, j <= Len(order), Current \in UEs,
           grant[Current].by = Unscheduled,
           NEW pass \in 0 .. RestPass, NEW start \in Nat, NEW size \in Nat,
           CommitAlloc(Current, pass, start, size),
           \/ pass = ControlPass /\ UNCHANGED granted
           \/ /\ pass = i /\ phase = "slice" /\ i \in TableIndex
              /\ i <= Policies
              /\ dl_slice_policy[i].nssai = UeNssai[Current]
              /\ granted' = [granted EXCEPT ![i] = @ + size]
           \/ pass = RestPass /\ ~HasPolicy(Current) /\ UNCHANGED granted
    PROVE  GroupOfBeam' /\ LaterBeamsEmpty' /\ PassMatches' /\ Counted'
<1> DEFINE u == Current
<1>1. cand[u].beam = beam /\ beam \notin todo
  BY DEF GroupOfBeam, Current, TypeOK
<1>2. /\ grant'[u] = [by |-> pass, start |-> start, size |-> size]
      /\ \A v \in UEs \ {u} : grant'[v] = grant[v]
  BY DEF CommitAlloc, TypeOK
<1>3. ControlPass \notin TableIndex /\ ControlPass # RestPass /\ RestPass \notin TableIndex
  BY SchedulerConstants DEF ControlPass, RestPass, TableIndex
<1>4. GroupOfBeam'
  <2>1. order' = order /\ beam' = beam /\ todo' = todo /\ cand' = cand
    BY DEF group
  <2> QED
    BY <2>1 DEF GroupOfBeam, Allocating
<1>5. LaterBeamsEmpty'
  BY <1>1, <1>2 DEF LaterBeamsEmpty, Scheduled, group
<1>6. PassMatches'
  <2>1. /\ Policies' = Policies /\ dl_slice_policy' = dl_slice_policy
        /\ \A v \in UEs : HasPolicy(v)' = HasPolicy(v)
    BY DEF table, Policies, HasPolicy
  <2>2. grant'[u].by = pass
    BY <1>2
  <2> QED
    BY <1>2, <1>3, <2>1, <2>2 DEF PassMatches
<1>7. Counted'
  <2> SUFFICES ASSUME NEW k \in TableIndex
               PROVE  /\ IsFiniteSet(HeldRbs(PassHolders(k))')
                      /\ Cardinality(HeldRbs(PassHolders(k))') = granted'[k]
    BY DEF Counted
  <2>1. granted'[k] = IF pass = k THEN granted[k] + size ELSE granted[k]
    BY <1>3 DEF TypeOK
  <2>2. UNCHANGED <<cand, beam>>
    BY DEF group
  <2> QED
    BY <1>1, <2>1, <2>2, CountedAfterCommit DEF Counted
<1> QED
  BY <1>4, <1>5, <1>6, <1>7

LEMMA QuotaStep ==
    ASSUME TypeOK, PassIndex, Charged, IdleClean, GroupOfBeam, LaterBeamsEmpty,
           PassMatches, Counted, [Next]_vars
    PROVE  GroupOfBeam' /\ LaterBeamsEmpty' /\ PassMatches' /\ Counted'
<1>1. CASE StartGroup
  BY <1>1, StartGroupQuota
<1>2. CASE StartSlot \/ EndSlot \/ \E list \in CtrlLists : WriteCtrlRcSm(list)
  <2>1. NothingHeld'
    <3>1. CASE StartSlot
      BY <3>1 DEF StartSlot, NothingHeld, Scheduled, NoGrant, Charged, stats
    <3>2. CASE EndSlot
      BY <3>2 DEF EndSlot, NoSlot, NothingHeld, Scheduled, NoGrant, Zeros
    <3>3. CASE \E list \in CtrlLists : WriteCtrlRcSm(list)
      BY <3>3 DEF WriteCtrlRcSm, NothingHeld, Scheduled, IdleClean, Charged, stats
    <3> QED
      BY <1>2, <3>1, <3>2, <3>3
  <2>2. ~Allocating'
    BY <1>2 DEF StartSlot, EndSlot, WriteCtrlRcSm, Allocating
  <2>3. GroupOfBeam'
    BY <2>2 DEF GroupOfBeam
  <2> QED
    BY <2>1, <2>3, EmptyAfter
<1>3. CASE /\ UNCHANGED <<table, cand, grant, granted, group>>
           /\ Allocating' => Allocating
  <2>1. /\ cand' = cand /\ grant' = grant /\ granted' = granted
        /\ todo' = todo /\ beam' = beam /\ order' = order
        /\ dl_slice_policy' = dl_slice_policy /\ Policies' = Policies
    BY <1>3 DEF group, table, Policies
  <2>2. GroupOfBeam' /\ LaterBeamsEmpty'
    BY <1>3, <2>1 DEF GroupOfBeam, LaterBeamsEmpty, Scheduled
  <2>3. PassMatches'
    BY <2>1 DEF PassMatches, HasPolicy
  <2>4. \A k \in TableIndex : HeldRbs(PassHolders(k))' = HeldRbs(PassHolders(k))
    BY <2>1 DEF PassHolders, HeldRbs, GrantedRbs
  <2> QED
    BY <2>1, <2>2, <2>3, <2>4 DEF Counted
<1> QED
  BY <1>1, <1>2, <1>3, GroupStep, CommitQuota

\* The UEs of an S-NSSAI with entries hold RBs of passes of those entries only,
\* and what a pass gave out fits its budget: one injection takes all RBs of the
\* S-NSSAI on the beam into the budgets of its entries.
LEMMA QuotaFromCounts ==
    ASSUME TypeOK, TableWhole, SliceBudget, PassMatches, Counted
    PROVE  NssaiQuota
<1> SUFFICES ASSUME NEW n \in Nssai, NEW entries, entries = EntriesOf(n),
                    NEW holders, holders = DataHolders(n), entries # {}
             PROVE  Cardinality(HeldRbs(holders)) <= Cardinality(BudgetRbs(entries))
  BY DEF NssaiQuota
<1>1. /\ Policies \in 0 .. MaxNumSlices /\ Policies <= dl_slice_policy_count
      /\ entries \in SUBSET TableIndex
  BY PoliciesType, SchedulerConstants DEF TableIndex, Policies, TypeOK, EntriesOf
<1>2. \A u \in holders : /\ u \in UEs /\ UeNssai[u] = n /\ grant[u].by \in entries
                         /\ u \in PassHolders(grant[u].by)
  <2> SUFFICES ASSUME NEW u \in holders
               PROVE  grant[u].by \in entries /\ u \in PassHolders(grant[u].by)
    BY DEF DataHolders
  <2>1. u \in UEs /\ UeNssai[u] = n /\ cand[u].beam = beam /\ grant[u].by > ControlPass
    BY DEF DataHolders, HasData
  <2>2. grant[u].by \in {Unscheduled} \cup (0 .. RestPass)
    BY <2>1 DEF TypeOK, Grant
  <2>3. grant[u].by \in TableIndex \cup {RestPass}
    BY <2>1, <2>2, SchedulerConstants
       DEF Unscheduled, ControlPass, RestPass, TableIndex
  <2>4. grant[u].by # RestPass
    <3>1. PICK k \in 1 .. Policies : dl_slice_policy[k].nssai = UeNssai[u]
      BY <2>1 DEF EntriesOf
    <3>2. k \in TableIndex /\ k <= dl_slice_policy_count
      BY <1>1, <3>1, SchedulerConstants DEF TypeOK, TableIndex
    <3>3. dl_slice_policy[k].active
      BY <3>2 DEF TableWhole
    <3> QED
      BY <2>1, <3>1, <3>3 DEF PassMatches, HasPolicy
  <2>5. grant[u].by \in entries
    BY <1>1, <2>1, <2>3, <2>4 DEF PassMatches, TableIndex, EntriesOf
  <2> QED
    BY <2>1, <2>5 DEF PassHolders
<1>3. \A k \in entries : \E g \in [HeldRbs(PassHolders(k)) -> 1 .. TotalBudget(k)] :
         \A x, y \in HeldRbs(PassHolders(k)) : g[x] = g[y] => x = y
  <2> SUFFICES ASSUME NEW k \in entries
               PROVE  \E g \in [HeldRbs(PassHolders(k)) -> 1 .. TotalBudget(k)] :
                         \A x, y \in HeldRbs(PassHolders(k)) : g[x] = g[y] => x = y
    OBVIOUS
  <2>1. k \in TableIndex /\ TotalBudget(k) \in Nat
    BY <1>1, TotalBudgetType
  <2>2. /\ IsFiniteSet(HeldRbs(PassHolders(k)))
        /\ Cardinality(HeldRbs(PassHolders(k))) <= TotalBudget(k)
    BY <2>1 DEF Counted, SliceBudget
  <2> QED
    BY <2>1, <2>2, FitsInterval
<1> DEFINE G(k) == CHOOSE g \in [HeldRbs(PassHolders(k)) -> 1 .. TotalBudget(k)] :
                      \A x, y \in HeldRbs(PassHolders(k)) : g[x] = g[y] => x = y
<1>4. \A k \in entries :
         /\ G(k) \in [HeldRbs(PassHolders(k)) -> 1 .. TotalBudget(k)]
         /\ \A x, y \in HeldRbs(PassHolders(k)) : G(k)[x] = G(k)[y] => x = y
  BY <1>3
<1> HIDE DEF G
<1> DEFINE H == HeldRbs(holders)
           by(x) == grant[x[1]].by
           f == [x \in H |-> <<by(x), G(by(x))[x]>>]
<1>5. \A x \in H : by(x) \in entries /\ x \in HeldRbs(PassHolders(by(x)))
  <2> SUFFICES ASSUME NEW x \in H
               PROVE  by(x) \in entries /\ x \in HeldRbs(PassHolders(by(x)))
    OBVIOUS
  <2>1. PICK u \in holders : x \in {u} \X GrantedRbs(u)
    BY HeldMember
  <2>2. x[1] = u
    BY <2>1
  <2>3. \A k : u \in PassHolders(k) => x \in HeldRbs(PassHolders(k))
    BY <2>1, HeldMember
  <2> QED
    BY <1>2, <2>2, <2>3
<1>6. \A x \in H : /\ G(by(x))[x] \in 1 .. TotalBudget(by(x))
                   /\ \A y \in H : by(x) = by(y) /\ G(by(x))[x] = G(by(x))[y] => x = y
  BY <1>4, <1>5
<1>7. \A x \in H : f[x] \in BudgetRbs(entries)
  <2> SUFFICES ASSUME NEW x \in H PROVE f[x] \in BudgetRbs(entries)
    OBVIOUS
  <2>1. f[x] = <<by(x), G(by(x))[x]>>
    OBVIOUS
  <2>2. f[x] \in {by(x)} \X (1 .. TotalBudget(by(x)))
    BY <1>6, <2>1
  <2>3. by(x) \in entries
    BY <1>5
  <2> HIDE DEF f, by
  <2> QED
    BY <2>2, <2>3, BudgetMember
<1>8. \A x, y \in H : f[x] = f[y] => x = y
  BY <1>6
<1>9. f \in Injection(H, BudgetRbs(entries))
  <2>1. f \in [H -> BudgetRbs(entries)]
    BY <1>7
  <2> HIDE DEF f, H
  <2> QED
    BY <1>8, <2>1 DEF Injection, IsInjective
<1>10. IsFiniteSet(BudgetRbs(entries))
  BY <1>1, BudgetFinite
<1> HIDE DEF f
<1> QED
  BY <1>9, <1>10, FS_Injection

\* The inductive invariant behind the quota of an S-NSSAI.
QuotaInv == /\ TypeOK /\ PassIndex /\ Charged /\ SliceBudget /\ IdleClean
            /\ GroupOfBeam /\ LaterBeamsEmpty /\ PassMatches /\ Counted

LEMMA QuotaInvKept == Spec => []QuotaInv
<1>1. Init => QuotaInv
  <2> SUFFICES ASSUME Init PROVE QuotaInv
    OBVIOUS
  <2>1. TypeOK /\ PassIndex
    BY InitType
  <2>2. \A k \in TableIndex : granted[k] = 0 /\ TotalBudget(k) \in Nat
    BY <2>1, TotalBudgetType DEF Init, Zeros
  <2>3. Charged /\ SliceBudget
    BY <2>2 DEF Init, Charged, SliceBudget
  <2>4. IdleClean
    BY DEF Init, IdleClean, Scheduled, NoGrant
  <2> QED
    BY <2>1, <2>3, <2>4, GroupInit DEF QuotaInv
<1>2. QuotaInv /\ [Next]_vars => QuotaInv'
  <2> SUFFICES ASSUME QuotaInv, [Next]_vars PROVE QuotaInv'
    OBVIOUS
  <2>1. TypeOK' /\ PassIndex' /\ Charged' /\ SliceBudget'
    BY TypeStep, BudgetStep DEF QuotaInv
  <2>2. IdleClean'
    BY IdleStep DEF QuotaInv, IdleClean, Scheduled, NoGrant
  <2> QED
    BY <2>1, <2>2, QuotaStep DEF QuotaInv
<1> QED
  BY <1>1, <1>2, PTL DEF Spec

\* For every table, every placement of UEs and every order of the passes, the
\* UEs of a policed S-NSSAI never hold more new-data RBs on a beam than the
\* dedicated ratios of its entries allow: no pass serves a UE of another slice,
\* the last pass serves none that has an entry, and no RB escapes the count.
THEOREM NssaiQuotaKept == Spec => []NssaiQuota
<1>1. QuotaInv /\ TableWhole => NssaiQuota
  BY QuotaFromCounts DEF QuotaInv
<1> QED
  BY <1>1, QuotaInvKept, TableAlwaysWhole, PTL
-----------------------------------------------------------------------------
(* The allocator implements SliceGrants. *)

\* The grants of an S-NSSAI's UEs on the beam, seen from SliceGrants.
DataRbsAgree ==
    \A n \in Nssai : Grants!DataRbs(n, beam, GrantsHeld) = HeldRbs(DataHolders(n))

LEMMA DataRbsHeld == TypeOK => DataRbsAgree
<1> SUFFICES ASSUME TypeOK, NEW n \in Nssai
             PROVE  Grants!DataRbs(n, beam, GrantsHeld) = HeldRbs(DataHolders(n))
  BY DEF DataRbsAgree
<1> DEFINE F == {g \in GrantsHeld : g.data /\ g.beam = beam /\ UeNssai[g.ue] = n}
<1>1. \A u \in UEs : HasData(u) => Scheduled(u)
  BY DEF HasData, Scheduled, ControlPass, Unscheduled
<1>2. \A u : /\ GrantOf(u).ue = u /\ GrantOf(u).beam = cand[u].beam
             /\ GrantOf(u).rbs = GrantedRbs(u) /\ GrantOf(u).data = HasData(u)
  BY DEF GrantOf
<1>3. \A g \in F : \E u \in DataHolders(n) : g = GrantOf(u)
  BY <1>2 DEF GrantsHeld, DataHolders
<1>4. \A u \in DataHolders(n) : GrantOf(u) \in F
  BY <1>1, <1>2 DEF GrantsHeld, DataHolders
<1>5. \A x : (\E g \in F : x \in {g.ue} \X g.rbs)
              <=> \E u \in DataHolders(n) : x \in {u} \X GrantedRbs(u)
  BY <1>2, <1>3, <1>4
<1>6. Grants!DataRbs(n, beam, GrantsHeld) = UNION {{g.ue} \X g.rbs : g \in F}
  BY DEF Grants!DataRbs
<1> HIDE DEF F
<1>7. \A x : x \in UNION {{g.ue} \X g.rbs : g \in F} <=> x \in HeldRbs(DataHolders(n))
  BY <1>5 DEF HeldRbs
<1> QED
  BY <1>6, <1>7

\* The quotas are natural numbers, or there is none.
QuotasTyped == Quotas \in [Nssai -> Nat \cup {Grants!NoQuota}]

LEMMA QuotasType == TypeOK => QuotasTyped
<1> SUFFICES ASSUME TypeOK, NEW n \in Nssai
             PROVE  Cardinality(BudgetRbs(EntriesOf(n))) \in Nat
  BY DEF Quotas, QuotasTyped, Grants!NoQuota
<1>1. EntriesOf(n) \in SUBSET TableIndex
  BY PoliciesType, SchedulerConstants DEF EntriesOf, TableIndex
<1>2. IsFiniteSet(BudgetRbs(EntriesOf(n)))
  BY <1>1, BudgetFinite
<1> QED
  BY <1>2, FS_CardinalityType

LEMMA ViewAfter == TypeOK' => DataRbsAgree' /\ QuotasTyped'
  BY DataRbsHeld, QuotasType, PTL

LEMMA QuotasFrame ==
    ASSUME UNCHANGED table
    PROVE  Quotas' = Quotas
<1>1. dl_slice_policy' = dl_slice_policy /\ Policies' = Policies
  BY DEF table, Policies
<1>2. \A k : TotalBudget(k)' = TotalBudget(k)
  BY <1>1 DEF TotalBudget
<1>3. \A n : EntriesOf(n)' = EntriesOf(n)
  BY <1>1 DEF EntriesOf
<1>4. \A S : BudgetRbs(S)' = BudgetRbs(S)
  BY <1>2 DEF BudgetRbs
<1> QED
  BY <1>3, <1>4 DEF Quotas

LEMMA HeldFrame ==
    ASSUME UNCHANGED <<cand, grant>>
    PROVE  GrantsHeld' = GrantsHeld
<1>1. \A u : GrantOf(u)' = GrantOf(u) /\ Scheduled(u)' = Scheduled(u)
  BY DEF GrantOf, GrantedRbs, HasData, Scheduled
<1> QED
  BY <1>1 DEF GrantsHeld

LEMMA HeldNone == (\A u \in UEs : ~Scheduled(u)) => GrantsHeld = {}
  BY DEF GrantsHeld

LEMMA HeldNoneAfter == (\A u \in UEs : ~Scheduled(u)') => GrantsHeld' = {}
  BY DEF GrantsHeld

\* A block that ends inside a bandwidth part lies in it.
LEMMA InsideInterval ==
    ASSUME NEW first \in Nat, NEW length \in Nat, NEW start \in Nat, NEW size \in Nat,
           start + size <= length
    PROVE  (first + start) .. (first + start + size - 1) \subseteq first .. (first + length - 1)
<1> SUFFICES ASSUME NEW r \in (first + start) .. (first + start + size - 1)
             PROVE  r \in first .. (first + length - 1)
  OBVIOUS
<1> QED
  OBVIOUS

\* A visit that commits RBs is a grant of the abstract specification.
LEMMA CommitGrants ==
    ASSUME TypeOK, TypeOK', GroupOfBeam, ExclusiveAllocation', NssaiQuota',
           phase # "idle", phase' # "idle", Allocating,
           UNCHANGED <<table, cand, group>>,
           NEW u \in UEs, u = Current, 1 <= j, j <= Len(order),
           grant[u].by = Unscheduled,
           NEW pass \in 0 .. RestPass, NEW start \in Nat, NEW size \in Nat,
           CommitAlloc(u, pass, start, size)
    PROVE  Grants!Next
<1>g. PICK g : g = GrantOf(u)'
  OBVIOUS
<1>1. cand[u].beam = beam /\ beam' = beam /\ cand' = cand
  <2>1. j \in 1 .. Len(order) /\ u = order[j]
    BY DEF TypeOK, Current
  <2> QED
    BY <2>1 DEF GroupOfBeam, group
<1>2. /\ grant'[u] = [by |-> pass, start |-> start, size |-> size]
      /\ \A v \in UEs \ {u} : grant'[v] = grant[v]
  BY DEF CommitAlloc, TypeOK
<1>3. ~Scheduled(u) /\ Scheduled(u)'
  BY <1>2 DEF Scheduled, Unscheduled
<1>4. \A v \in UEs \ {u} : Scheduled(v)' = Scheduled(v) /\ GrantOf(v)' = GrantOf(v)
  BY <1>1, <1>2 DEF Scheduled, GrantOf, GrantedRbs, HasData
<1>5. GrantsHeld' = GrantsHeld \cup {g}
  BY <1>g, <1>3, <1>4 DEF GrantsHeld
<1>6. \A v : /\ GrantOf(v).ue = v /\ GrantOf(v).beam = cand[v].beam
             /\ GrantOf(v).rbs = GrantedRbs(v) /\ GrantOf(v).symbols = cand[v].sl
  BY DEF GrantOf
<1>7. /\ g.ue = u /\ g.beam = beam /\ g.rbs = GrantedRbs(u)'
      /\ g.symbols = cand[u].sl /\ g.data = HasData(u)'
  BY <1>g, <1>1 DEF GrantOf
<1>8. g.rbs \subseteq Bwp[u]
  <2>1. grant'[u].start + grant'[u].size <= BwpSize[u]
    BY <1>3 DEF ExclusiveAllocation
  <2>2. GrantedRbs(u)' = (BwpStart[u] + start) .. (BwpStart[u] + start + size - 1)
    BY <1>2 DEF GrantedRbs
  <2>3. BwpStart[u] \in Nat /\ BwpSize[u] \in Nat /\ start + size <= BwpSize[u]
    BY <1>2, <2>1, SchedulerConstants
  <2>4. (BwpStart[u] + start) .. (BwpStart[u] + start + size - 1)
           \subseteq BwpStart[u] .. (BwpStart[u] + BwpSize[u] - 1)
    BY <2>3, InsideInterval
  <2>5. Bwp[u] = BwpStart[u] .. (BwpStart[u] + BwpSize[u] - 1)
    BY DEF Bwp
  <2> QED
    BY <1>7, <2>2, <2>4, <2>5, Zenon
<1>9. \A h \in GrantsHeld : h.ue # g.ue /\ ~Grants!Overlap(g, h)
  <2> SUFFICES ASSUME NEW v \in UEs, Scheduled(v)
               PROVE  v # u /\ ~Grants!Overlap(g, GrantOf(v))
    BY <1>6, <1>7 DEF GrantsHeld
  <2>1. v # u
    BY <1>3
  <2>2. cand[u].beam = cand[v].beam => AllocatedArea(u)' \cap AllocatedArea(v)' = {}
    BY <1>1, <1>3, <1>4, <2>1 DEF ExclusiveAllocation
  <2>3. /\ AllocatedArea(u)' = g.rbs \X g.symbols
        /\ AllocatedArea(v)' = GrantOf(v).rbs \X GrantOf(v).symbols
    <3>1. AllocatedArea(u)' = GrantedRbs(u)' \X cand[u].sl
      BY <1>1 DEF AllocatedArea, Area, GrantedRbs
    <3>2. AllocatedArea(v)' = GrantedRbs(v) \X cand[v].sl
      BY <1>1, <1>2, <2>1 DEF AllocatedArea, Area, GrantedRbs
    <3> QED
      BY <1>6, <1>7, <3>1, <3>2
  <2> QED
    BY <1>1, <1>6, <1>7, <2>1, <2>2, <2>3 DEF Grants!Overlap
<1>10. Quotas' = Quotas
  BY QuotasFrame
<1>11. ASSUME g.data, Quotas[UeNssai[u]] # Grants!NoQuota
       PROVE  Cardinality(Grants!DataRbs(UeNssai[u], g.beam, GrantsHeld \cup {g}))
                 <= Quotas[UeNssai[u]]
  <2> DEFINE n == UeNssai[u]
  <2>1. n \in Nssai
    BY SchedulerConstants
  <2>2. Quotas'[n] = Cardinality(BudgetRbs(EntriesOf(n)))' /\ EntriesOf(n)' # {}
    BY <1>10, <1>11, <2>1 DEF Quotas, Grants!NoQuota
  <2>3. Cardinality(HeldRbs(DataHolders(n)))' <= Quotas'[n]
    BY <2>1, <2>2 DEF NssaiQuota
  <2>4. \A m \in Nssai : Grants!DataRbs(m, beam', GrantsHeld') = HeldRbs(DataHolders(m))'
    BY ViewAfter DEF DataRbsAgree
  <2>5. Grants!DataRbs(n, beam', GrantsHeld') = HeldRbs(DataHolders(n))'
    BY <2>1, <2>4
  <2> HIDE DEF n
  <2> QED
    BY <1>1, <1>5, <1>7, <1>10, <2>3, <2>5 DEF n
<1>12. Grants!Grant(g)
  <2>1. g.data => Grants!WithinQuota(UeNssai[g.ue], g.beam, GrantsHeld \cup {g})
    <3>2. g.data /\ Quotas[UeNssai[g.ue]] # Grants!NoQuota =>
            Cardinality(Grants!DataRbs(UeNssai[g.ue], g.beam, GrantsHeld \cup {g}))
               <= Quotas[UeNssai[g.ue]]
      BY <1>7, <1>11
    <3>n. PICK n : n = UeNssai[g.ue]
      OBVIOUS
    <3>b. PICK b : b = g.beam
      OBVIOUS
    <3>h. PICK H : H = GrantsHeld \cup {g}
      OBVIOUS
    <3>3. Grants!WithinQuota(n, b, H) <=>
            (Quotas[n] # Grants!NoQuota => Cardinality(Grants!DataRbs(n, b, H)) <= Quotas[n])
      BY DEF Grants!WithinQuota, Grants!Cardinality, Cardinality
    <3> QED
      BY <3>2, <3>n, <3>b, <3>h, <3>3
  <2>2. (phase # "idle")' = (phase # "idle")
    OBVIOUS
  <2>3. g.ue \in UEs /\ g.rbs \subseteq Bwp[g.ue]
    BY <1>7, <1>8
  <2>4. UNCHANGED <<phase # "idle", Quotas>>
    BY <1>10, <2>2
  <2> QED
    BY <1>5, <1>9, <2>1, <2>3, <2>4 DEF Grants!Grant
<1>13. g \in GrantsHeld' \ GrantsHeld
  BY <1>5, <1>9
<1> QED
  BY <1>12, <1>13 DEF Grants!Next

LEMMA GrantsStep ==
    ASSUME TypeOK, TypeOK', PassIndex, IdleClean, IdleClean', GroupOfBeam,
           ExclusiveAllocation', NssaiQuota', [Next]_vars
    PROVE  [Grants!Next]_(Grants!vars)
<1>1. CASE \E list \in CtrlLists : WriteCtrlRcSm(list)
  <2>1. phase = "idle" /\ phase' = "idle" /\ UNCHANGED <<cand, grant>>
    BY <1>1 DEF WriteCtrlRcSm, slot
  <2>2. Quotas' \in [Nssai -> Nat \cup {Grants!NoQuota}]
    BY ViewAfter DEF QuotasTyped
  <2> QED
    BY <2>1, <2>2, HeldFrame DEF Grants!Next, Grants!Install
<1>2. CASE StartSlot
  <2>1. phase = "idle" /\ phase' # "idle" /\ UNCHANGED table /\ GrantsHeld = {}
    BY <1>2, HeldNone DEF StartSlot, IdleClean
  <2>2. GrantsHeld' = {}
    BY <1>2, HeldNoneAfter DEF StartSlot, Scheduled, NoGrant
  <2> QED
    BY <2>1, <2>2, QuotasFrame DEF Grants!Next, Grants!Open
<1>3. CASE EndSlot
  <2>1. phase # "idle" /\ phase' = "idle" /\ UNCHANGED table
    BY <1>3 DEF EndSlot
  <2>2. GrantsHeld' = {}
    BY <2>1, HeldNoneAfter DEF IdleClean
  <2> QED
    BY <2>1, <2>2, QuotasFrame DEF Grants!Next, Grants!Close
<1>4. CASE StartGroup
  BY <1>4, QuotasFrame, HeldFrame DEF StartGroup, slot, Grants!vars
<1>5. CASE /\ UNCHANGED <<table, cand, grant, granted, group>>
           /\ phase' = "idle" <=> phase = "idle"
  BY <1>5, QuotasFrame, HeldFrame DEF Grants!vars
<1>6. ASSUME Allocating, phase' # "idle", UNCHANGED <<table, cand, group>>,
             NEW u \in UEs, u = Current, 1 <= j, j <= Len(order),
             grant[u].by = Unscheduled,
             NEW pass \in 0 .. RestPass, NEW start \in Nat, NEW size \in Nat,
             CommitAlloc(u, pass, start, size)
      PROVE  Grants!Next
  <2>1. phase # "idle"
    BY <1>6 DEF Allocating
  <2> QED
    BY <1>6, <2>1, CommitGrants
<1> QED
  BY <1>1, <1>2, <1>3, <1>4, <1>5, <1>6, GroupStep

\* GrantsSpec: whatever the passes do, the MAC only ever installs quotas between
\* two slots, opens a slot, gives one UE RBs of its bandwidth part that nobody
\* else has on its beam and that fit the quota of its S-NSSAI, or closes the slot:
\* nr_dl_slice_prb_policy implements SliceGrants for every set of UEs, every table
\* and every carrier.
THEOREM ImplementsGrants == Spec => GrantsSpec
<1>1. Init => Grants!Init
  <2> SUFFICES ASSUME Init PROVE Grants!Init
    OBVIOUS
  <2>1. \A n : EntriesOf(n) = {}
    BY DEF Init, EntriesOf, Policies
  <2>2. GrantsHeld = {}
    BY HeldNone DEF Init, Scheduled, NoGrant
  <2> QED
    BY <2>1, <2>2 DEF Init, Quotas, Grants!Init, Grants!NoQuota
<1>2. /\ QuotaInv /\ QuotaInv' /\ ExclusiveAllocation' /\ NssaiQuota' /\ [Next]_vars
      => [Grants!Next]_(Grants!vars)
  BY GrantsStep DEF QuotaInv
<1> QED
  BY <1>1, <1>2, QuotaInvKept, ResourceBlocksExclusive, NssaiQuotaKept, PTL
  DEF Spec, GrantsSpec, Grants!Spec
=============================================================================
