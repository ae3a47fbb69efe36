------------------------- MODULE GpuWorkBudgetProofs ------------------------
(***************************************************************************)
(* The budget of the GPU executor keeps its promise for every limit and    *)
(* every set of permits.                                                   *)
(***************************************************************************)
EXTENDS GpuWorkBudget, FiniteSetTheorems, TLAPS

\* The counts are those of finite sets, which is what makes them move by one.
BudgetInv ==
  /\ IsFiniteSet(held)
  /\ BudgetCountsPermits

\* With at most one element, a set is empty or is any one of its elements.
LEMMA AtMostOne ==
  ASSUME NEW S, IsFiniteSet(S), Cardinality(S) <= 1, NEW x \in S
  PROVE  S = {x}
<1>1. IsFiniteSet(S \ {x}) /\ Cardinality(S \ {x}) = Cardinality(S) - 1
  BY FS_RemoveElement
<1>2. Cardinality(S \ {x}) \in Nat /\ Cardinality(S) \in Nat
  BY <1>1, FS_CardinalityType
<1>3. Cardinality(S \ {x}) = 0
  BY <1>1, <1>2
<1>4. S \ {x} = {}
  BY <1>1, <1>3, FS_EmptySet
<1> QED BY <1>4

\* A new permit is counted, and is the only one that is not released.
LEMMA ReserveKeeps ==
  ASSUME Limit \in Nat, BudgetInv, NEW p \in Permit, Reserve(p)
  PROVE  BudgetInv'
<1>1. held = released
  BY DEF BudgetInv, BudgetCountsPermits, Reserve
<1>2. IsFiniteSet(held') /\ Cardinality(held') = Cardinality(held) + 1
  BY FS_AddElement DEF BudgetInv, Reserve
<1>3. Cardinality(held) \in Nat
  BY FS_CardinalityType DEF BudgetInv
<1>4. held' \ released' = {p}
  BY <1>1 DEF Reserve
<1>5. Cardinality({p}) = 1
  BY FS_Singleton
<1>6. active' = Cardinality(held') /\ active' <= Limit
  BY <1>2, <1>3 DEF BudgetInv, BudgetCountsPermits, Reserve
<1>7. held' \subseteq Permit /\ released' \subseteq held'
  BY DEF BudgetInv, BudgetCountsPermits, Reserve
<1>8. preflight_blocked' /\ held' # released'
  BY <1>4 DEF Reserve
<1> QED
  BY <1>2, <1>4, <1>5, <1>6, <1>7, <1>8 DEF BudgetInv, BudgetCountsPermits

\* Releasing the one permit that is not released unblocks the frontend.
LEMMA ReleaseKeeps ==
  ASSUME BudgetInv, NEW p, ReleasePreflight(p)
  PROVE  BudgetInv'
<1>1. IsFiniteSet(held \ released)
  BY FS_Difference DEF BudgetInv
<1>2. held \ released = {p}
  BY <1>1, AtMostOne DEF BudgetInv, BudgetCountsPermits, ReleasePreflight
<1>3. held' = released'
  BY <1>2 DEF BudgetInv, BudgetCountsPermits, ReleasePreflight
<1>4. Cardinality(held' \ released') = 0
  <2>1. held' \ released' = {}
    BY <1>3
  <2> QED BY <2>1, FS_EmptySet
<1>5. ~preflight_blocked'
  BY DEF ReleasePreflight
<1> QED
  BY <1>3, <1>4, <1>5 DEF BudgetInv, BudgetCountsPermits, ReleasePreflight

\* Permits that die together are each counted once, and the block goes with
\* the permit that caused it.
LEMMA DropKeeps ==
  ASSUME Limit \in Nat, BudgetInv, NEW ps \in SUBSET held, Drop(ps)
  PROVE  BudgetInv'
<1>1. IsFiniteSet(held \ ps) /\ Cardinality(held \ ps) = Cardinality(held) - Cardinality(ps)
  <2>1. IsFiniteSet(ps)
    BY FS_Subset DEF BudgetInv
  <2>2. held \cap ps = ps
    OBVIOUS
  <2> QED BY <2>1, <2>2, FS_Difference DEF BudgetInv
<1>2. /\ Cardinality(held) \in Nat
      /\ Cardinality(ps) \in Nat
      /\ Cardinality(held \ ps) \in Nat
  BY <1>1, FS_Subset, FS_CardinalityType DEF BudgetInv
<1>3. active' = Cardinality(held') /\ active' <= Limit
  BY <1>1, <1>2 DEF BudgetInv, BudgetCountsPermits, Drop
<1>4. held' \subseteq Permit /\ released' \subseteq held'
  BY DEF BudgetInv, BudgetCountsPermits, Drop
<1>5. IsFiniteSet(held \ released) /\ Cardinality(held \ released) \in Nat
  BY FS_Difference, FS_CardinalityType DEF BudgetInv
<1>6. Cardinality(held' \ released') <= 1
  <2>1. held' \ released' \subseteq held \ released
    BY DEF Drop
  <2>2. Cardinality(held' \ released') \in Nat
    BY <2>1, <1>5, FS_Subset, FS_CardinalityType
  <2> QED
    BY <2>1, <2>2, <1>5, FS_Subset DEF BudgetInv, BudgetCountsPermits
<1>7. preflight_blocked' <=> held' # released'
  <2>1. CASE ps \subseteq released
    BY <2>1 DEF BudgetInv, BudgetCountsPermits, Drop
  <2>2. CASE ~(ps \subseteq released)
    <3>1. PICK x \in held \ released : x \in ps
      BY <2>2
    <3>2. held \ released = {x}
      BY <1>5, AtMostOne DEF BudgetInv, BudgetCountsPermits
    <3>3. held' = released'
      BY <3>1, <3>2 DEF BudgetInv, BudgetCountsPermits, Drop
    <3> QED BY <2>2, <3>3 DEF Drop
  <2> QED BY <2>1, <2>2
<1> QED
  BY <1>1, <1>3, <1>4, <1>6, <1>7 DEF BudgetInv, BudgetCountsPermits, Drop

\* The count of GpuWorkBudget agrees with the permits that exist, never passes
\* MAX_GPU_SUBMISSIONS_IN_FLIGHT, and the frontend is blocked exactly while the
\* one permit that is not released exists, however permits are dropped.
THEOREM BudgetSafety ==
  ASSUME Limit \in Nat
  PROVE  Spec => []BudgetCountsPermits
<1>1. Init => BudgetInv
  <2>1. Cardinality({}) = 0 /\ IsFiniteSet({}) /\ {} \ {} = {}
    BY FS_EmptySet
  <2> QED BY <2>1 DEF Init, BudgetInv, BudgetCountsPermits
<1>2. BudgetInv /\ [Next]_vars => BudgetInv'
  <2> SUFFICES ASSUME BudgetInv, [Next]_vars
               PROVE  BudgetInv'
    OBVIOUS
  <2>1. ASSUME NEW p \in Permit, Reserve(p)
        PROVE  BudgetInv'
    BY <2>1, ReserveKeeps
  <2>2. ASSUME NEW p \in Permit, ReleasePreflight(p)
        PROVE  BudgetInv'
    BY <2>2, ReleaseKeeps
  <2>3. ASSUME NEW ps \in SUBSET held, Drop(ps)
        PROVE  BudgetInv'
    BY <2>3, DropKeeps
  <2>4. CASE Stop
    BY <2>4 DEF Stop, BudgetInv, BudgetCountsPermits
  <2>5. CASE UNCHANGED vars
    BY <2>5 DEF vars, BudgetInv, BudgetCountsPermits
  <2> QED BY <2>1, <2>2, <2>3, <2>4, <2>5 DEF Next
<1>3. BudgetInv => BudgetCountsPermits
  BY DEF BudgetInv
<1> QED BY <1>1, <1>2, <1>3, PTL DEF Spec
=============================================================================
