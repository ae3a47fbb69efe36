------------------------ MODULE ExecutionGateProofs ------------------------
(***************************************************************************)
(* ExecutionGate for any finite number of threads: GateInvariant is        *)
(* inductive, and no reader overtakes a pending transition.                *)
(***************************************************************************)
EXTENDS ExecutionGate, FiniteSetTheorems, TLAPS

\* notify_all moves sleepers only: it changes neither who runs a slice nor who
\* is responsible for a closed gate.
LEMMA NotifyAllFrame ==
  ASSUME NEW pcs \in [Thread -> PC]
  PROVE  /\ notify_all(pcs) \in [Thread -> PC]
         /\ \A t \in Thread :
              /\ notify_all(pcs)[t] = "shared" <=> pcs[t] = "shared"
              /\ notify_all(pcs)[t] = "exclusive" <=> pcs[t] = "exclusive"
              /\ notify_all(pcs)[t] \in Closing <=> pcs[t] \in Closing
  BY DEF notify_all, PC, Asleep, Notified, Closing

\* The running slices are a finite set.
LEMMA SharedFinite == IsFiniteSet(Shared)
  BY GateAssumption, FS_Subset DEF Shared

\* A step that leaves the slices, the epoch and the guards alone keeps their
\* part of the invariant.
LEMMA SlicesFrame ==
  ASSUME GateInvariant, TypeOK',
         \A t \in Thread : pc'[t] = "shared" <=> pc[t] = "shared",
         UNCHANGED <<active_shared, epoch, guard>>
  PROVE  /\ active_shared' = Cardinality(Shared')
         /\ LeaseEpochCurrent'
  <1>1. Shared' = Shared
    BY DEF Shared
  <1>2. QED
    BY <1>1 DEF GateInvariant, GateConsistent, LeaseEpochCurrent

\* The invariant holds at the start.
LEMMA GateInit == Init => GateInvariant
  <1> SUFFICES ASSUME Init PROVE GateInvariant
    OBVIOUS
  <1>1. Shared = {}
    BY DEF Init, Shared
  <1>2. TypeOK
    <2>1. pc \in [Thread -> PC] /\ transition_pending \in BOOLEAN
      BY DEF Init, PC
    <2>2. /\ epoch \in 1..MaxEpoch
          /\ active_shared \in Nat
          /\ guard \in [Thread -> 0..MaxEpoch]
      BY GateAssumption DEF Init
    <2>3. QED
      BY <2>1, <2>2 DEF TypeOK
  <1>3. GateConsistent
    BY <1>1, FS_EmptySet DEF Init, GateConsistent, Closing
  <1>4. Exclusion /\ LeaseEpochCurrent
    BY <1>1 DEF Init, Exclusion, LeaseEpochCurrent
  <1>5. QED
    BY <1>2, <1>3, <1>4 DEF GateInvariant

\* acquire_shared admits a slice only while no transition is pending.
LEMMA AcquireSharedStep ==
  ASSUME GateInvariant, NEW t \in Thread, acquire_shared(t)
  PROVE  GateInvariant'
  <1> USE DEF GateInvariant
  <1>1. CASE transition_pending
    <2>1. TypeOK'
      BY <1>1 DEF TypeOK, acquire_shared, Goto, PC, Asleep
    <2>2. \A u \in Thread : /\ pc'[u] = "shared" <=> pc[u] = "shared"
                            /\ pc'[u] = "exclusive" <=> pc[u] = "exclusive"
                            /\ pc'[u] \in Closing <=> pc[u] \in Closing
      BY <1>1 DEF TypeOK, acquire_shared, Goto, Closing
    <2>3. UNCHANGED <<active_shared, transition_pending, epoch, guard>>
      BY <1>1 DEF acquire_shared
    <2>4. active_shared' = Cardinality(Shared') /\ LeaseEpochCurrent'
      BY <2>1, <2>2, <2>3, SlicesFrame
    <2>5. GateConsistent'
      BY <2>2, <2>3, <2>4 DEF GateConsistent
    <2>6. Exclusion'
      BY <2>2 DEF Exclusion, Shared
    <2>7. QED
      BY <2>1, <2>4, <2>5, <2>6
  <1>2. CASE ~transition_pending
    <2>1. /\ active_shared' = active_shared + 1
          /\ guard' = [guard EXCEPT ![t] = epoch]
          /\ pc' = [pc EXCEPT ![t] = "shared"]
          /\ pc[t] # "shared"
          /\ UNCHANGED <<transition_pending, epoch>>
      BY <1>2 DEF acquire_shared, Goto
    <2>2. TypeOK'
      BY <2>1 DEF TypeOK, PC
    <2>3. Shared' = Shared \cup {t} /\ t \notin Shared
      BY <2>1 DEF Shared, TypeOK
    <2>4. Cardinality(Shared') = Cardinality(Shared) + 1
      BY <2>3, SharedFinite, FS_AddElement
    <2>5. \A u \in Thread : pc[u] \notin Closing /\ pc'[u] \notin Closing
      BY <1>2, <2>1 DEF GateConsistent, Closing, TypeOK
    <2>6. GateConsistent'
      BY <1>2, <2>1, <2>4, <2>5 DEF GateConsistent
    <2>7. Exclusion'
      BY <2>5 DEF Exclusion, Closing
    <2>8. LeaseEpochCurrent'
      BY <2>1, <2>3 DEF LeaseEpochCurrent, TypeOK, Shared
    <2>9. QED
      BY <2>2, <2>6, <2>7, <2>8
  <1>3. QED
    BY <1>1, <1>2

\* The drop of a shared guard.
LEMMA ReleaseSharedStep ==
  ASSUME GateInvariant, NEW t \in Thread, release_shared(t)
  PROVE  GateInvariant'
  <1> USE DEF GateInvariant
  <1> DEFINE left == [pc EXCEPT ![t] = "idle"]
  <1>1. left \in [Thread -> PC]
    BY DEF TypeOK, PC
  <1>2. /\ pc' \in [Thread -> PC]
        /\ \A u \in Thread : /\ pc'[u] = "shared" <=> left[u] = "shared"
                             /\ pc'[u] = "exclusive" <=> left[u] = "exclusive"
                             /\ pc'[u] \in Closing <=> left[u] \in Closing
    <2>1. CASE active_shared' = 0
      <3>1. pc' = notify_all(left)
        BY <2>1 DEF release_shared
      <3> HIDE DEF left
      <3>2. QED
        BY <1>1, <3>1, NotifyAllFrame
    <2>2. CASE active_shared' # 0
      <3>1. pc' = left
        BY <2>2 DEF release_shared
      <3>2. QED
        BY <1>1, <3>1
    <2>3. QED
      BY <2>1, <2>2
  <1>3. /\ pc[t] = "shared"
        /\ active_shared' = active_shared - 1
        /\ UNCHANGED <<transition_pending, epoch, guard>>
    BY DEF release_shared
  <1>4. Shared' = Shared \ {t} /\ t \in Shared
    BY <1>2, <1>3 DEF Shared, TypeOK
  <1>5. Cardinality(Shared') = Cardinality(Shared) - 1 /\ Cardinality(Shared) > 0
    <2>1. Cardinality(Shared \ {t}) = Cardinality(Shared) - 1
      BY <1>4, SharedFinite, FS_RemoveElement
    <2>2. Cardinality(Shared) \in Nat /\ Cardinality(Shared) # 0
      BY <1>4, SharedFinite, FS_CardinalityType, FS_EmptySet
    <2>3. QED
      BY <1>4, <2>1, <2>2
  <1>6. TypeOK'
    BY <1>2, <1>3, <1>5, SharedFinite, FS_CardinalityType
    DEF TypeOK, GateConsistent
  <1>7. \A u \in Thread : pc'[u] \in Closing <=> pc[u] \in Closing
    BY <1>2, <1>3 DEF Closing, TypeOK
  <1>8. GateConsistent'
    BY <1>3, <1>5, <1>7 DEF GateConsistent
  <1>9. Exclusion'
    BY <1>2, <1>3, <1>4 DEF Exclusion, TypeOK
  <1>10. LeaseEpochCurrent'
    BY <1>3, <1>4 DEF LeaseEpochCurrent
  <1>11. QED
    BY <1>6, <1>8, <1>9, <1>10

\* The first half of acquire_exclusive.
LEMMA CloseAdmissionStep ==
  ASSUME GateInvariant, NEW t \in Thread, close_admission(t)
  PROVE  GateInvariant'
  <1> USE DEF GateInvariant
  <1>1. /\ pc[t] \in {"idle", "exclusive_notified"}
        /\ UNCHANGED <<active_shared, epoch, guard>>
    BY DEF close_admission
  <1>2. PICK place \in {"exclusive_asleep", "notifying", "drain_notified"} :
          /\ pc' = [pc EXCEPT ![t] = place]
          /\ transition_pending' = TRUE
          /\ place \in Closing <=> ~transition_pending
    BY DEF close_admission, Goto, Closing, TypeOK
  <1>3. TypeOK'
    BY <1>1, <1>2 DEF TypeOK, PC, Asleep, Notified
  <1>4. \A u \in Thread : /\ pc'[u] = "shared" <=> pc[u] = "shared"
                          /\ pc'[u] = "exclusive" <=> pc[u] = "exclusive"
    BY <1>1, <1>2 DEF TypeOK
  <1>5. active_shared' = Cardinality(Shared') /\ LeaseEpochCurrent'
    BY <1>1, <1>3, <1>4, SlicesFrame
  <1>6. GateConsistent'
    <2>1. \A u \in Thread \ {t} : pc'[u] = pc[u]
      BY <1>2 DEF TypeOK
    <2>2. pc'[t] = place /\ pc[t] \notin Closing
      BY <1>1, <1>2 DEF TypeOK, Closing
    <2>3. CASE transition_pending
      BY <1>2, <1>5, <2>1, <2>2, <2>3 DEF GateConsistent
    <2>4. CASE ~transition_pending
      BY <1>2, <1>5, <2>1, <2>2, <2>4 DEF GateConsistent
    <2>5. QED
      BY <2>3, <2>4
  <1>7. Exclusion'
    BY <1>4 DEF Exclusion, Shared
  <1>8. QED
    BY <1>3, <1>5, <1>6, <1>7

\* The notifier, and the wait for the last slice: the gate is entered when the
\* count is zero, and then no slice runs.
LEMMA DrainStep ==
  ASSUME GateInvariant, NEW t \in Thread, notify_transition(t) \/ drain(t)
  PROVE  GateInvariant'
  <1> USE DEF GateInvariant
  <1>1. UNCHANGED <<active_shared, transition_pending, epoch, guard>>
    BY DEF notify_transition, drain
  <1>2. PICK place \in {"drain_notified", "drain_asleep", "exclusive"} :
          /\ pc' = [pc EXCEPT ![t] = place]
          /\ place = "exclusive" => active_shared = 0
    BY DEF notify_transition, drain, Goto
  <1>3. pc[t] \in {"notifying", "drain_notified"}
    BY DEF notify_transition, drain
  <1>4. TypeOK'
    BY <1>1, <1>2 DEF TypeOK, PC, Asleep, Notified
  <1>5. \A u \in Thread : /\ pc'[u] = "shared" <=> pc[u] = "shared"
                          /\ pc'[u] \in Closing <=> pc[u] \in Closing
    BY <1>2, <1>3 DEF TypeOK, Closing
  <1>6. active_shared' = Cardinality(Shared') /\ LeaseEpochCurrent'
    BY <1>1, <1>4, <1>5, SlicesFrame
  <1>7. GateConsistent'
    BY <1>1, <1>5, <1>6 DEF GateConsistent
  <1>8. Exclusion'
    <2> SUFFICES ASSUME NEW u \in Thread, pc'[u] = "exclusive"
                 PROVE  /\ Shared' = {}
                        /\ \A w \in Thread : pc'[w] = "exclusive" => w = u
      BY DEF Exclusion
    <2>1. \A w \in Thread : pc'[w] = "exclusive" => w = u
      BY <1>7 DEF GateConsistent, Closing
    <2>2. u = t
      BY <1>3, <1>5, <1>7 DEF GateConsistent, Closing
    <2>3. active_shared' = 0
      BY <1>1, <1>2, <2>2 DEF TypeOK
    <2>4. IsFiniteSet(Shared')
      BY GateAssumption, FS_Subset DEF Shared
    <2>5. Shared' = {}
      BY <1>6, <2>3, <2>4, FS_EmptySet
    <2>6. QED
      BY <2>1, <2>5
  <1>9. QED
    BY <1>4, <1>6, <1>7, <1>8

\* The drop of the exclusive guard: the epoch may advance, but no slice that
\* carries the old one is running.
LEMMA ReleaseExclusiveStep ==
  ASSUME GateInvariant, NEW t \in Thread, release_exclusive(t)
  PROVE  GateInvariant'
  <1> USE DEF GateInvariant
  <1> DEFINE left == [pc EXCEPT ![t] = "idle"]
  <1>1. left \in [Thread -> PC]
    BY DEF TypeOK, PC
  <1>2. pc' = notify_all(left)
    BY DEF release_exclusive
  <1>3. /\ pc' \in [Thread -> PC]
        /\ \A u \in Thread : /\ pc'[u] = "shared" <=> left[u] = "shared"
                             /\ pc'[u] = "exclusive" <=> left[u] = "exclusive"
                             /\ pc'[u] \in Closing <=> left[u] \in Closing
    <2> HIDE DEF left
    <2>1. QED
      BY <1>1, <1>2, NotifyAllFrame
  <1>4. /\ pc[t] = "exclusive"
        /\ transition_pending' = FALSE
        /\ epoch' \in 1..MaxEpoch
        /\ UNCHANGED <<active_shared, guard>>
    BY DEF release_exclusive, TypeOK
  <1>5. TypeOK'
    BY <1>3, <1>4 DEF TypeOK
  <1>6. Shared = {} /\ Shared' = {}
    BY <1>3, <1>4 DEF Shared, Exclusion, TypeOK
  <1>7. \A u \in Thread : pc'[u] \notin Closing
    BY <1>3, <1>4 DEF GateConsistent, Closing, TypeOK
  <1>8. GateConsistent'
    BY <1>4, <1>6, <1>7 DEF GateConsistent
  <1>9. Exclusion' /\ LeaseEpochCurrent'
    BY <1>6, <1>7 DEF Exclusion, LeaseEpochCurrent, Closing
  <1>10. QED
    BY <1>5, <1>8, <1>9

\* A spurious wakeup only makes its thread look at the state again.
LEMMA SpuriousWakeupStep ==
  ASSUME GateInvariant, NEW t \in Thread, SpuriousWakeup(t)
  PROVE  GateInvariant'
  <1> USE DEF GateInvariant
  <1>1. /\ pc' = [pc EXCEPT ![t] = notify_all(pc)[t]]
        /\ UNCHANGED <<active_shared, transition_pending, epoch, guard>>
    BY DEF SpuriousWakeup, Goto
  <1>2. /\ notify_all(pc) \in [Thread -> PC]
        /\ \A u \in Thread :
             /\ notify_all(pc)[u] = "shared" <=> pc[u] = "shared"
             /\ notify_all(pc)[u] = "exclusive" <=> pc[u] = "exclusive"
             /\ notify_all(pc)[u] \in Closing <=> pc[u] \in Closing
    BY NotifyAllFrame DEF TypeOK
  <1>3. TypeOK'
    BY <1>1, <1>2 DEF TypeOK
  <1>4. \A u \in Thread : /\ pc'[u] = "shared" <=> pc[u] = "shared"
                          /\ pc'[u] = "exclusive" <=> pc[u] = "exclusive"
                          /\ pc'[u] \in Closing <=> pc[u] \in Closing
    BY <1>1, <1>2 DEF TypeOK
  <1>5. active_shared' = Cardinality(Shared') /\ LeaseEpochCurrent'
    BY <1>1, <1>3, <1>4, SlicesFrame
  <1>6. GateConsistent'
    BY <1>1, <1>4, <1>5 DEF GateConsistent
  <1>7. Exclusion'
    BY <1>4 DEF Exclusion, Shared
  <1>8. QED
    BY <1>3, <1>5, <1>6, <1>7

\* A step of the gate keeps the invariant.
LEMMA GateStep == GateInvariant /\ [Next]_vars => GateInvariant'
  <1> SUFFICES ASSUME GateInvariant, [Next]_vars
               PROVE  GateInvariant'
    OBVIOUS
  <1>1. CASE Next
    <2> PICK t \in Thread : Step(t) \/ Enter(t) \/ SpuriousWakeup(t)
      BY <1>1 DEF Next
    <2>1. CASE acquire_shared(t)
      BY <2>1, AcquireSharedStep
    <2>2. CASE close_admission(t)
      BY <2>2, CloseAdmissionStep
    <2>3. CASE release_shared(t)
      BY <2>3, ReleaseSharedStep
    <2>4. CASE notify_transition(t) \/ drain(t)
      BY <2>4, DrainStep
    <2>5. CASE release_exclusive(t)
      BY <2>5, ReleaseExclusiveStep
    <2>6. CASE SpuriousWakeup(t)
      BY <2>6, SpuriousWakeupStep
    <2>7. QED
      BY <2>1, <2>2, <2>3, <2>4, <2>5, <2>6 DEF Step, Enter
  <1>2. CASE UNCHANGED vars
    BY <1>2 DEF vars, GateInvariant, TypeOK, GateConsistent, Exclusion,
                LeaseEpochCurrent, Shared
  <1>3. QED
    BY <1>1, <1>2

\* The gate keeps slices and transitions apart, and every slice runs under the
\* current epoch, for any number of threads.
THEOREM GateSafety == Spec => []GateInvariant
  BY GateInit, GateStep, PTL DEF Spec


\* acquire_exclusive: a pending transition is not overtaken by a new slice.
THEOREM GateNotOvertaken == Spec => NoOvertaking
  <1>1. GateInvariant /\ [Next]_vars =>
          [transition_pending /\ transition_pending' => Shared' \subseteq Shared]_vars
    <2> SUFFICES ASSUME GateInvariant, Next, transition_pending
                 PROVE  Shared' \subseteq Shared
      BY DEF vars
    <2> PICK t \in Thread : Step(t) \/ Enter(t) \/ SpuriousWakeup(t)
      BY DEF Next
    <2> USE DEF GateInvariant, TypeOK
    <2>1. CASE acquire_shared(t)
      BY <2>1 DEF acquire_shared, Goto, Shared
    <2>2. CASE close_admission(t)
      BY <2>2 DEF close_admission, Goto, Shared
    <2>3. CASE release_shared(t)
      <3> DEFINE left == [pc EXCEPT ![t] = "idle"]
      <3>1. left \in [Thread -> PC]
        BY DEF PC
      <3>2. \A u \in Thread : left[u] = "shared" => pc[u] = "shared"
        OBVIOUS
      <3>3. pc' = left \/ pc' = notify_all(left)
        BY <2>3 DEF release_shared
      <3> HIDE DEF left
      <3>4. \A u \in Thread : pc'[u] = "shared" => left[u] = "shared"
        BY <3>1, <3>3, NotifyAllFrame
      <3>5. QED
        BY <3>2, <3>4 DEF Shared
    <2>4. CASE notify_transition(t) \/ drain(t)
      BY <2>4 DEF notify_transition, drain, Goto, Shared
    <2>5. CASE release_exclusive(t)
      <3> DEFINE left == [pc EXCEPT ![t] = "idle"]
      <3>1. left \in [Thread -> PC]
        BY DEF PC
      <3>2. \A u \in Thread : left[u] = "shared" => pc[u] = "shared"
        OBVIOUS
      <3>3. pc' = notify_all(left)
        BY <2>5 DEF release_exclusive
      <3> HIDE DEF left
      <3>4. \A u \in Thread : pc'[u] = "shared" => left[u] = "shared"
        BY <3>1, <3>3, NotifyAllFrame
      <3>5. QED
        BY <3>2, <3>4 DEF Shared
    <2>6. CASE SpuriousWakeup(t)
      <3>1. \A u \in Thread : notify_all(pc)[u] = "shared" => pc[u] = "shared"
        BY NotifyAllFrame
      <3>2. pc' = [pc EXCEPT ![t] = notify_all(pc)[t]]
        BY <2>6 DEF SpuriousWakeup, Goto
      <3>3. QED
        BY <3>1, <3>2 DEF Shared
    <2>7. QED
      BY <2>1, <2>2, <2>3, <2>4, <2>5, <2>6 DEF Step, Enter
  <1>2. QED
    BY <1>1, GateInit, GateStep, PTL DEF Spec, NoOvertaking
=============================================================================
