--------------------------- MODULE ExecutionGate ---------------------------
(***************************************************************************)
(* The gate between CPU slices and memory transitions (crates/memory).  A  *)
(* host thread holds the gate shared while it runs a slice, and exclusive  *)
(* while it changes a mapping or moves memory between owners.  A mutex     *)
(* guards three fields and one condition variable serves three kinds of    *)
(* waiters.  The exclusive guard keeps the mutex locked while it lives, so *)
(* every other critical section is one step, taken while nobody has it.    *)
(***************************************************************************)
EXTENDS Naturals, FiniteSets

CONSTANTS
  Thread,     \* the host threads
  MaxEpoch    \* the greatest epoch: its increment is checked

ASSUME GateAssumption == IsFiniteSet(Thread) /\ MaxEpoch \in Nat \ {0}

VARIABLES
  active_shared, transition_pending, epoch,   \* ExecutionGateState
  pc,         \* where each thread is
  guard       \* the epoch in the shared guard of each thread

vars == <<active_shared, transition_pending, epoch, pc, guard>>

\* The waits of acquire_shared and the two of acquire_exclusive: asleep on the
\* condition variable, or notified and about to lock the mutex again.
Asleep == {"shared_asleep", "exclusive_asleep", "drain_asleep"}
Notified == {"shared_notified", "exclusive_notified", "drain_notified"}
PC == {"idle", "shared", "notifying", "exclusive"} \cup Asleep \cup Notified

Shared == {t \in Thread : pc[t] = "shared"}

\* The threads that have closed admission and not yet opened it again.
Closing == {"notifying", "drain_asleep", "drain_notified", "exclusive"}

Locked == \E t \in Thread : pc[t] = "exclusive"

notify_all(pcs) ==
  [t \in Thread |->
     CASE pcs[t] = "shared_asleep" -> "shared_notified"
       [] pcs[t] = "exclusive_asleep" -> "exclusive_notified"
       [] pcs[t] = "drain_asleep" -> "drain_notified"
       [] OTHER -> pcs[t]]

Init ==
  /\ active_shared = 0
  /\ transition_pending = FALSE
  /\ epoch = 1
  /\ pc = [t \in Thread |-> "idle"]
  /\ guard = [t \in Thread |-> 0]

Goto(t, place) == pc' = [pc EXCEPT ![t] = place]

(***************************************************************************)
(* acquire_shared, and the drop of its guard.                              *)
(***************************************************************************)
\* Mutant: a transition that has not drained yet is not respected.
acquire_shared_barging(t) ==
  /\ pc[t] \in {"idle", "shared_notified"}
  /\ ~Locked
  /\ active_shared' = active_shared + 1
  /\ guard' = [guard EXCEPT ![t] = epoch]
  /\ Goto(t, "shared")
  /\ UNCHANGED <<transition_pending, epoch>>

acquire_shared(t) ==
  /\ pc[t] \in {"idle", "shared_notified"}
  /\ ~Locked
  /\ IF transition_pending
       THEN Goto(t, "shared_asleep") /\ UNCHANGED <<active_shared, guard>>
       ELSE /\ active_shared' = active_shared + 1
            /\ guard' = [guard EXCEPT ![t] = epoch]
            /\ Goto(t, "shared")
  /\ UNCHANGED <<transition_pending, epoch>>

\* Mutant: the last slice to leave wakes nobody.
release_shared_silently(t) ==
  /\ pc[t] = "shared"
  /\ ~Locked
  /\ active_shared' = active_shared - 1
  /\ Goto(t, "idle")
  /\ UNCHANGED <<transition_pending, epoch, guard>>

release_shared(t) ==
  /\ pc[t] = "shared"
  /\ ~Locked
  /\ active_shared' = active_shared - 1
  /\ LET left == [pc EXCEPT ![t] = "idle"]
     IN pc' = IF active_shared' = 0 THEN notify_all(left) ELSE left
  /\ UNCHANGED <<transition_pending, epoch, guard>>

(***************************************************************************)
(* acquire_exclusive: close admission, ask the running slices for a        *)
(* safepoint with the mutex unlocked, and wait until they have left.       *)
(***************************************************************************)
close_admission(t) ==
  /\ pc[t] \in {"idle", "exclusive_notified"}
  /\ ~Locked
  /\ IF transition_pending
       THEN Goto(t, "exclusive_asleep") /\ UNCHANGED transition_pending
       ELSE /\ transition_pending' = TRUE
            /\ Goto(t, IF active_shared # 0 THEN "notifying"
                                            ELSE "drain_notified")
  /\ UNCHANGED <<active_shared, epoch, guard>>

\* The callback returns or panics; a panic is caught.
notify_transition(t) ==
  /\ pc[t] = "notifying"
  /\ Goto(t, "drain_notified")
  /\ UNCHANGED <<active_shared, transition_pending, epoch, guard>>

\* Mutant: the slices that are still running are not waited for.
drain_at_once(t) ==
  /\ pc[t] = "drain_notified"
  /\ ~Locked
  /\ Goto(t, "exclusive")
  /\ UNCHANGED <<active_shared, transition_pending, epoch, guard>>

drain(t) ==
  /\ pc[t] = "drain_notified"
  /\ ~Locked
  /\ Goto(t, IF active_shared # 0 THEN "drain_asleep" ELSE "exclusive")
  /\ UNCHANGED <<active_shared, transition_pending, epoch, guard>>

\* The drop of the exclusive guard: the epoch advances if the transition was
\* committed.
release_exclusive(t) ==
  /\ pc[t] = "exclusive"
  /\ epoch' \in {epoch} \cup ({epoch + 1} \cap 1..MaxEpoch)
  /\ transition_pending' = FALSE
  /\ pc' = notify_all([pc EXCEPT ![t] = "idle"])
  /\ UNCHANGED <<active_shared, guard>>

\* A condition variable may wake a thread for no reason.
SpuriousWakeup(t) ==
  /\ pc[t] \in Asleep
  /\ Goto(t, notify_all(pc)[t])
  /\ UNCHANGED <<active_shared, transition_pending, epoch, guard>>

\* What a thread does of itself once it has entered the gate.
Step(t) ==
  \/ pc[t] = "shared_notified" /\ acquire_shared(t)
  \/ pc[t] = "exclusive_notified" /\ close_admission(t)
  \/ release_shared(t)
  \/ notify_transition(t)
  \/ drain(t)
  \/ release_exclusive(t)

Enter(t) ==
  /\ pc[t] = "idle"
  /\ acquire_shared(t) \/ close_admission(t)

Next == \E t \in Thread : Step(t) \/ Enter(t) \/ SpuriousWakeup(t)

Spec == Init /\ [][Next]_vars

\* Host threads are scheduled, slices have an instruction budget and
\* transitions are bounded; nothing obliges a thread to enter the gate.
FairSpec == Spec /\ \A t \in Thread : WF_vars(Step(t))

(***************************************************************************)
(* Properties.                                                             *)
(***************************************************************************)
\* The variables have their types.
TypeOK ==
  /\ active_shared \in Nat
  /\ transition_pending \in BOOLEAN
  /\ epoch \in 1..MaxEpoch
  /\ pc \in [Thread -> PC]
  /\ guard \in [Thread -> 0..MaxEpoch]

\* A transition never overlaps a slice or another transition.
Exclusion ==
  \A t \in Thread :
    pc[t] = "exclusive" => /\ Shared = {}
                           /\ \A u \in Thread : pc[u] = "exclusive" => u = t

\* The count the transitions wait for is the number of running slices, and
\* admission is closed exactly while one thread is responsible for opening it
\* again.
GateConsistent ==
  /\ active_shared = Cardinality(Shared)
  /\ transition_pending <=> \E t \in Thread : pc[t] \in Closing
  /\ \A t, u \in Thread : pc[t] \in Closing /\ pc[u] \in Closing => t = u

\* The epoch a slice was admitted with is the current one until it leaves, so
\* what it has translated or cached under that epoch stays valid.
LeaseEpochCurrent == \A t \in Shared : guard[t] = epoch

\* The above are inductive together: Exclusion needs the count of
\* GateConsistent to be exact when the transition tests it for zero, and
\* LeaseEpochCurrent needs Exclusion at the step that advances the epoch.
GateInvariant == TypeOK /\ GateConsistent /\ Exclusion /\ LeaseEpochCurrent

\* acquire_exclusive: "Pending transitions cannot be overtaken by new readers."
NoOvertaking ==
  [][transition_pending /\ transition_pending' => Shared' \subseteq Shared]_vars

\* A transition that has closed admission gets the gate: no wakeup is lost
\* between the slices that leave and the thread that waits for the last one.
TransitionProceeds ==
  \A t \in Thread : (pc[t] = "notifying") ~> (pc[t] = "exclusive")

\* A thread waits at a closed gate for ever only if transitions keep closing
\* it: the end of a transition reaches everybody who waits.
WaitersReleased ==
  \A t \in Thread :
    <>[](pc[t] \in {"shared_asleep", "shared_notified",
                    "exclusive_asleep", "exclusive_notified"})
      => []<>transition_pending

\* Nobody waits at the gate for a wakeup that was lost.
GateProgress == TransitionProceeds /\ WaitersReleased
=============================================================================
