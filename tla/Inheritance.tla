---------------------------- MODULE Inheritance ----------------------------
(***************************************************************************)
(* The priority-inheritance algorithm of the coordinator on its own: every *)
(* graph of donations that locking, unlocking and thread exit can build,   *)
(* cycles included, against the reference definition of transitive         *)
(* inheritance.  Coordinator has the same operators inside the whole       *)
(* system, on smaller graphs.                                              *)
(***************************************************************************)
EXTENDS CoordinatorOps

CONSTANT MaxDonations   \* a bound on the donations in force

VARIABLES
  base,       \* the base priority of every thread
  donations   \* priority_donations

vars == <<base, donations>>

Init ==
  /\ base \in [ThreadId -> Priority]
  /\ donations = {}

InheritPriority(owner, waiter, key) ==
  /\ Cardinality(donations) < MaxDonations
  /\ donations' = Inherit(donations, owner, waiter, key)
  /\ UNCHANGED base

RestorePriority(owner, key) ==
  /\ donations' = Restore(donations, owner, key)
  /\ UNCHANGED base

SetThreadPriority(t, priority) ==
  /\ base' = [base EXCEPT ![t] = priority]
  /\ UNCHANGED donations

ExitThread(t) ==
  /\ donations' = WithoutDonationsOf(donations, {t})
  /\ UNCHANGED base

Next ==
  \/ \E owner \in ThreadId, key \in DonationKey :
       \E waiter \in ThreadId \ {owner} : InheritPriority(owner, waiter, key)
  \/ \E owner \in ThreadId, key \in DonationKey : RestorePriority(owner, key)
  \/ \E t \in ThreadId, priority \in Priority : SetThreadPriority(t, priority)
  \/ \E t \in ThreadId : ExitThread(t)

Spec == Init /\ [][Next]_vars

\* The passes of recompute_effective_priorities compute transitive
\* inheritance: as many passes as threads are enough for every chain of
\* donations, whatever the order of the set, and cycles do no harm.
InheritanceIsTransitive ==
  LET effective == InheritedPriorities(base, donations)
  IN \A t \in ThreadId :
       effective[t] = Min({base[u] : u \in Donors(donations, t)})
=============================================================================
