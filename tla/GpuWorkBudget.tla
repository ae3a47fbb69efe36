--------------------------- MODULE GpuWorkBudget ----------------------------
(***************************************************************************)
(* What the budget of the GPU executor promises: at most Limit submissions *)
(* hold a permit, and at most one permit keeps the frontend from preparing *)
(* the next submission.  A permit is reserved, may be released to let the  *)
(* next one in while its own work goes on, and is dropped once.            *)
(***************************************************************************)
EXTENDS Naturals, FiniteSets

CONSTANTS
  Permit,   \* the names of permits
  Limit     \* MAX_GPU_SUBMISSIONS_IN_FLIGHT, 3 in the code

VARIABLES
  active, preflight_blocked, stopped,   \* GpuWorkBudgetState
  held,       \* the permits that exist
  released    \* those whose preflight is released

vars == <<active, preflight_blocked, stopped, held, released>>

Init ==
  /\ active = 0
  /\ preflight_blocked = FALSE
  /\ stopped = FALSE
  /\ held = {}
  /\ released = {}

Reserve(p) ==
  /\ p \notin held
  /\ active # Limit /\ ~preflight_blocked /\ ~stopped
  /\ active' = active + 1
  /\ preflight_blocked' = TRUE
  /\ held' = held \cup {p}
  /\ UNCHANGED <<stopped, released>>

ReleasePreflight(p) ==
  /\ p \in held \ released
  /\ preflight_blocked' = FALSE
  /\ released' = released \cup {p}
  /\ UNCHANGED <<active, stopped, held>>

\* The permits that die together, with the queue or the worker that has them.
Drop(ps) ==
  /\ active' = active - Cardinality(ps)
  /\ preflight_blocked' = (preflight_blocked /\ ps \subseteq released)
  /\ held' = held \ ps
  /\ released' = released \ ps
  /\ UNCHANGED stopped

Stop ==
  /\ stopped' = TRUE
  /\ UNCHANGED <<active, preflight_blocked, held, released>>

Next ==
  \/ \E p \in Permit : Reserve(p) \/ ReleasePreflight(p)
  \/ \E ps \in SUBSET held : Drop(ps)
  \/ Stop

Spec == Init /\ [][Next]_vars

\* The count agrees with the permits that exist and never passes the limit,
\* and the frontend is blocked exactly while one permit is not released:
\* nothing is leaked, dropped twice or let in out of order.
BudgetCountsPermits ==
  /\ held \subseteq Permit
  /\ released \subseteq held
  /\ active = Cardinality(held)
  /\ active <= Limit
  /\ Cardinality(held \ released) <= 1
  /\ preflight_blocked <=> held # released
=============================================================================
