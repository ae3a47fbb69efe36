---------------------------- MODULE DisplayClock ----------------------------
(***************************************************************************)
(* The refresh boundaries of the guest display (video/src/lib.rs,          *)
(* DisplayClock), driven by the elapsed time of the run loop: any number   *)
(* of boundaries may be crossed by one call.                               *)
(***************************************************************************)
EXTENDS Naturals

CONSTANTS Period,    \* nanoseconds between two boundaries
          MaxTime    \* bound on the elapsed time of a behaviour

VARIABLES next_boundary, sequence,
          elapsed    \* the latest time the clock was advanced to

clockVars == <<next_boundary, sequence, elapsed>>

Init == next_boundary = Period /\ sequence = 0 /\ elapsed = 0

\* Mutant: a late call counts the whole pause as one boundary.
crossed_once(now) == IF now < next_boundary THEN 0 ELSE 1

\* The boundaries crossed by a call at time now.
crossed(now) ==
  IF now < next_boundary THEN 0 ELSE (now - next_boundary) \div Period + 1

\* The time is that of a monotonic host clock.
advance(now) ==
  /\ now >= elapsed
  /\ elapsed' = now
  /\ sequence' = sequence + crossed(now)
  /\ next_boundary' = IF crossed(now) = 0 THEN next_boundary ELSE Period * (sequence' + 1)

Next == \E now \in 0..MaxTime : advance(now)

\* However late the calls come, every boundary is counted exactly once and
\* the next one lies ahead: the guest display does not drift.
BoundariesCountedOnce ==
  /\ sequence = elapsed \div Period
  /\ next_boundary > elapsed
=============================================================================
