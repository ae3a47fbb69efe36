--------------------------- MODULE GuestTimeline ---------------------------
(***************************************************************************)
(* One guest syncpoint timeline (crates/gpu): a hardware counter of fixed  *)
(* width that wraps, over logical positions that do not.  A submission     *)
(* reserves an interval of the future; completions advance the counter     *)
(* through the oldest reservation only.  A fresh instance over the same    *)
(* counter disowns the reservations of the earlier one.                    *)
(***************************************************************************)
EXTENDS Integers, Sequences

CONSTANT Modulus   \* the size of the counter's domain, 2^32 in the code

ASSUME ModulusAssumption == Modulus \in Nat \ {0} /\ Modulus % 2 = 0

AMBIGUOUS_DISTANCE == Modulus \div 2
MAX_OUTSTANDING_DISTANCE == AMBIGUOUS_DISTANCE - 1

Value == 0 .. Modulus - 1

wrapping_add(value, increments) == (value + increments) % Modulus
wrapping_sub(value, other) == (value - other) % Modulus

\* The test of the hardware: the top bit of the difference is clear.
has_reached(value, threshold) ==
  wrapping_sub(value, threshold) < AMBIGUOUS_DISTANCE

(***************************************************************************)
(* The timeline of one owner.  A reservation is what the code copies into  *)
(* ReservedTimelinePoint: the instance, its number, and where it ends.     *)
(***************************************************************************)
NewTimeline(instance, initial) ==
  [instance |-> instance,
   initial_value |-> initial,
   current_position |-> 0,
   reserved_position |-> 0,
   next_reservation |-> 1,
   reservations |-> <<>>]

point_at(timeline, position) == wrapping_add(timeline.initial_value, position)
current_value(timeline) == point_at(timeline, timeline.current_position)
outstanding_increments(timeline) ==
  timeline.reserved_position - timeline.current_position

CanReserve(timeline, increments) ==
  /\ increments # 0
  /\ outstanding_increments(timeline) + increments <= MAX_OUTSTANDING_DISTANCE

\* The reservation that reserve returns, and the timeline it leaves.
Reservation(timeline, increments) ==
  LET position == timeline.reserved_position + increments
  IN [instance |-> timeline.instance,
      reservation |-> timeline.next_reservation,
      logical_position |-> position,
      value |-> point_at(timeline, position)]

reserve(timeline, increments) ==
  [timeline EXCEPT
     !.reserved_position = @ + increments,
     !.next_reservation = @ + 1,
     !.reservations = Append(@, Reservation(timeline, increments))]

\* Mutant: a reservation of an earlier instance is taken for one of this.
CanAdvanceAnyInstance(timeline, completed) ==
  /\ timeline.reservations # <<>>
  /\ Head(timeline.reservations).reservation = completed.reservation

\* validate_advance: the oldest reservation of this instance, exactly.
CanAdvance(timeline, completed) ==
  /\ completed.instance = timeline.instance
  /\ timeline.reservations # <<>>
  /\ Head(timeline.reservations) = completed

advance(timeline, completed) ==
  [timeline EXCEPT
     !.current_position = completed.logical_position,
     !.reservations = Tail(@)]

\* Mutant: an increment that overtakes the work that is reserved.
CanIncrementAnyTime(timeline) == CanReserve(timeline, 1)

\* increment_immediate: refused while a reservation is pending.
CanIncrement(timeline) == timeline.reservations = <<>> /\ CanReserve(timeline, 1)

increment_immediate(timeline) ==
  advance(reserve(timeline, 1), Reservation(timeline, 1))
=============================================================================
