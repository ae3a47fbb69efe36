--------------------------- MODULE HostControlOps ---------------------------
(***************************************************************************)
(* NvHostControl (crates/horizon, nvdrv/nvhost_ctrl.rs) as operators on    *)
(* its state: the syncpoint timelines, the channels' ownership of          *)
(* syncpoints, the event slots of each control descriptor and the direct   *)
(* waits.  One process owns every descriptor, as a client of nvdrv has one *)
(* identity.                                                               *)
(***************************************************************************)
EXTENDS GuestTimeline, FiniteSets, FiniteSetsExt

CONSTANTS
  SYNCPOINT_COUNT,    \* 192 in the code
  EVENT_SLOT_COUNT,   \* 64 in the code
  Fd,                 \* descriptors of /dev/nvhost-ctrl
  Waiter,             \* guest threads that wait for a syncpoint
  None

ASSUME ControlAssumption ==
  /\ SYNCPOINT_COUNT \in Nat \ {0}
  /\ EVENT_SLOT_COUNT \in Nat \ {0}

Syncpoint == 0 .. SYNCPOINT_COUNT - 1
Slot == 0 .. EVENT_SLOT_COUNT - 1

NvHostControl ==
  [timelines |-> [id \in Syncpoint |-> None],
   channel_syncpoints |-> {},
   devices |-> [fd \in Fd |-> None],
   direct_waits |-> [w \in Waiter |-> None],
   next_timeline_instance |-> 1]

Opened(c, fd) == c.devices[fd] # None

\* The waits of the descriptor are dropped; their events, which the waiters
\* hold, are signalled.
close(c, fd) ==
  [c EXCEPT
     !.devices[fd] = None,
     !.direct_waits = [w \in Waiter |->
        IF @[w] # None /\ @[w].fd = fd THEN None ELSE @[w]]]

clear(c) ==
  [NvHostControl EXCEPT !.next_timeline_instance = c.next_timeline_instance]

(***************************************************************************)
(* Timelines.                                                              *)
(***************************************************************************)
ensure_timeline(c, id) ==
  IF c.timelines[id] # None THEN c
  ELSE [c EXCEPT
          !.timelines[id] = NewTimeline(c.next_timeline_instance, 0),
          !.next_timeline_instance = @ + 1]

\* The counter of a syncpoint, 0 before its timeline exists.
CounterOf(c, id) ==
  IF c.timelines[id] = None THEN 0 ELSE current_value(c.timelines[id])

point_reached(c, id, threshold) == has_reached(CounterOf(c, id), threshold)

FreeSyncpoints(c) == (Syncpoint \ {0}) \ c.channel_syncpoints

\* The lowest free syncpoint, with a fresh timeline at the counter's value.
allocate_channel_syncpoint(c) ==
  LET id == Min(FreeSyncpoints(c))
  IN [c EXCEPT
        !.timelines[id] = NewTimeline(c.next_timeline_instance, CounterOf(c, id)),
        !.next_timeline_instance = @ + 1,
        !.channel_syncpoints = @ \cup {id}]

release_channel_syncpoint(c, id) ==
  [c EXCEPT !.channel_syncpoints = @ \ {id}]

CanReserveSubmission(c, id, increments) ==
  /\ id \in c.channel_syncpoints
  /\ CanReserve(c.timelines[id], increments)

reserve_channel_submission(c, id, increments) ==
  [c EXCEPT !.timelines[id] = reserve(@, increments)]

(***************************************************************************)
(* Signalling.  A wait is signalled once and for all; an event of a slot   *)
(* is disarmed, and a transient one is removed.                            *)
(***************************************************************************)
Reached(target, id, value) ==
  target.syncpoint = id /\ has_reached(value, target.value)

Fired(event, id, value) ==
  event # None /\ event.armed # None /\ Reached(event.armed, id, value)

\* Mutant: the slot of a transient event is kept when the event fires.
signal_reached_keeping(c, id, value) ==
  [c EXCEPT
     !.direct_waits = [w \in Waiter |->
        IF @[w] # None /\ Reached(@[w].target, id, value)
          THEN [@[w] EXCEPT !.signalled = TRUE] ELSE @[w]],
     !.devices = [fd \in Fd |->
        IF @[fd] = None THEN None
        ELSE [slot \in Slot |->
           IF Fired(@[fd][slot], id, value)
             THEN [@[fd][slot] EXCEPT !.armed = None, !.signalled = TRUE]
             ELSE @[fd][slot]]]]

signal_reached(c, id, value) ==
  [c EXCEPT
     !.direct_waits = [w \in Waiter |->
        IF @[w] # None /\ Reached(@[w].target, id, value)
          THEN [@[w] EXCEPT !.signalled = TRUE] ELSE @[w]],
     !.devices = [fd \in Fd |->
        IF @[fd] = None THEN None
        ELSE [slot \in Slot |->
           CASE ~Fired(@[fd][slot], id, value) -> @[fd][slot]
             [] Fired(@[fd][slot], id, value) /\ @[fd][slot].registered ->
                  [@[fd][slot] EXCEPT !.armed = None, !.signalled = TRUE]
             [] OTHER -> None]]]

\* complete_channel_submission: refused, with no effect but the creation of the
\* timeline, when the timeline does not have the reservation at its front.
CanComplete(c, id, completed) ==
  CanAdvance(ensure_timeline(c, id).timelines[id], completed)

complete_channel_submission(c, id, completed) ==
  LET with == ensure_timeline(c, id)
      advanced == [with EXCEPT !.timelines[id] = advance(@, completed)]
  IN IF CanComplete(c, id, completed)
       THEN signal_reached(advanced, id, CounterOf(advanced, id))
       ELSE with

increment(c, id) ==
  LET with == ensure_timeline(c, id)
      advanced == [with EXCEPT !.timelines[id] = increment_immediate(@)]
  IN IF CanIncrement(with.timelines[id])
       THEN signal_reached(advanced, id, CounterOf(advanced, id))
       ELSE with
=============================================================================
