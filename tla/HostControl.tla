---------------------------- MODULE HostControl -----------------------------
(***************************************************************************)
(* /dev/nvhost-ctrl at work: guest threads read, increment and wait for    *)
(* syncpoints through descriptors that open and close, channels take and   *)
(* give back syncpoints, submissions reserve points of them, and the GPU   *)
(* owner thread completes the submissions in their order.  Every call has  *)
(* the mutex of NvHostControl, so each is one step.  A guest thread whose  *)
(* wait is pending is suspended; the kernel calls the same ioctl again     *)
(* when the wake event it was given is signalled or the deadline passes.   *)
(***************************************************************************)
EXTENDS HostControlOps

CONSTANTS
  Threshold,     \* the values guest threads wait for
  MaxInFlight    \* submissions the executor holds (its budget is 3)

VARIABLES
  control,    \* NvHostControl
  inflight,   \* the reservations of the executor's submissions, oldest first
  suspended,  \* the wait each guest thread is suspended in, or None
  live        \* the client has not been torn down

vars == <<control, inflight, suspended, live>>

Point == [syncpoint : Syncpoint, value : Threshold]
DirectWait == [fd : Fd, target : Point, timed : BOOLEAN, signalled : BOOLEAN]
EventSlot == [registered : BOOLEAN, armed : Point \cup {None}, signalled : BOOLEAN]

\* Every descriptor is usable, or closed for good: descriptors are not reused.
Init ==
  /\ control = [NvHostControl EXCEPT
                  !.devices = [fd \in Fd |-> [slot \in Slot |-> None]]]
  /\ inflight = <<>>
  /\ suspended = [w \in Waiter |-> None]
  /\ live = TRUE

ControlClose(fd) ==
  /\ Opened(control, fd)
  /\ control' = close(control, fd)
  /\ UNCHANGED <<inflight, suspended, live>>

(***************************************************************************)
(* Channels and the executor.                                              *)
(***************************************************************************)
AllocateChannel ==
  /\ live
  /\ FreeSyncpoints(control) # {}
  /\ control' = allocate_channel_syncpoint(control)
  /\ UNCHANGED <<inflight, suspended, live>>

CloseChannel(id) ==
  /\ id \in control.channel_syncpoints
  /\ control' = release_channel_syncpoint(control, id)
  /\ UNCHANGED <<inflight, suspended, live>>

Submit(id, increments) ==
  /\ Len(inflight) < MaxInFlight
  /\ CanReserveSubmission(control, id, increments)
  /\ control' = reserve_channel_submission(control, id, increments)
  /\ inflight' = Append(inflight,
       [syncpoint |-> id,
        reserved |-> Reservation(control.timelines[id], increments)])
  /\ UNCHANGED <<suspended, live>>

\* The executor completes its submissions in the order it took them.
Complete ==
  /\ inflight # <<>>
  /\ LET done == Head(inflight)
     IN control' = complete_channel_submission(control, done.syncpoint,
                                               done.reserved)
  /\ inflight' = Tail(inflight)
  /\ UNCHANGED <<suspended, live>>

(***************************************************************************)
(* The ioctls of an open descriptor.                                       *)
(***************************************************************************)
IoctlRead(fd, id) ==
  /\ Opened(control, fd)
  /\ control' = ensure_timeline(control, id)
  /\ UNCHANGED <<inflight, suspended, live>>

IoctlIncrement(fd, id) ==
  /\ Opened(control, fd)
  /\ control' = increment(control, id)
  /\ UNCHANGED <<inflight, suspended, live>>

\* wait_direct of thread w, the first call or the call again: done, timed out,
\* or pending.  A call on a descriptor that is closed is refused.
Woken(w) ==
  control.direct_waits[w] # None =>
    control.direct_waits[w].signalled \/ control.direct_waits[w].timed

Registered(c, w, fd, target, timed) ==
  IF c.direct_waits[w] # None THEN c
  ELSE [c EXCEPT !.direct_waits[w] =
          [fd |-> fd, target |-> target, timed |-> timed, signalled |-> FALSE]]

wait_direct(w, fd, target, timeout) ==
  LET with == ensure_timeline(control, target.syncpoint)
  IN \/ /\ ~Opened(control, fd)
        /\ suspended' = [suspended EXCEPT ![w] = None]
        /\ UNCHANGED control
     \/ /\ Opened(control, fd)
        /\ \/ point_reached(with, target.syncpoint, target.value)
           \/ timeout = "zero"
           \/ control.direct_waits[w] # None /\ control.direct_waits[w].timed
        /\ control' = [with EXCEPT !.direct_waits[w] = None]
        /\ suspended' = [suspended EXCEPT ![w] = None]
     \/ /\ Opened(control, fd)
        /\ ~point_reached(with, target.syncpoint, target.value)
        /\ timeout # "zero"
        /\ control' = Registered(with, w, fd, target, timeout = "finite")
        /\ suspended' = [suspended EXCEPT ![w] =
             [fd |-> fd, target |-> target, timeout |-> timeout]]

IoctlWait(w, fd, target, timeout) ==
  /\ suspended[w] = None
  /\ Opened(control, fd)
  /\ wait_direct(w, fd, target, timeout)
  /\ UNCHANGED <<inflight, live>>

RetryWait(w) ==
  /\ suspended[w] # None
  /\ Woken(w)
  /\ wait_direct(w, suspended[w].fd, suspended[w].target, suspended[w].timeout)
  /\ UNCHANGED <<inflight, live>>

\* wait_event: arms the requested slot, or the lowest free one.
Arm(c, fd, slot, target, registered) ==
  [c EXCEPT !.devices[fd][slot] =
     [registered |-> registered, armed |-> target, signalled |-> FALSE]]

FreeSlots(fd) == {slot \in Slot : control.devices[fd][slot] = None}

\* Mutant: the slot is armed before the counter is looked at.
wait_event_arming_first(fd, target, slot, registered) ==
  LET with == ensure_timeline(control, target.syncpoint)
  IN control' = Arm(with, fd, slot, target, registered)

wait_event(fd, target, slot, registered) ==
  LET with == ensure_timeline(control, target.syncpoint)
  IN control' = IF point_reached(with, target.syncpoint, target.value)
                  THEN with
                  ELSE Arm(with, fd, slot, target, registered)

IoctlWaitEvent(fd, target) ==
  /\ Opened(control, fd)
  /\ FreeSlots(fd) # {}
  /\ wait_event(fd, target, Min(FreeSlots(fd)), FALSE)
  /\ UNCHANGED <<inflight, suspended, live>>

\* Any event of the slot will do, a transient one included.
IoctlWaitEventEx(fd, target, slot) ==
  /\ Opened(control, fd)
  /\ control.devices[fd][slot] # None
  /\ wait_event(fd, target, slot, control.devices[fd][slot].registered)
  /\ UNCHANGED <<inflight, suspended, live>>

IoctlAllocEvent(fd, slot) ==
  /\ Opened(control, fd)
  /\ control.devices[fd][slot] = None
  /\ control' = [control EXCEPT !.devices[fd][slot] =
       [registered |-> TRUE, armed |-> None, signalled |-> FALSE]]
  /\ UNCHANGED <<inflight, suspended, live>>

IoctlFreeEvent(fd, slot) ==
  /\ Opened(control, fd)
  /\ control.devices[fd][slot] # None
  /\ control' = [control EXCEPT !.devices[fd][slot] = None]
  /\ UNCHANGED <<inflight, suspended, live>>

\* Mutant: the slot of a transient event stays, disarmed.
IoctlClearEventWaitKeeping(fd, slot) ==
  /\ Opened(control, fd)
  /\ control.devices[fd][slot] # None
  /\ control' = [control EXCEPT !.devices[fd][slot] =
       [@ EXCEPT !.armed = None, !.signalled = FALSE]]
  /\ UNCHANGED <<inflight, suspended, live>>

IoctlClearEventWait(fd, slot) ==
  /\ Opened(control, fd)
  /\ control.devices[fd][slot] # None
  /\ control' = [control EXCEPT !.devices[fd][slot] =
       IF @.registered THEN [@ EXCEPT !.armed = None, !.signalled = FALSE]
       ELSE None]
  /\ UNCHANGED <<inflight, suspended, live>>

(***************************************************************************)
(* teardown, after the executor has stopped: everything goes, and a thread *)
(* that calls again finds no descriptor.                                   *)
(***************************************************************************)
Teardown ==
  /\ live
  /\ live' = FALSE
  /\ control' = clear(control)
  /\ inflight' = <<>>
  /\ UNCHANGED suspended

Next ==
  \/ \E fd \in Fd : ControlClose(fd)
  \/ AllocateChannel
  \/ \E id \in Syncpoint : CloseChannel(id)
  \/ \E id \in Syncpoint, increments \in 1 .. MAX_OUTSTANDING_DISTANCE :
       Submit(id, increments)
  \/ Complete
  \/ \E fd \in Fd, id \in Syncpoint : IoctlRead(fd, id) \/ IoctlIncrement(fd, id)
  \/ \E w \in Waiter, fd \in Fd, target \in Point,
        timeout \in {"zero", "finite", "infinite"} :
       IoctlWait(w, fd, target, timeout)
  \/ \E w \in Waiter : RetryWait(w)
  \/ \E fd \in Fd, target \in Point : IoctlWaitEvent(fd, target)
  \/ \E fd \in Fd, target \in Point, slot \in Slot :
       IoctlWaitEventEx(fd, target, slot)
  \/ \E fd \in Fd, slot \in Slot :
       \/ IoctlAllocEvent(fd, slot)
       \/ IoctlFreeEvent(fd, slot)
       \/ IoctlClearEventWait(fd, slot)
  \/ Teardown

Spec == Init /\ [][Next]_vars

(***************************************************************************)
(* Properties.                                                             *)
(***************************************************************************)
\* Guest threads are suspended in waits for points, events are armed for
\* points, and only channels' syncpoints have timelines with reservations.
TypeOK ==
  /\ control.channel_syncpoints \subseteq Syncpoint \ {0}
  /\ \A w \in Waiter : control.direct_waits[w] \in DirectWait \cup {None}
  /\ \A fd \in Fd : Opened(control, fd) =>
       \A slot \in Slot : control.devices[fd][slot] \in EventSlot \cup {None}
  /\ \A id \in Syncpoint :
       control.timelines[id] # None =>
         /\ current_value(control.timelines[id]) \in Value
         /\ id = 0 => control.timelines[id].reservations = <<>>

\* A guest thread never sleeps past its point: when the counter has reached
\* what a suspended thread waits for, its wake event is signalled, whatever
\* jumps, wraps and changes of ownership the counter has been through.
NoSleeperPastItsPoint ==
  \A w \in Waiter :
    /\ suspended[w] # None
    /\ control.direct_waits[w] # None
    /\ point_reached(control, suspended[w].target.syncpoint,
                     suspended[w].target.value)
    => control.direct_waits[w].signalled

\* A registration of wait_direct belongs to a thread that is still suspended in
\* that very wait, so a later wait of the thread is never refused for it.
WaitsAreOwned ==
  \A w \in Waiter :
    control.direct_waits[w] # None =>
      /\ suspended[w] # None
      /\ suspended[w].fd = control.direct_waits[w].fd
      /\ suspended[w].target = control.direct_waits[w].target

\* An armed event is one whose point is still ahead, and the slot of a
\* transient event (allocated by SYNCPT_WAIT_EVENT) is occupied exactly while
\* the event is armed: slots neither leak nor miss their point.
ArmedEventsAreAhead ==
  \A fd \in Fd : Opened(control, fd) =>
    \A slot \in Slot :
      LET event == control.devices[fd][slot]
      IN event # None =>
           /\ event.registered \/ event.armed # None
           /\ event.armed # None =>
                ~point_reached(control, event.armed.syncpoint, event.armed.value)

\* The point of a submission is not reached before the submission completes:
\* the modular test of a wrapping counter agrees with the order of the
\* reservations, because their window stays below half of the domain.
ReservedPointsAreAhead ==
  \A i \in 1 .. Len(inflight) :
    LET timeline == control.timelines[inflight[i].syncpoint]
    IN timeline # None /\ timeline.instance = inflight[i].reserved.instance =>
         ~has_reached(current_value(timeline), inflight[i].reserved.value)

\* Whoever waits for a syncpoint waits for a value that is still to come, and
\* every registration has its waiter.
ControlConsistent ==
  /\ TypeOK /\ NoSleeperPastItsPoint /\ WaitsAreOwned
  /\ ArmedEventsAreAhead /\ ReservedPointsAreAhead

=============================================================================
