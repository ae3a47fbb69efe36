------------------------------ MODULE Display ------------------------------
(***************************************************************************)
(* The guest display (horizon/src/graphics.rs), the one-frame mailbox      *)
(* (video/src/lib.rs) and the window thread (video-winit/src/lib.rs).      *)
(*                                                                         *)
(* The run loop's thread serves the guest's Binder transactions and        *)
(* advances the display clock; at each boundary it latches a queued frame  *)
(* and publishes it, with a lease on its slot, to the mailbox.  The window *)
(* thread takes the newest frame and drops it once it is presented.  A     *)
(* dropped lease puts the slot on a list that the run loop drains at its   *)
(* next transaction or boundary.                                           *)
(***************************************************************************)
EXTENDS Naturals, Sequences, FiniteSets, SequencesExt

CONSTANTS Slots,       \* slot indices of a buffer queue
          MaxLayers,   \* bound on the layers created
          MaxBuffers,  \* bound on the buffers preallocated
          MaxCrossed,  \* bound on the boundaries one call crosses
          Fence,       \* timeline points of acquire fences
          None

Layer == 1..MaxLayers

VARIABLES
  queues,     \* BufferQueue of each layer, or None
  layers,     \* next_layer_id
  buffers,    \* the buffers preallocated so far
  pending,    \* pending_frames
  mailbox,    \* MailboxState::latest
  released,   \* released_slots
  host,       \* boundaries the run loop has still to handle, and where it is
  wake,       \* frame_wakeup_pending
  events,     \* FrameAvailable messages under way
  redraw,     \* a redraw was requested from the window system
  window,     \* PresenterApplication: "none", "open", "failed" or "exited"
  step,       \* the handler the window thread is in
  shown,      \* Presenter::pending_frame
  reached,    \* fences the GPU has reached
  presenting  \* whether the display was given a mailbox

vars == <<queues, layers, buffers, pending, mailbox, released, host, wake, events, redraw,
          window, step, shown, reached, presenting>>

\* A slot is fresh when no frame of an earlier buffer in it was under way
\* when it was filled (a distinction the code does not make).
Slot  == [own : {"Free", "Dequeued", "Queueing", "Queued"}, fresh : BOOLEAN]
Queue == [connected : BOOLEAN, slots : [Slots -> Slot \cup {None}], available : BOOLEAN]
Frame == [layer : Layer, slot : Slots, fences : SUBSET Fence]

NewQueue == [connected |-> FALSE, slots |-> [s \in Slots |-> None], available |-> FALSE]

Init ==
  /\ queues = [l \in Layer |-> None] /\ layers = 0 /\ buffers = 0
  /\ pending = <<>> /\ mailbox = None /\ released = <<>>
  /\ host = [pc |-> "idle", left |-> 0]
  /\ wake = FALSE /\ events = 0 /\ redraw = FALSE /\ window = "none" /\ step = "wait"
  /\ shown = None /\ reached = {} /\ presenting \in BOOLEAN

-----------------------------------------------------------------------------
(* Slots.                                                                  *)

Owned(q, s, own) == q # None /\ q.slots[s] # None /\ q.slots[s].own = own
HasFree(q)       == \E s \in Slots : Owned(q, s, "Free")

SetOwn(q, s, own) == [q EXCEPT !.slots[s].own = own]

\* The end of a reservation made by QueueBuffer.
commit_queue(q, s)   == SetOwn(q, s, "Queued")
rollback_queue(q, s) == SetOwn(q, s, "Dequeued")

update_availability(q) == [q EXCEPT !.available = HasFree(q)]

\* Mutant: a slot becomes free in silence.
release_silently(q, s) ==
  IF Owned(q, s, "Queued") THEN SetOwn(q, s, "Free") ELSE q

release(q, s) ==
  IF Owned(q, s, "Queued") THEN [SetOwn(q, s, "Free") EXCEPT !.available = TRUE] ELSE q

\* drain_released_slots.
drained ==
  FoldLeft(LAMBDA qs, f : [qs EXCEPT ![f.layer] = release(@, f.slot)], queues, released)

\* The frames that hold a slot of a layer, wherever they are.
Optional(f) == IF f = None THEN <<>> ELSE <<f>>
FramesOf(frames, l, s) == SelectSeq(frames, LAMBDA f : f.layer = l /\ f.slot = s)
UnderWay(l, s)    == FramesOf(pending \o Optional(mailbox) \o Optional(shown), l, s)
Outstanding(l, s) == UnderWay(l, s) \o FramesOf(released, l, s)

\* What only the window thread changes, and what it never changes.
windowVars == <<redraw, window, step, shown>>
hostVars   == <<queues, layers, buffers, pending, host, reached, presenting>>

-----------------------------------------------------------------------------
(* The run loop's thread: services.                                        *)

Idle == host.pc = "idle"

\* create_layer: layer and Binder object have the same, new identity.
CreateLayer ==
  /\ Idle /\ layers < MaxLayers
  /\ layers' = layers + 1
  /\ queues' = [queues EXCEPT ![layers + 1] = NewQueue]
  /\ UNCHANGED <<buffers, pending, mailbox, released, host, wake, events, reached, presenting>>
  /\ UNCHANGED windowVars

RemoveLayer(l) ==
  /\ Idle /\ queues[l] # None
  /\ queues' = [queues EXCEPT ![l] = None]
  /\ pending' = SelectSeq(pending, LAMBDA f : f.layer # l)
  /\ UNCHANGED <<layers, buffers, mailbox, released, host, wake, events, reached, presenting>>
  /\ UNCHANGED windowVars

\* transact_binder: what was released is drained first, then the queue acts.
Transact(l, after) ==
  /\ Idle /\ drained[l] # None
  /\ queues' = [drained EXCEPT ![l] = after]
  /\ released' = <<>>
  /\ UNCHANGED <<layers, mailbox, host, wake, events, reached, presenting>>
  /\ UNCHANGED windowVars

Connect(l) ==
  LET q == drained[l]
  IN /\ q # None /\ ~q.connected
     /\ Transact(l, update_availability([q EXCEPT !.connected = TRUE]))
     /\ UNCHANGED <<buffers, pending>>

\* The slots go, the frames that are on their way stay.
Disconnect(l) ==
  LET q == drained[l]
  IN /\ q # None /\ q.connected
     /\ Transact(l, NewQueue)
     /\ UNCHANGED <<buffers, pending>>

Preallocate(l, s) ==
  LET q    == drained[l]
      slot == [own |-> "Free", fresh |-> UnderWay(l, s) = <<>>]
  IN /\ q # None /\ q.slots[s] = None /\ buffers < MaxBuffers
     /\ buffers' = buffers + 1
     /\ Transact(l, update_availability([q EXCEPT !.slots[s] = slot]))
     /\ UNCHANGED pending

Deallocate(l, s) ==
  LET q == drained[l]
  IN /\ q # None /\ q.slots[s] # None
     /\ Transact(l, update_availability([q EXCEPT !.slots[s] = None]))
     /\ UNCHANGED <<buffers, pending>>

\* Mutant: the event stays signalled when the last free slot is taken.
DequeueBufferSignalled(l) ==
  LET q == drained[l]
  IN \E s \in Slots :
       /\ Owned(q, s, "Free") /\ \A t \in Slots : Owned(q, t, "Free") => s <= t
       /\ Transact(l, SetOwn(q, s, "Dequeued"))
       /\ UNCHANGED <<buffers, pending>>

\* The free slot with the least index; a guest that finds none waits for
\* the event.
DequeueBuffer(l) ==
  LET q == drained[l]
  IN \E s \in Slots :
       /\ Owned(q, s, "Free") /\ \A t \in Slots : Owned(q, t, "Free") => s <= t
       /\ LET taken == SetOwn(q, s, "Dequeued")
          IN Transact(l, [taken EXCEPT !.available = @ /\ HasFree(taken)])
       /\ UNCHANGED <<buffers, pending>>

CancelBuffer(l, s) ==
  LET q == drained[l]
  IN /\ Owned(q, s, "Dequeued")
     /\ Transact(l, [SetOwn(q, s, "Free") EXCEPT !.available = TRUE])
     /\ UNCHANGED <<buffers, pending>>

\* QueueBuffer and queue_graphic_buffer: the reservation is committed, or
\* rolled back when the buffer, its fences or the image export are refused.
\* A reply that cannot be written to the guest leaves it as it is.
QueueBuffer(l, s, fences) ==
  LET q     == drained[l]
      frame == [layer |-> l, slot |-> s, fences |-> fences]
  IN /\ Owned(q, s, "Dequeued") /\ (presenting => fences = {})
     /\ \/ Transact(l, commit_queue(q, s)) /\ pending' = Append(pending, frame)
        \/ Transact(l, rollback_queue(q, s)) /\ UNCHANGED pending
        \/ Transact(l, SetOwn(q, s, "Queueing")) /\ UNCHANGED pending
     /\ UNCHANGED buffers

\* The guest resets the availability event before it waits.
ResetEvent(l) ==
  /\ Idle /\ queues[l] # None /\ queues[l].available
  /\ queues' = [queues EXCEPT ![l].available = FALSE]
  /\ UNCHANGED <<layers, buffers, pending, mailbox, released, host, wake, events, reached,
                 presenting>>
  /\ UNCHANGED windowVars

Teardown ==
  /\ Idle
  /\ queues' = [l \in Layer |-> None] /\ pending' = <<>>
  /\ UNCHANGED <<layers, buffers, mailbox, released, host, wake, events, reached, presenting>>
  /\ UNCHANGED windowVars

-----------------------------------------------------------------------------
(* The run loop's thread: display boundaries.                              *)

Advance(crossed) ==
  /\ Idle
  /\ queues' = drained /\ released' = <<>>
  /\ host' = IF crossed = 0 THEN host ELSE [pc |-> "latch", left |-> crossed]
  /\ UNCHANGED <<layers, buffers, pending, mailbox, wake, events, reached, presenting>>
  /\ UNCHANGED windowVars

Continue == [pc |-> IF host.left > 1 THEN "latch" ELSE "idle",
             left |-> IF host.left > 1 THEN host.left - 1 ELSE 0]

\* Frames without a window wait for their fences; the export of an image has
\* ordered a frame with one behind the work that draws it.
CanLatch == pending # <<>> /\ (presenting \/ Head(pending).fences \subseteq reached)

\* Mutant: a published frame gives its slot back at once.
LatchReleasing ==
  /\ host.pc = "latch" /\ CanLatch /\ presenting
  /\ pending' = Tail(pending)
  /\ released' = released \o Optional(mailbox)
  /\ mailbox' = Head(pending)
  /\ queues' = [queues EXCEPT ![Head(pending).layer] = release(@, Head(pending).slot)]
  /\ host' = [host EXCEPT !.pc = "notify"]
  /\ UNCHANGED <<layers, buffers, wake, events, reached, presenting>> /\ UNCHANGED windowVars

\* One boundary: nothing to latch, a frame published, or discarded.
Latch ==
  /\ host.pc = "latch"
  /\ \/ /\ ~CanLatch
        /\ host' = [pc |-> "idle", left |-> 0]
        /\ UNCHANGED <<queues, pending, mailbox, released>>
     \/ /\ CanLatch /\ presenting
        /\ pending' = Tail(pending)
        /\ released' = released \o Optional(mailbox)
        /\ mailbox' = Head(pending)
        /\ host' = [host EXCEPT !.pc = "notify"]
        /\ UNCHANGED queues
     \/ /\ CanLatch /\ ~presenting
        /\ pending' = Tail(pending)
        /\ queues' = [queues EXCEPT ![Head(pending).layer] = release(@, Head(pending).slot)]
        /\ host' = Continue
        /\ UNCHANGED <<mailbox, released>>
  /\ UNCHANGED <<layers, buffers, wake, events, reached, presenting>> /\ UNCHANGED windowVars

\* frame_available: one message at a time; a loop that has ended takes none.
Notify ==
  /\ host.pc = "notify"
  /\ host' = Continue
  /\ IF window = "exited" THEN UNCHANGED <<wake, events>>
     ELSE wake' = TRUE /\ events' = IF wake THEN events ELSE events + 1
  /\ UNCHANGED <<queues, layers, buffers, pending, mailbox, released, reached, presenting>>
  /\ UNCHANGED windowVars

-----------------------------------------------------------------------------
(* The window thread: one handler after another.                           *)

\* resumed: the window opens, or fails to.
Resumed ==
  /\ presenting /\ window = "none" /\ step = "wait"
  /\ \/ window' = "open" /\ redraw' = TRUE
     \/ window' = "failed" /\ UNCHANGED redraw
  /\ UNCHANGED <<mailbox, released, wake, events, step, shown>> /\ UNCHANGED hostVars

\* user_event: the message is taken ...
ReceiveFrameAvailable ==
  /\ window # "exited" /\ step = "wait" /\ events > 0
  /\ events' = events - 1 /\ step' = "woken"
  /\ UNCHANGED <<mailbox, released, wake, redraw, window, shown>> /\ UNCHANGED hostVars

\* ... the flag is reset and a redraw requested.
HandleFrameAvailable ==
  /\ step = "woken"
  /\ step' = "wait" /\ wake' = FALSE /\ redraw' = (redraw \/ window = "open")
  /\ UNCHANGED <<mailbox, released, events, window, shown>> /\ UNCHANGED hostVars

\* RedrawRequested, because it was requested or because the window system
\* asks for it: take_latest, and bind_frame, which replaces, and so drops, a
\* frame that was not presented yet.
TakeLatest ==
  /\ window = "open" /\ step = "wait"
  /\ step' = "drawing" /\ redraw' = FALSE /\ mailbox' = None
  /\ shown' = IF mailbox = None THEN shown ELSE mailbox
  /\ released' = IF mailbox = None THEN released ELSE released \o Optional(shown)
  /\ UNCHANGED <<wake, events, window>> /\ UNCHANGED hostVars

\* The frame is presented and dropped; a suboptimal surface asks for more.
Present ==
  /\ step = "drawing" /\ step' = "wait"
  /\ shown' = None /\ released' = released \o Optional(shown)
  /\ redraw' \in BOOLEAN
  /\ UNCHANGED <<mailbox, wake, events, window>> /\ UNCHANGED hostVars

\* The surface is not configured, covered, late (no redraw is requested),
\* outdated or lost (one is); the frame is kept.
NotPresented ==
  /\ step = "drawing" /\ step' = "wait"
  /\ redraw' \in BOOLEAN
  /\ UNCHANGED <<mailbox, released, wake, events, window, shown>> /\ UNCHANGED hostVars

\* Binding or presenting fails, the window is closed, or the worker has
\* finished: the presenter, with its frame, is dropped.
DropPresenter(how) ==
  /\ \/ how = "failed" /\ step = "drawing"
     \/ how = "exited" /\ step = "wait" /\ window # "exited" /\ presenting
  /\ step' = "wait" /\ window' = how /\ redraw' = FALSE
  /\ events' = IF how = "exited" THEN 0 ELSE events
  /\ shown' = None /\ released' = released \o Optional(shown)
  /\ UNCHANGED <<mailbox, wake>> /\ UNCHANGED hostVars

\* The GPU reaches the point of a fence; only a display without a window
\* looks at them.
Reach(f) ==
  /\ ~presenting /\ f \notin reached
  /\ reached' = reached \cup {f}
  /\ UNCHANGED <<queues, layers, buffers, pending, mailbox, released, host, wake, events,
                 presenting>>
  /\ UNCHANGED windowVars

-----------------------------------------------------------------------------
Producer ==
  \/ CreateLayer \/ Teardown
  \/ \E l \in Layer :
       \/ RemoveLayer(l) \/ Connect(l) \/ Disconnect(l) \/ DequeueBuffer(l) \/ ResetEvent(l)
       \/ \E s \in Slots : \/ Preallocate(l, s) \/ Deallocate(l, s) \/ CancelBuffer(l, s)
                           \/ \E fences \in SUBSET Fence : QueueBuffer(l, s, fences)

Clock  == (\E n \in 0..MaxCrossed : Advance(n)) \/ Latch \/ Notify
Window == \/ Resumed \/ ReceiveFrameAvailable \/ HandleFrameAvailable
          \/ TakeLatest \/ Present \/ NotPresented
          \/ \E how \in {"failed", "exited"} : DropPresenter(how)

Next == Producer \/ Clock \/ Window \/ \E f \in Fence : Reach(f)

Spec == Init /\ [][Next]_vars

-----------------------------------------------------------------------------
TypeOK ==
  /\ queues \in [Layer -> Queue \cup {None}] /\ layers \in 0..MaxLayers
  /\ buffers \in 0..MaxBuffers
  /\ pending \in Seq(Frame) /\ released \in Seq(Frame)
  /\ mailbox \in Frame \cup {None} /\ shown \in Frame \cup {None}
  /\ host \in [pc : {"idle", "latch", "notify"}, left : 0..MaxCrossed]
  /\ wake \in BOOLEAN /\ events \in 0..1 /\ redraw \in BOOLEAN
  /\ window \in {"none", "open", "failed", "exited"} /\ step \in {"wait", "woken", "drawing"}
  /\ reached \subseteq Fence /\ presenting \in BOOLEAN

\* No slot is lost: somebody holds, or is about to return, every slot that
\* was queued, so that the producer gets it back.
QueuedHasHolder ==
  \A l \in Layer, s \in Slots :
    Owned(queues[l], s, "Queued") => Outstanding(l, s) # <<>>

\* A buffer on its way to the screen is not handed to the producer: as long
\* as no frame of an earlier buffer was under way when the slot was filled,
\* the slot is queued exactly while one frame of it is outstanding.
ShownIsNotReused ==
  \A l \in Layer, s \in Slots :
    queues[l] # None /\ queues[l].slots[s] # None /\ queues[l].slots[s].fresh =>
      Len(Outstanding(l, s)) = IF Owned(queues[l], s, "Queued") THEN 1 ELSE 0

\* A frame that still waits belongs to a layer that exists.
PendingHasLayer == \A i \in DOMAIN pending : queues[pending[i].layer] # None

\* The availability event never promises a slot that is not there.
AvailabilityIsReal ==
  \A l \in Layer : queues[l] # None /\ queues[l].available => HasFree(queues[l])

\* A slot that becomes free leaves the event signalled, or the producer that
\* waits for it would not be woken.
FreedSlotsSignal ==
  \A l \in Layer, s \in Slots :
    queues[l] # None /\ queues[l].slots[s] # None /\ queues[l].slots[s].own # "Free"
    /\ Owned(queues'[l], s, "Free")
      => queues'[l].available

FreeingSignals == [][FreedSlotsSignal]_vars

\* A frame in the mailbox of an open window has a message or a redraw under
\* way, whatever the interleaving of publications and redraws.
FrameNotForgotten ==
  mailbox # None /\ host.pc # "notify" /\ window = "open" =>
    events > 0 \/ step = "woken" \/ redraw

\* Slots, frames and wakeups agree, whatever producer, compositor and window
\* do meanwhile.
DisplayConsistent ==
  /\ TypeOK /\ QueuedHasHolder /\ PendingHasLayer
  /\ AvailabilityIsReal /\ FrameNotForgotten
=============================================================================
