---------------------------- MODULE GpuExecutor -----------------------------
(***************************************************************************)
(* The GPU executor of nvdrv (crates/horizon, nvdrv/gpu_executor.rs) with  *)
(* the calls that drive it: frontend threads that lower submissions, poll  *)
(* a fence and export images, CPU threads that need device memory made     *)
(* visible, the one owner thread that runs the backend, the host GPU, and  *)
(* teardown.  A step is a critical section or a channel operation; what    *)
(* the owner thread does to its own queue is part of the step it precedes. *)
(***************************************************************************)
EXTENDS HostControlOps, SequencesExt

CONSTANTS
  Frontend,         \* host threads that call ioctl
  Requester,        \* host threads that run guest code
  Plan,             \* what lowering may produce: segments, deferred, fence
  MaxSubmissions,   \* a bound on the submissions, and
  MoreSubmissions,  \* what "many" adds to it
  MaxChannels,      \* a bound on the channels opened
  Environments,     \* the sets of optional calls and faults considered
  Limit             \* MAX_GPU_SUBMISSIONS_IN_FLIGHT, 3 in the code

ASSUME ExecutorAssumption ==
  /\ Limit \in Nat \ {0}
  /\ Fd = {} /\ Waiter = {}   \* HostControl has the waits
  /\ Environments \subseteq SUBSET
       {"visibility", "present", "frame", "progress", "close", "failure",
        "refuse", "software", "crowd", "many"}

VARIABLES
  budget,     \* GpuWorkBudgetState
  front,      \* where each frontend is, and the work it holds
  queue,      \* the messages sent to the owner, at most Limit
  sender,     \* the executor still has its sender
  owner,      \* where the owner thread is, and whether it saw the stop
  works,      \* the owner's works, oldest first
  host,       \* BackendRuntime: pending, of which `done' completed; unreported
  failure,    \* the failure recorded for later calls
  request,    \* where each requester is
  control,    \* NvHostControl
  channel,    \* the syncpoint of the open channel, or None
  fence,      \* the point the compositor polls, or None
  teardown,   \* where teardown is
  submitted,  \* the submissions so far
  env         \* what else the environment does in this behaviour

gpu == <<works, host>>
guest == <<control, channel, fence>>
vars == <<budget, front, queue, sender, owner, gpu, failure, request, guest,
          teardown, submitted, env>>

(***************************************************************************)
(* Permits: a frontend that lowers has one, and every work has one.        *)
(***************************************************************************)
NoWork == [frontend |-> 0, released |-> FALSE]
Asleep(fr) == {f \in Frontend : fr[f].pc = "asleep"}

Awake(fr, woken) ==
  [f \in Frontend |-> IF f \in woken THEN [fr[f] EXCEPT !.pc = "reserving"]
                      ELSE fr[f]]

\* Mutant: dropping a permit gives back its place and not the preflight.
DroppedKeepingPreflight(b, permits) == [b EXCEPT !.active = @ - Len(permits)]

Dropped(b, permits) ==
  [b EXCEPT
     !.active = @ - Len(permits),
     !.preflight_blocked = @ /\ \A i \in 1 .. Len(permits) : permits[i].released]

\* Mutant: the drop wakes nobody.
NotifiedByNone(fr, permits) == {{}}

\* The sleepers that the drops wake: all of them if a preflight is released,
\* and otherwise one for every permit.
NotifiedBy(fr, permits) ==
  IF \E i \in 1 .. Len(permits) : ~permits[i].released THEN {Asleep(fr)}
  ELSE kSubset(Min({Len(permits), Cardinality(Asleep(fr))}), Asleep(fr))

\* The drop of permits, by a step that makes `front' fr.
DropPermits(permits, fr) ==
  /\ budget' = Dropped(budget, permits)
  /\ \E woken \in NotifiedBy(fr, permits) : front' = Awake(fr, woken)

release_preflight(fr) ==
  /\ budget' = [budget EXCEPT !.preflight_blocked = FALSE]
  /\ front' = Awake(fr, Asleep(fr))

(***************************************************************************)
(* The host GPU and BackendRuntime.  The backend completes submissions in  *)
(* their order; the runtime reports the front one, or one that an earlier  *)
(* visibility request had to wait for.                                     *)
(***************************************************************************)
HasCompletion(h) == h.unreported # <<>> \/ h.done > 0

Completion(h) == IF h.unreported # <<>> THEN Head(h.unreported) ELSE Head(h.pending)

Reported(h) ==
  IF h.unreported # <<>> THEN [h EXCEPT !.unreported = Tail(@)]
  ELSE [h EXCEPT !.pending = Tail(@), !.done = @ - 1]

submit(h) == [h EXCEPT !.pending = Append(@, h.next), !.next = @ + 1]

HostCompletes ==
  /\ host.done < Len(host.pending)
  /\ host' = [host EXCEPT !.done = @ + 1]
  /\ UNCHANGED <<budget, front, queue, sender, owner, works, failure, request,
                 guest, teardown, submitted, env>>

Init ==
  /\ budget = [active |-> 0, preflight_blocked |-> FALSE,
               progress_requested |-> FALSE, stopped |-> FALSE]
  /\ front = [f \in Frontend |-> [pc |-> "idle", work |-> NoWork]]
  /\ queue = <<>>
  /\ sender = TRUE
  /\ owner = [pc |-> "top", shutting |-> FALSE, visible |-> None]
  /\ works = <<>>
  /\ host = [pending |-> <<>>, done |-> 0, unreported |-> <<>>, next |-> 1]
  /\ failure = FALSE
  /\ request = [r \in Requester |-> [pc |-> "idle", at |-> 0]]
  /\ control = NvHostControl
  /\ channel = None
  /\ fence = None
  /\ teardown = "running"
  /\ submitted = 0
  /\ env \in Environments

\* The receiver lives as long as run_gpu_owner.
Receiving == owner.pc \notin {"failing", "stopping", "tearing", "ended", "panicked"}

\* A frontend may call while the client has its descriptors and the executor.
Calls(f) ==
  /\ front[f].pc = "idle"
  /\ teardown = "running"
  /\ "crowd" \in env \/ f = CHOOSE g \in Frontend : TRUE

Goto(f, place) == front' = [front EXCEPT ![f].pc = place]

(***************************************************************************)
(* A submission: reserve_submission, lowering under the permit, enqueue.   *)
(***************************************************************************)
SubmitIoctl(f) ==
  /\ Calls(f)
  /\ submitted < MaxSubmissions + (IF "many" \in env THEN MoreSubmissions ELSE 0)
  /\ channel # None
  /\ Goto(f, IF failure THEN "faulted" ELSE "reserving")
  /\ UNCHANGED <<budget, queue, sender, owner, gpu, failure, request, guest,
                 teardown, submitted, env>>

\* A frontend waits at the limit, and while the one before it prepares.
MustWaitForBudget == budget.active = Limit \/ budget.preflight_blocked

reserve_submission(f) ==
  /\ front[f].pc = "reserving"
  /\ CASE budget.stopped -> Goto(f, "faulted") /\ UNCHANGED <<budget, submitted, env>>
       [] ~budget.stopped /\ MustWaitForBudget ->
            Goto(f, "asleep") /\ UNCHANGED <<budget, submitted, env>>
       [] OTHER ->
            /\ budget' = [budget EXCEPT !.active = @ + 1,
                                        !.preflight_blocked = TRUE]
            /\ submitted' = submitted + 1
            /\ front' = [front EXCEPT ![f] =
                 [pc |-> "lowering", work |-> [NoWork EXCEPT !.frontend = submitted + 1]]]
  /\ UNCHANGED <<queue, sender, owner, gpu, failure, request, guest, teardown,
                 env>>

\* submit_ioctl succeeds: the plan, and the reservation of its fence.
Lower(f, plan) ==
  /\ front[f].pc = "lowering"
  /\ "software" \in env \/ plan.segments # 0
  /\ channel # None
  /\ plan.fence => CanReserveSubmission(control, channel, 1)
  /\ control' = IF plan.fence THEN reserve_channel_submission(control, channel, 1)
                ELSE control
  /\ front' = [front EXCEPT ![f] =
       [pc |-> "sending",
        work |-> [frontend |-> front[f].work.frontend,
                  segments |-> plan.segments,
                  deferred |-> plan.deferred,
                  reservation |->
                    IF plan.fence
                      THEN [syncpoint |-> channel,
                            reserved |-> Reservation(control.timelines[channel], 1)]
                      ELSE None,
                  prepared |-> TRUE,
                  pending |-> 0,
                  released |-> FALSE]]]
  /\ UNCHANGED <<budget, queue, sender, owner, gpu, failure, request, channel,
                 fence, teardown, submitted, env>>

\* submit_ioctl refuses the call: the permit is dropped.  The call returns to
\* the guest, or faults the process and leaves the reservation it has made.
LowerRefused(f) ==
  /\ "refuse" \in env \/ channel = None
  /\ front[f].pc = "lowering"
  /\ \E place \in {"idle", "faulted"} :
       DropPermits(<<front[f].work>>,
                   [front EXCEPT ![f] = [pc |-> place, work |-> NoWork]])
  /\ UNCHANGED <<queue, sender, owner, gpu, failure, request, guest, teardown,
                 submitted, env>>

\* enqueue: the last health check, then a send that waits for room.  A sender
\* taken by teardown may have been copied before.
enqueue(f) ==
  /\ front[f].pc = "sending"
  /\ \/ /\ failure \/ ~sender \/ ~Receiving
        /\ DropPermits(<<front[f].work>>,
                       [front EXCEPT ![f] = [pc |-> "faulted", work |-> NoWork]])
        /\ UNCHANGED queue
     \/ /\ ~failure /\ Receiving
        /\ Len(queue) < Limit
        /\ queue' = Append(queue, [type |-> "submission", work |-> front[f].work])
        /\ front' = [front EXCEPT ![f] = [pc |-> "idle", work |-> NoWork]]
        /\ UNCHANGED budget
  /\ UNCHANGED <<sender, owner, gpu, failure, request, guest, teardown, submitted, env>>

(***************************************************************************)
(* Progress: the ioctls of nvhost-ctrl and the compositor's poll demand    *)
(* it.  The flag is set, and the thread that set it wakes the owner.       *)
(***************************************************************************)
IoctlProgress(f) ==
  /\ "progress" \in env
  /\ Calls(f)
  /\ IF failure \/ budget.stopped
       THEN Goto(f, "faulted") /\ UNCHANGED budget
       ELSE /\ budget' = [budget EXCEPT !.progress_requested = TRUE]
            /\ IF budget.progress_requested THEN UNCHANGED front
               ELSE Goto(f, "waking")
  /\ UNCHANGED <<queue, sender, owner, gpu, failure, request, guest, teardown,
                 submitted, env>>

\* Mutant: the poll only looks at the counter.
PollSilently(f) ==
  /\ Calls(f)
  /\ fence # None
  /\ point_reached(control, fence.syncpoint, fence.value)
  /\ fence' = None
  /\ UNCHANGED <<budget, front, queue, sender, owner, gpu, failure, request, control, channel,
                 teardown, submitted, env>>

\* guest_timeline_point_reached: the poll ignores an executor that is gone.
Poll(f) ==
  /\ Calls(f)
  /\ fence # None
  /\ IF point_reached(control, fence.syncpoint, fence.value)
       THEN fence' = None /\ UNCHANGED <<budget, front>>
       ELSE /\ UNCHANGED fence
            /\ IF failure \/ budget.stopped THEN UNCHANGED <<budget, front>>
               ELSE /\ budget' = [budget EXCEPT !.progress_requested = TRUE]
                    /\ IF budget.progress_requested THEN UNCHANGED front
                       ELSE Goto(f, "poking")
  /\ UNCHANGED <<queue, sender, owner, gpu, failure, request, control, channel,
                 teardown, submitted, env>>

\* wake_gpu_owner: a queue that is full wakes the owner as well.
wake_gpu_owner(f) ==
  /\ front[f].pc \in {"waking", "poking"}
  /\ Goto(f, IF (sender /\ Receiving) \/ front[f].pc = "poking"
               THEN "idle" ELSE "faulted")
  /\ queue' = IF sender /\ Receiving /\ Len(queue) < Limit
                THEN Append(queue, [type |-> "wake"]) ELSE queue
  /\ UNCHANGED <<budget, sender, owner, gpu, failure, request, guest, teardown,
                 submitted, env>>

\* The frame of the newest reserved point is queued for presentation.
QueueFrame(f) ==
  /\ "frame" \in env
  /\ Calls(f)
  /\ fence = None
  /\ channel # None
  /\ LET timeline == control.timelines[channel]
     IN /\ timeline.reservations # <<>>
        /\ fence' = [syncpoint |-> channel, value |-> Last(timeline.reservations).value]
  /\ UNCHANGED <<budget, front, queue, sender, owner, gpu, failure, request,
                 control, channel, teardown, submitted, env>>

(***************************************************************************)
(* Requests with a reply: the export of an image, by a frontend, and CPU   *)
(* visibility up to a backend submission, by a thread in guest code.       *)
(***************************************************************************)
acquire_presentable_image(f) ==
  /\ "present" \in env
  /\ Calls(f)
  /\ IF failure \/ ~sender \/ ~Receiving
       THEN Goto(f, "faulted") /\ UNCHANGED queue
       ELSE /\ Len(queue) < Limit
            /\ queue' = Append(queue, [type |-> "present", who |-> f])
            /\ Goto(f, "presenting")
  /\ UNCHANGED <<budget, sender, owner, gpu, failure, request, guest, teardown,
                 submitted, env>>

Fault(r, at) ==
  /\ "visibility" \in env
  /\ request[r].pc = "idle"
  /\ request' = [request EXCEPT ![r] = [pc |-> "sending", at |-> at]]
  /\ UNCHANGED <<budget, front, queue, sender, owner, gpu, failure, guest,
                 teardown, submitted, env>>

make_cpu_visible(r) ==
  /\ request[r].pc = "sending"
  /\ IF ~Receiving
       THEN /\ request' = [request EXCEPT ![r] = [pc |-> "idle", at |-> 0]]
            /\ UNCHANGED queue
       ELSE /\ Len(queue) < Limit
            /\ queue' = Append(queue, [type |-> "visibility", who |-> r])
            /\ request' = [request EXCEPT ![r].pc = "waiting"]
  /\ UNCHANGED <<budget, front, sender, owner, gpu, failure, guest, teardown,
                 submitted, env>>

(***************************************************************************)
(* Channels: a channel takes a syncpoint, and gives it back when closed,   *)
(* whatever the executor still has of it.                                  *)
(***************************************************************************)
OpenChannel ==
  /\ teardown = "running"
  /\ channel = None
  /\ control.next_timeline_instance <= MaxChannels
  /\ channel' = Min(FreeSyncpoints(control))
  /\ control' = allocate_channel_syncpoint(control)
  /\ UNCHANGED <<budget, front, queue, sender, owner, gpu, failure, request,
                 fence, teardown, submitted, env>>

CloseChannel ==
  /\ "close" \in env
  /\ teardown = "running"
  /\ channel # None
  /\ control' = release_channel_syncpoint(control, channel)
  /\ channel' = None
  /\ UNCHANGED <<budget, front, queue, sender, owner, gpu, failure, request,
                 fence, teardown, submitted, env>>

(***************************************************************************)
(* The owner thread: run_gpu_owner.                                        *)
(***************************************************************************)
OwnerGoto(place) == owner' = [owner EXCEPT !.pc = place]

work_has_pending_segment(work) == work.pending # 0
work_allows_following(work) == work.released

\* Mutant: writes deferred to the completion do not hold the next frontend.
release_after_every_submission(work) == TRUE

release_after_submission(work) == ~work.deferred

\* A completed segment is followed by the next one, or by publication.
continue_work == ~owner.shutting

AnyPending == \E i \in 1 .. Len(works) : work_has_pending_segment(works[i])
FirstPending == SelectInSeq(works, work_has_pending_segment)

\* Where the owner goes when the backend reports nothing more.
Polled(shutting, remaining) ==
  CASE ~shutting -> "start"
    [] shutting /\ remaining = <<>> -> "exiting"
    [] OTHER -> "wait"

\* The top of the loop, and the first poll: once the stop is seen, work that
\* has not started is dropped.
OwnerTop ==
  LET idle(work) == ~work_has_pending_segment(work)
      kept == SelectSeq(works, work_has_pending_segment)
  IN /\ owner.pc = "top"
     /\ owner' = [owner EXCEPT
          !.shutting = budget.stopped,
          !.pc = IF HasCompletion(host) THEN "drain" ELSE Polled(budget.stopped, kept)]
     /\ IF budget.stopped
          THEN works' = kept /\ DropPermits(SelectSeq(works, idle), front)
          ELSE UNCHANGED <<works, budget, front>>
     /\ UNCHANGED <<queue, sender, host, failure, request, guest, teardown,
                    submitted, env>>

\* advance_backend_work with a segment left: submit it, and let the next
\* frontend in if it is the last one and nothing it writes is deferred.
SubmitSegment(i, work, h, rest) ==
  LET final == work.segments = 1
      releases == final /\ release_after_submission(work) /\ ~work.released
  IN /\ host' = submit(h)
     /\ works' = InsertAt(rest, i,
          [work EXCEPT !.segments = @ - 1,
                       !.prepared = FALSE,
                       !.pending = h.next,
                       !.released = @ \/ releases])
     /\ IF releases THEN release_preflight(front) ELSE UNCHANGED <<budget, front>>
     /\ UNCHANGED control

PublishFails(work) ==
  /\ work.reservation # None
  /\ ~CanComplete(control, work.reservation.syncpoint, work.reservation.reserved)

\* publish_guest_completion of a work, which is then dropped.
Publish(work, h, rest) ==
  /\ host' = h
  /\ works' = rest
  /\ control' = IF work.reservation = None THEN control
                ELSE complete_channel_submission(control,
                       work.reservation.syncpoint, work.reservation.reserved)
  /\ DropPermits(<<work>>, front)

\* complete_backend_segment.  A completion that is not the one expected, or
\* that the timeline refuses, ends the owner with a failure.
complete_backend_segment(next) ==
  LET i == FirstPending
      work == works[i]
      rest == RemoveAt(works, i)
      h == Reported(host)
  IN \/ /\ i = 0 \/ work.pending # Completion(host)
        /\ host' = h
        /\ OwnerGoto("failed")
        /\ UNCHANGED <<budget, front, works, control>>
     \/ /\ i # 0 /\ work.pending = Completion(host)
        /\ ~continue_work
        /\ host' = h
        /\ works' = rest
        /\ DropPermits(<<work>>, front)
        /\ OwnerGoto(next)
        /\ UNCHANGED control
     \/ /\ i # 0 /\ work.pending = Completion(host)
        /\ continue_work
        /\ work.segments # 0
        /\ SubmitSegment(i, work, h, rest)
        /\ OwnerGoto(next)
     \/ /\ i # 0 /\ work.pending = Completion(host)
        /\ continue_work
        /\ work.segments = 0
        /\ Publish(work, h, rest)
        /\ OwnerGoto(IF PublishFails(work) THEN "failed" ELSE next)

\* drain_backend_completions, one completion a step, until none is reported.
OwnerDrain ==
  /\ owner.pc = "drain"
  /\ complete_backend_segment(
       IF HasCompletion(Reported(host)) THEN "drain" ELSE Polled(owner.shutting, works'))
  /\ UNCHANGED <<queue, sender, failure, request, channel, fence, teardown,
                 submitted, env>>

\* wait_for_completion: blocks while the backend has something pending, and
\* fails when it has nothing.
OwnerWait ==
  /\ owner.pc = "wait"
  /\ \/ HasCompletion(host) /\ complete_backend_segment("top")
     \/ /\ host.pending = <<>> /\ host.unreported = <<>>
        /\ OwnerGoto("failed")
        /\ UNCHANGED <<budget, front, gpu, control>>
  /\ UNCHANGED <<queue, sender, failure, request, channel, fence, teardown,
                 submitted, env>>

\* start_ready_work, one work a step: the first prepared work, if everything
\* before it lets it follow.
Ready == SelectInSeq(works, LAMBDA work : work.prepared)

MayStart ==
  /\ Ready # 0
  /\ \A i \in 1 .. Ready - 1 : work_allows_following(works[i])
  /\ Ready = 1 \/ works[Ready].segments # 0

StartBackendWork ==
  /\ owner.pc = "start"
  /\ MayStart /\ works[Ready].segments # 0
  /\ SubmitSegment(Ready, works[Ready], host, RemoveAt(works, Ready))
  /\ UNCHANGED <<queue, sender, owner, failure, request, channel, fence,
                 teardown, submitted, env>>

\* The backend refuses a segment, or fails while it is polled or waited for.
BackendFails ==
  /\ "failure" \in env
  /\ \/ owner.pc \in {"drain", "wait"}
     \/ owner.pc = "start" /\ MayStart
  /\ OwnerGoto("failed")
  /\ UNCHANGED <<budget, front, queue, sender, gpu, failure, request, guest,
                 teardown, submitted, env>>

\* Software work: the plan has been taken out of the work when
\* publish_guest_completion expects it there.
StartSoftwareWork ==
  /\ owner.pc = "start"
  /\ MayStart /\ works[Ready].segments = 0
  /\ OwnerGoto("panicking")
  /\ UNCHANGED <<budget, front, queue, sender, gpu, failure, request, guest,
                 teardown, submitted, env>>

MustWait ==
  \/ Len(works) = Limit
  \/ works # <<>> /\ ~work_allows_following(Last(works))
  \/ budget.progress_requested /\ AnyPending

OwnerDecides ==
  /\ owner.pc = "start"
  /\ ~MayStart
  /\ budget' = [budget EXCEPT !.progress_requested = FALSE]
  /\ OwnerGoto(IF MustWait THEN "wait" ELSE "recv")
  /\ UNCHANGED <<front, queue, sender, gpu, failure, request, guest, teardown,
                 submitted, env>>

OwnerReceives ==
  LET message == Head(queue)
  IN /\ owner.pc = "recv"
     /\ queue # <<>>
     /\ queue' = Tail(queue)
     /\ owner' = IF message.type = "visibility" /\ ~budget.stopped
                   THEN [owner EXCEPT !.pc = "visible", !.visible = message.who]
                   ELSE [owner EXCEPT !.pc = "top"]
     /\ CASE message.type = "submission" /\ ~budget.stopped ->
               /\ works' = Append(works, message.work)
               /\ UNCHANGED <<budget, front, request>>
          [] message.type = "submission" /\ budget.stopped ->
               /\ DropPermits(<<message.work>>, front)
               /\ UNCHANGED <<works, request>>
          [] message.type = "wake" -> UNCHANGED <<budget, front, works, request>>
          [] message.type = "present" ->
               /\ front' = [front EXCEPT ![message.who].pc = "idle"]
               /\ UNCHANGED <<budget, works, request>>
          [] message.type = "visibility" ->
               /\ request' = IF budget.stopped
                    THEN [request EXCEPT ![message.who] = [pc |-> "idle", at |-> 0]]
                    ELSE request
               /\ UNCHANGED <<budget, front, works>>
     /\ UNCHANGED <<sender, host, failure, guest, teardown, submitted, env>>

\* Mutant: completions found by a visibility request are not kept.
OwnerMakesVisibleForgetting ==
  LET r == owner.visible
  IN /\ owner.pc = "visible"
     /\ IF host.pending # <<>> /\ Head(host.pending) <= request[r].at
          THEN /\ host.done > 0
               /\ host' = [host EXCEPT !.pending = Tail(@), !.done = @ - 1]
               /\ UNCHANGED <<owner, request>>
          ELSE /\ request' = [request EXCEPT ![r] = [pc |-> "idle", at |-> 0]]
               /\ owner' = [owner EXCEPT !.pc = "top", !.visible = None]
               /\ UNCHANGED host
     /\ UNCHANGED <<budget, front, queue, sender, works, failure, guest,
                    teardown, submitted, env>>

\* BackendRuntime::make_cpu_visible: waits for the submissions up to the one
\* the request names, keeps their completions, and replies.
OwnerMakesVisible ==
  LET r == owner.visible
  IN /\ owner.pc = "visible"
     /\ IF host.pending # <<>> /\ Head(host.pending) <= request[r].at
          THEN /\ host.done > 0
               /\ host' = [host EXCEPT !.pending = Tail(@), !.done = @ - 1,
                                       !.unreported = Append(@, Head(host.pending))]
               /\ UNCHANGED <<owner, request>>
          ELSE /\ request' = [request EXCEPT ![r] = [pc |-> "idle", at |-> 0]]
               /\ owner' = [owner EXCEPT !.pc = "top", !.visible = None]
               /\ UNCHANGED host
     /\ UNCHANGED <<budget, front, queue, sender, works, failure, guest,
                    teardown, submitted, env>>

(***************************************************************************)
(* The end of the owner thread.  Its works and the receiver, with all that *)
(* was queued, die first: a reply that can no longer come is seen as lost. *)
(* A panic skips the stop and the teardown of the backend.                 *)
(***************************************************************************)
Queued(type) == {i \in 1 .. Len(queue) : queue[i].type = type}

LostReply == {queue[i].who : i \in Queued("visibility") \cup Queued("present")}

QueuedWork ==
  LET submissions == SelectSeq(queue, LAMBDA message : message.type = "submission")
  IN [i \in 1 .. Len(submissions) |-> submissions[i].work]

OwnerReturns ==
  /\ owner.pc \in {"exiting", "failed", "panicking"}
  /\ works' = <<>>
  /\ queue' = <<>>
  /\ DropPermits(works \o QueuedWork,
       [f \in Frontend |-> IF f \in LostReply THEN [front[f] EXCEPT !.pc = "faulted"]
                           ELSE front[f]])
  /\ request' = [r \in Requester |->
       IF r \in LostReply THEN [pc |-> "idle", at |-> 0] ELSE request[r]]
  /\ OwnerGoto(CASE owner.pc = "exiting" -> "stopping"
                 [] owner.pc = "failed" -> "failing"
                 [] owner.pc = "panicking" -> "panicked")
  /\ UNCHANGED <<sender, host, failure, guest, teardown, submitted, env>>

RecordFailure ==
  /\ owner.pc = "failing"
  /\ failure' = TRUE
  /\ OwnerGoto("stopping")
  /\ UNCHANGED <<budget, front, queue, sender, gpu, request, guest, teardown,
                 submitted, env>>

OwnerStops ==
  /\ owner.pc = "stopping"
  /\ budget' = [budget EXCEPT !.stopped = TRUE]
  /\ front' = Awake(front, Asleep(front))
  /\ OwnerGoto("tearing")
  /\ UNCHANGED <<queue, sender, gpu, failure, request, guest, teardown, submitted, env>>

\* BackendRuntime::teardown waits for everything that is pending.
OwnerTearsDown ==
  /\ owner.pc = "tearing"
  /\ host.done = Len(host.pending)
  /\ host' = [host EXCEPT !.pending = <<>>, !.done = 0, !.unreported = <<>>]
  /\ OwnerGoto("ended")
  /\ UNCHANGED <<budget, front, queue, sender, works, failure, request, guest,
                 teardown, submitted, env>>

(***************************************************************************)
(* Teardown of the client: the executor is stopped, its sender taken and   *)
(* the owner woken; then the thread is joined and the control cleared.     *)
(***************************************************************************)
TeardownStops ==
  /\ teardown = "running"
  /\ teardown' = "stopped"
  /\ channel' = None
  /\ budget' = [budget EXCEPT !.stopped = TRUE]
  /\ front' = Awake(front, Asleep(front))
  /\ UNCHANGED <<queue, sender, owner, gpu, failure, request, control, fence,
                 submitted, env>>

TeardownWakes ==
  /\ teardown = "stopped"
  /\ teardown' = "joining"
  /\ sender' = FALSE
  /\ queue' = IF Receiving /\ Len(queue) < Limit
                THEN Append(queue, [type |-> "wake"]) ELSE queue
  /\ UNCHANGED <<budget, front, owner, gpu, failure, request, guest, submitted, env>>

TeardownJoins ==
  /\ teardown = "joining"
  /\ owner.pc \in {"ended", "panicked"}
  /\ teardown' = "done"
  /\ failure' = (failure \/ owner.pc = "panicked")
  /\ control' = clear(control)
  /\ fence' = None
  /\ UNCHANGED <<budget, front, queue, sender, owner, gpu, request, channel,
                 submitted, env>>

(***************************************************************************)
(* The specification.                                                      *)
(***************************************************************************)
FrontendStep(f) ==
  \/ reserve_submission(f)
  \/ \E plan \in Plan : Lower(f, plan)
  \/ LowerRefused(f)
  \/ enqueue(f)
  \/ wake_gpu_owner(f)

OwnerStep ==
  \/ OwnerTop \/ OwnerDrain \/ OwnerWait
  \/ StartBackendWork \/ StartSoftwareWork \/ OwnerDecides
  \/ OwnerReceives \/ OwnerMakesVisible
  \/ OwnerReturns \/ RecordFailure \/ OwnerStops \/ OwnerTearsDown

Next ==
  \/ \E f \in Frontend :
       \/ SubmitIoctl(f) \/ IoctlProgress(f) \/ Poll(f) \/ QueueFrame(f)
       \/ acquire_presentable_image(f)
       \/ FrontendStep(f)
  \/ \E r \in Requester :
       \/ \E at \in 1 .. host.next - 1 : Fault(r, at)
       \/ make_cpu_visible(r)
  \/ OpenChannel \/ CloseChannel
  \/ OwnerStep \/ BackendFails
  \/ HostCompletes
  \/ TeardownStops \/ TeardownWakes \/ TeardownJoins

Spec == Init /\ [][Next]_vars

\* Every host thread runs, the host GPU finishes what it is given, and the
\* compositor polls at every tick of the display clock.
FairSpec ==
  /\ Spec
  /\ WF_vars(OwnerStep)
  /\ WF_vars(HostCompletes)
  /\ WF_vars(\E f \in Frontend : FrontendStep(f))
  /\ WF_vars(\E f \in Frontend : Poll(f))
  /\ WF_vars(\E r \in Requester : make_cpu_visible(r))
  /\ WF_vars(TeardownWakes \/ TeardownJoins)

(***************************************************************************)
(* Properties.                                                             *)
(***************************************************************************)
Sending == {f \in Frontend : front[f].pc = "sending"}
Permits ==
  {[permit |-> front[f].work.frontend, released |-> FALSE] :
     f \in {g \in Frontend : front[g].pc \in {"lowering", "sending"}}}
  \cup {[permit |-> work.frontend, released |-> work.released] :
           work \in Range(works \o QueuedWork)}

\* The executor keeps the promise of GpuWorkBudget, whoever holds the permits:
\* the frontend, a message in the queue, the owner, or a panicking thread.
Budget == INSTANCE GpuWorkBudget WITH
  Permit <- 1 .. MaxSubmissions + MoreSubmissions + Cardinality(Frontend),
  active <- budget.active,
  preflight_blocked <- budget.preflight_blocked,
  stopped <- budget.stopped,
  held <- {p.permit : p \in Permits},
  released <- {p.permit : p \in {q \in Permits : q.released}}

BudgetKept == Budget!Spec

\* Places are where they should be, and the queue never outgrows its bound.
TypeOK ==
  /\ budget.active \in 0 .. Limit
  /\ Len(queue) <= Limit
  /\ Len(works) <= Limit
  /\ host.done <= Len(host.pending)
  /\ \A f \in Frontend :
       front[f].pc \in {"idle", "reserving", "asleep", "lowering", "sending",
                        "waking", "poking", "presenting", "faulted"}
  /\ \A r \in Requester : request[r].pc \in {"idle", "sending", "waiting"}

\* The segments the backend will report are the pending segments of the works,
\* in the order of the works: the completion of "a different segment" or of
\* "an unknown GPU segment" cannot happen, visibility requests included.
CompletionsMatchWorks ==
  Receiving /\ owner.pc # "failed" =>
    LET started == SelectSeq(works, work_has_pending_segment)
    IN host.unreported \o host.pending = [i \in 1 .. Len(started) |-> started[i].pending]

\* The owner waits for a completion only when the backend has one to give: it
\* never reports "GPU runtime lost its pending submission".
OwnerWaitsForSomething ==
  owner.pc = "wait" => host.unreported \o host.pending # <<>>

\* While a frontend lowers a submission, every earlier one in the executor has
\* been handed to the backend entirely and has no write deferred to its
\* completion: what lowering reads from guest memory is not about to change.
LoweringSeesWrites ==
  \A f \in Frontend :
    front[f].pc = "lowering" =>
      \A work \in Range(works \o QueuedWork) :
        work.pending # 0 /\ work.segments = 0 /\ ~work.deferred

\* Until something fails, the reservations of a channel's timeline are those of
\* the submissions on their way, in the same order: a completion always finds
\* its reservation at the front, and none is stranded.
ReservationsFollowWorks ==
  LET onTheWay == works \o QueuedWork \o SetToSeq({front[f].work : f \in Sending})
      mine == SelectSeq(onTheWay, LAMBDA work :
                /\ work.reservation # None
                /\ work.reservation.reserved.instance
                     = control.timelines[channel].instance)
  IN /\ channel # None /\ Receiving /\ ~budget.stopped
     /\ owner.pc \notin {"failed", "panicking"}
     /\ \A f \in Frontend : front[f].pc # "faulted"
     => control.timelines[channel].reservations
          = [i \in 1 .. Len(mine) |-> mine[i].reservation.reserved]

\* Works, backend and timeline agree on what is under way.
ExecutorConsistent ==
  /\ TypeOK /\ CompletionsMatchWorks /\ OwnerWaitsForSomething
  /\ ReservationsFollowWorks

\* Nobody waits for the executor forever: a frontend that waits for the budget
\* gets a permit or sees the stop, and whoever waits for a reply gets it or
\* sees it lost, through the end, the failure and the panic of the owner.
SomeoneWaits ==
  \/ \E f \in Frontend : front[f].pc \in {"reserving", "asleep", "presenting"}
  \/ \E r \in Requester : request[r].pc = "waiting"

WaitsEnd == SomeoneWaits ~> ~SomeoneWaits

\* Teardown joins the owner thread, from wherever it is.
TeardownEnds == teardown = "stopped" ~> teardown = "done"

\* Nobody is left waiting, through the whole life of the executor.
ExecutorServes == WaitsEnd /\ TeardownEnds

\* A fence that the compositor polls is reached, unless the executor ends or
\* the process faults: polling is demand enough, no periodic wakeup is needed.
PolledFenceReached ==
  fence # None ~>
    fence = None \/ ~Receiving \/ \E f \in Frontend : front[f].pc = "faulted"

\* The owner does not find a work without its execution state.
OwnerNeverPanics == owner.pc # "panicking"

\* A syncpoint is taken by another channel only when no submission of the
\* channel that had it is left in the executor.
ReuseAfterOwnershipGone ==
  channel # None =>
    \A work \in Range(works \o QueuedWork) :
      work.reservation # None /\ work.reservation.syncpoint = channel =>
        work.reservation.reserved.instance = control.timelines[channel].instance
=============================================================================
