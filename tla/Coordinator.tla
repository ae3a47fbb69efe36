---------------------------- MODULE Coordinator ----------------------------
(***************************************************************************)
(* The RuntimeCoordinator driven by its composition root (the loop of the  *)
(* `run' command).  The root drains the external events, runs one wave of  *)
(* leases, routes the supervisor calls the wave came back with, and starts *)
(* again; a stop it cannot handle ends the loop, and the processes are     *)
(* removed.  Meanwhile host threads signal events and request a stop, and  *)
(* the guest, on the worker threads, does what it likes.                   *)
(***************************************************************************)
EXTENDS CoordinatorOps

CONSTANTS
  Stop,      \* the ways a slice may end in this instance
  Call,      \* the supervisor calls the guest makes in this instance
  Host,      \* what the host does in this instance
  Timeout,   \* the timeouts of waits, in virtual time: naturals or None
  Parallel   \* VcpuExecutionMode::Parallel, else Deterministic

AllStops ==
  {"Budget", "Interrupted", "Yield", "WaitForEvent", "WaitForInterrupt",
   "SendEvent", "SupervisorCall", "LoaderReturn", "Unrunnable", "Trap",
   "Error"}

AllCalls ==
  {"Resume", "Wait", "Sleep", "CreateThread", "StartThread", "SetPriority",
   "SetAffinity", "SetActivity", "Lock", "Unlock", "Reap", "ExitThread",
   "ExitProcess", "Fault"}

AllHostRequests ==
  {"HostStop", "PostInterrupt", "RegistrationFailure", "RemoveProcess",
   "Shutdown"}

ASSUME InstanceAssumption ==
  /\ Stop \subseteq AllStops
  /\ Call \subseteq AllCalls
  /\ Host \subseteq AllHostRequests
  /\ Timeout \subseteq Nat \cup {None}
  /\ Parallel \in BOOLEAN

VARIABLES
  coord,       \* the coordinator
  wave,        \* the leases dispatched to workers and not yet received
  failed,      \* an execution of the wave failed: first_error
  executions,  \* the stops of the last wave the root has yet to handle
  inbox,       \* the wake tokens published by watchers and not yet received
  stop_sent,   \* HostStop is in the inbox
  root         \* what the composition root is doing

vars == <<coord, wave, failed, executions, inbox, stop_sent, root>>

RootState == {"running", "drained", "stopped", "shut_down", "panicked"}

Init ==
  /\ coord = NewCoordinator
  /\ wave = <<>>
  /\ failed = FALSE
  /\ executions = <<>>
  /\ inbox = {}
  /\ stop_sent = FALSE
  /\ root = "running"

\* The root is at the top of its loop; it is "drained" once it has seen the
\* inbox empty, and then runs a wave.
AtLoopTop == root = "running" /\ wave = <<>> /\ executions = <<>>

RootUnchanged == UNCHANGED <<wave, failed, executions, inbox, stop_sent, root>>

(***************************************************************************)
(* Processes.                                                              *)
(***************************************************************************)
MainThreadReady(c, config) ==
  make_ready(register(c.scheduler, c.next_thread_id, config), c.next_thread_id)

register_process(c, config) ==
  [c EXCEPT !.scheduler = MainThreadReady(c, config),
            !.processes[c.next_process_id] =
               [lifecycle |-> "Running",
                main_thread_id |-> c.next_thread_id,
                threads |-> {c.next_thread_id}],
            !.next_process_id = @ + 1,
            !.next_thread_id = @ + 1]

\* A worker refuses a CPU thread: the registration is rolled back.
register_process_rolled_back(c, config) ==
  [c EXCEPT !.scheduler =
     unregister(MainThreadReady(c, config), c.next_thread_id)]

Config(priority, ideal, affinity) ==
  [priority |-> priority, ideal |-> ideal, affinity |-> affinity]

RegisterProcess ==
  /\ AtLoopTop
  /\ coord.next_process_id \in ProcessId
  /\ coord.next_thread_id \in ThreadId
  /\ \E priority \in Priority, affinity \in CoreSet :
       \E ideal \in affinity \cup {None} :
         LET config == Config(priority, ideal, affinity)
         IN \/ coord' = register_process(coord, config)
            \/ /\ "RegistrationFailure" \in Host
               /\ coord' = register_process_rolled_back(coord, config)
  /\ RootUnchanged

remove_process(c, p) ==
  LET Release(k, t) ==
        [release_wait_resources(k, t) EXCEPT !.scheduler = unregister(@, t)]
      kept == DropDonationsOf(c, ThreadsOf(c, p))
      gone == FoldLeft(Release, kept, InOrder(ThreadsOf(c, p)))
  IN recompute_effective_priorities(
       [gone EXCEPT !.processes[p] = NoProcess])

\* The root removes a process when its loop has ended; a host with several
\* processes also does so between two waves.
RemoveProcess(p) ==
  /\ "RemoveProcess" \in Host
  /\ root = "stopped" \/ AtLoopTop
  /\ p \in Registrations(coord)
  /\ coord' = remove_process(coord, p)
  /\ RootUnchanged

\* The threads are terminated in the order of their ids, up to the first one
\* that was terminal already: there the command is refused and the call ends.
terminate_process(c, p) ==
  LET terminal == {t \in ThreadsOf(c, p) : IsTerminal(c, t)}
      reached == {t \in ThreadsOf(c, p) : \A u \in terminal : t <= u}
      Terminate(s, t) == terminate(s, t, FALSE)
  IN [c EXCEPT !.processes[p].lifecycle = "Exited",
               !.cpu_waits = [t \in ThreadId |->
                                IF t \in reached THEN None ELSE @[t]],
               !.scheduler = FoldLeft(Terminate, @, InOrder(reached \ terminal))]

\* What the root does once the host has asked it to stop.  main_thread()
\* panics when the main thread is gone.
TerminateProcess(p) ==
  /\ root = "drained"
  /\ coord.host_stop_requested
  /\ coord.processes[p].lifecycle = "Running"
  /\ IF coord.processes[p].main_thread_id \in ThreadsOf(coord, p)
       THEN coord' = terminate_process(coord, p) /\ root' = "stopped"
       ELSE root' = "panicked" /\ UNCHANGED coord
  /\ UNCHANGED <<wave, failed, executions, inbox, stop_sent>>

shutdown(c) ==
  LET removed == FoldLeft(remove_process, c, InOrder(Registrations(c)))
      waiting == {t \in ThreadId : ActiveWait(removed, t) # None}
      released == FoldLeft(release_wait_resources, removed, InOrder(waiting))
  IN IF c.host_stop_requested
       THEN c
       ELSE [released EXCEPT !.cpu_waits = [t \in ThreadId |-> None],
                             !.deadlines = {},
                             !.host_stop_requested = TRUE]

\* Shutdown may be repeated.
Shutdown ==
  /\ "Shutdown" \in Host
  /\ AtLoopTop \/ root \in {"stopped", "shut_down"}
  /\ coord' = shutdown(coord)
  /\ root' = "shut_down"
  /\ UNCHANGED <<wave, failed, executions, inbox, stop_sent>>

(***************************************************************************)
(* External events.                                                        *)
(***************************************************************************)
\* A watcher of a group wins and publishes the wake of its token; EventWait
\* has the protocol, and shows that it happens at most once per group.
WatcherFires(token) ==
  /\ token \in coord.groups \ inbox
  /\ inbox' = inbox \cup {token}
  /\ UNCHANGED <<coord, wave, failed, executions, stop_sent, root>>

RequestHostStop ==
  /\ "HostStop" \in Host
  /\ stop_sent' = TRUE
  /\ UNCHANGED <<coord, wave, failed, executions, inbox, root>>

\* drain_external_events, and wait_for_external_event_for when it is idle.
ReceiveWake(token) ==
  /\ AtLoopTop
  /\ token \in inbox
  /\ coord' = apply_wake(coord, token)
  /\ inbox' = inbox \ {token}
  /\ UNCHANGED <<wave, failed, executions, stop_sent, root>>

ReceiveHostStop ==
  /\ AtLoopTop
  /\ stop_sent
  /\ coord' = [coord EXCEPT !.host_stop_requested = TRUE]
  /\ stop_sent' = FALSE
  /\ UNCHANGED <<wave, failed, executions, inbox, root>>

DrainEnds ==
  /\ AtLoopTop
  /\ inbox = {}
  /\ ~stop_sent
  /\ root' = "drained"
  /\ UNCHANGED <<coord, wave, failed, executions, inbox, stop_sent>>

PostVcpuInterrupt(v) ==
  /\ AtLoopTop
  /\ "PostInterrupt" \in Host
  /\ coord' = post_vcpu_interrupt(coord, v)
  /\ RootUnchanged

(***************************************************************************)
(* Waves.  At the top of the loop no lease is active, so every vCPU is     *)
(* idle.                                                                   *)
(***************************************************************************)
DispatchWave(c, leases) ==
  /\ coord' = c
  /\ wave' = leases
  /\ failed' = FALSE
  /\ root' = "running"
  /\ UNCHANGED <<executions, inbox, stop_sent>>

RunNext ==
  /\ ~Parallel
  /\ root = "drained"
  /\ ~coord.host_stop_requested
  /\ LET c == IF coord.scheduler.ready # {}
                THEN coord ELSE fast_forward_to_next_deadline(coord)
     IN \/ c.scheduler.ready = {} /\ DispatchWave(c, <<>>)
        \/ \E key \in FirstOf(Dispatchable(c.scheduler)) :
             \E v \in Placement(c.scheduler, key) :
               LET s == select(c.scheduler, v, key)
               IN DispatchWave([c EXCEPT !.scheduler = s], <<s.vcpus[v]>>)

\* Each vCPU in turn takes the first thread that may run on it.
SelectOn(s, v) ==
  LET first == FirstOf(EligibleFor(s, v))
  IN IF first = {} THEN s ELSE select(s, v, CHOOSE key \in first : TRUE)

RunParallelWave ==
  /\ Parallel
  /\ root = "drained"
  /\ ~coord.host_stop_requested
  /\ LET c == fast_forward_until_ready(coord)
         s == FoldLeft(SelectOn, c.scheduler, InOrder(Vcpu))
         Busy(v) == ~Idle(s, v)
         busy == SelectSeq(InOrder(Vcpu), Busy)
     IN DispatchWave([c EXCEPT !.scheduler = s],
                     [i \in DOMAIN busy |-> s.vcpus[busy[i]]])

\* The guest, on its worker, sets (SEVL) or consumes (WFE) the event flag of
\* the vCPU it runs on.
GuestEventFlag(v) ==
  /\ "WaitForEvent" \in Stop
  /\ \E i \in DOMAIN wave : wave[i].vcpu = v
  /\ coord' = [coord EXCEPT !.event[v] = ~@]
  /\ RootUnchanged

Completed(c, lease, outcome) ==
  [c EXCEPT !.scheduler = complete(@, lease, outcome)]

CpuWaiting(c, lease, request) ==
  [Completed(c, lease, "Waiting")
     EXCEPT !.cpu_waits[lease.thread] = [vcpu |-> lease.vcpu,
                                         request |-> request]]

WithProcess(c, p, lifecycle) == [c EXCEPT !.processes[p].lifecycle = lifecycle]

wait_for_event(c, lease) ==
  IF c.event[lease.vcpu]
    THEN Completed([c EXCEPT !.event[lease.vcpu] = FALSE], lease, "Ready")
    ELSE CpuWaiting(c, lease, "WaitForEvent")

wait_for_interrupt(c, lease) ==
  IF c.interrupt[lease.vcpu]
    THEN Completed(c, lease, "Ready")
    ELSE CpuWaiting(c, lease, "WaitForInterrupt")

\* The backend clears the interrupts it stops for.
completion_for_stop(c, lease, stop) ==
  CASE stop = "Budget" -> Completed(c, lease, "Ready")
    [] stop = "Interrupted" ->
         Completed([c EXCEPT !.interrupt[lease.vcpu] = FALSE], lease, "Ready")
    [] stop = "Yield" -> Completed(c, lease, "Preempted")
    [] stop = "WaitForEvent" -> wait_for_event(c, lease)
    [] stop = "WaitForInterrupt" -> wait_for_interrupt(c, lease)
    [] stop = "SendEvent" -> Completed(send_event(c), lease, "Ready")
    [] stop = "LoaderReturn" -> Completed(c, lease, "Exited")
    [] stop = "Unrunnable" -> Completed(c, lease, "Faulted")
    [] stop \in {"SupervisorCall", "Trap"} -> Completed(c, lease, "Waiting")

\* The execution failed, or its process has stopped meanwhile.
Fails(c, lease, stop) ==
  \/ stop = "Error"
  \/ c.processes[ProcessOf(c, lease.thread)].lifecycle # "Running"

\* Mutant: a failed execution keeps its lease.
receive_worker_leaking(c, lease, stop) ==
  LET p == ProcessOf(c, lease.thread)
      running == c.processes[p].lifecycle = "Running"
  IN IF Fails(c, lease, stop)
       THEN IF running THEN WithProcess(c, p, "Faulted") ELSE c
       ELSE completion_for_stop(
              IF stop = "LoaderReturn" THEN WithProcess(c, p, "Exited") ELSE c,
              lease, stop)

receive_worker(c, lease, stop) ==
  LET p == ProcessOf(c, lease.thread)
      running == c.processes[p].lifecycle = "Running"
  IN IF Fails(c, lease, stop)
       THEN Completed(IF running THEN WithProcess(c, p, "Faulted") ELSE c,
                      lease, "Faulted")
       ELSE completion_for_stop(
              IF stop = "LoaderReturn" THEN WithProcess(c, p, "Exited") ELSE c,
              lease, stop)

\* The stops the root acts upon.
Handled == {"SupervisorCall", "LoaderReturn", "Unrunnable", "Trap"}

\* The results are received in the order of dispatch.  Only the main thread
\* has a loader to return to.  A wave with a failure returns the failure, and
\* the executions that went well are lost with it.
Receive(stop) ==
  /\ wave # <<>>
  /\ LET lease == Head(wave)
         t == lease.thread
         fails == Fails(coord, lease, stop)
         handled == IF stop \in Handled
                      THEN Append(executions, [thread |-> t, stop |-> stop])
                      ELSE executions
         over == Len(wave) = 1 /\ (failed \/ fails)
     IN /\ stop = "LoaderReturn" =>
             t = coord.processes[ProcessOf(coord, t)].main_thread_id
        /\ stop = "Interrupted" => coord.interrupt[lease.vcpu]
        /\ coord' = receive_worker(coord, lease, stop)
        /\ failed' = (failed \/ fails)
        /\ executions' = IF over THEN <<>> ELSE handled
        /\ root' = IF over THEN "stopped" ELSE root
  /\ wave' = Tail(wave)
  /\ UNCHANGED <<inbox, stop_sent>>

(***************************************************************************)
(* Supervisor calls.  The root handles the executions of a wave in order.  *)
(***************************************************************************)
Handling(stops) ==
  /\ root = "running"
  /\ wave = <<>>
  /\ executions # <<>>
  /\ Head(executions).stop \in stops

StopRoot == root' = "stopped" /\ executions' = <<>>

\* A stop the root cannot handle; also a call of a thread that is no longer
\* waiting, because an earlier call of the wave has terminated it.
EndRun ==
  /\ \/ Handling(Handled \ {"SupervisorCall"})
     \/ /\ Handling({"SupervisorCall"})
        /\ Lifecycle(coord, Head(executions).thread) # "Waiting"
  /\ StopRoot
  /\ UNCHANGED <<coord, wave, failed, inbox, stop_sent>>

Caller(t, call) ==
  /\ Handling({"SupervisorCall"})
  /\ t = Head(executions).thread
  /\ Lifecycle(coord, t) = "Waiting"
  /\ call \in Call

\* The call is answered; the root goes on to the next execution.
Answer(c) ==
  /\ coord' = c
  /\ executions' = Tail(executions)
  /\ UNCHANGED <<wave, failed, inbox, stop_sent, root>>

\* The threads the caller may name by a handle: those of its process.
Named(t) == ThreadsOf(coord, ProcessOf(coord, t))

\* A call that does not reach the scheduler, and every call that is rejected.
SvcResume(t) ==
  /\ Caller(t, "Resume")
  /\ Answer(make_thread_ready(coord, t))

\* WaitSynchronization, WaitProcessWideKeyAtomic: a wait for events.
SvcWait(t) ==
  /\ Caller(t, "Wait")
  /\ \E timeout \in Timeout : Answer(register_event_wait(coord, t, timeout))

SvcSleep(t) ==
  /\ Caller(t, "Sleep")
  /\ \E timeout \in Timeout \ {None} : Answer(sleep_thread(coord, t, timeout))

create_thread(c, p, config) ==
  [c EXCEPT !.scheduler = register(@, c.next_thread_id, config),
            !.processes[p].threads = @ \cup {c.next_thread_id},
            !.next_thread_id = @ + 1]

SvcCreateThread(t) ==
  /\ Caller(t, "CreateThread")
  /\ coord.next_thread_id \in ThreadId
  /\ \E priority \in Priority, ideal \in Vcpu :
       Answer(make_thread_ready(
                create_thread(coord, ProcessOf(coord, t),
                              Config(priority, ideal, {ideal})), t))

start_thread_ok(c, u) == Lifecycle(c, u) = "Created"

SvcStartThread(t) ==
  /\ Caller(t, "StartThread")
  /\ \E u \in Named(t) :
       /\ start_thread_ok(coord, u)
       /\ Answer(make_thread_ready(
                  [coord EXCEPT !.scheduler = make_ready(@, u)], t))

SvcSetThreadPriority(t) ==
  /\ Caller(t, "SetPriority")
  /\ \E u \in Named(t), priority \in Priority :
       Answer(make_thread_ready(set_thread_priority(coord, u, priority), t))

SvcSetThreadCoreMask(t) ==
  /\ Caller(t, "SetAffinity")
  /\ \E u \in Named(t), affinity \in CoreSet :
       \E ideal \in affinity \cup {None} :
         Answer(make_thread_ready(
                  [coord EXCEPT !.scheduler = migrate(@, u, ideal, affinity)], t))

SvcSetThreadActivity(t) ==
  /\ Caller(t, "SetActivity")
  /\ \E u \in Named(t) \ {t}, paused \in BOOLEAN :
       /\ set_activity_ok(coord.scheduler, u, paused)
       /\ Answer(make_thread_ready(
                  [coord EXCEPT !.scheduler = set_activity(@, u, paused)], t))

\* ArbitrateLock on a mutex that is held: the caller donates its priority to
\* the holder its register names, another thread, and waits for the hand-over.
SvcArbitrateLock(t) ==
  /\ Caller(t, "Lock")
  /\ \E owner \in Named(t) \ {t}, key \in DonationKey :
       Answer(register_event_wait(
                inherit_thread_priority(coord, owner, t, key), t, None))

\* ArbitrateUnlock of a mutex with a recorded owner, or the same by
\* WaitProcessWideKeyAtomic, which waits next.
SvcArbitrateUnlock(t) ==
  /\ Caller(t, "Unlock")
  /\ \E owner \in Named(t), key \in DonationKey :
       \/ Answer(restore_thread_priority(make_thread_ready(coord, t), owner, key))
       \/ \E timeout \in Timeout :
            Answer(register_event_wait(
                     restore_thread_priority(coord, owner, key), t, timeout))

reap_thread(c, p, u) ==
  [c EXCEPT !.scheduler = unregister(@, u),
            !.processes[p].threads = @ \ {u}]

\* CloseHandle of the last handle of a thread object that is signalled; the
\* object of a thread that ended without a call is not.
SvcCloseThreadHandle(t) ==
  /\ Caller(t, "Reap")
  /\ \E u \in Named(t) :
       /\ IsTerminal(coord, u)
       /\ \A i \in DOMAIN executions : executions[i].thread # u
       /\ Answer(make_thread_ready(
                  reap_thread(coord, ProcessOf(coord, t), u), t))

(***************************************************************************)
(* Termination.                                                            *)
(***************************************************************************)
\* The process ends with its last thread, or when the whole of it exits.
EndsProcess(c, t, scope) ==
  \/ scope = "Process"
  \/ \A u \in ThreadsOf(c, ProcessOf(c, t)) \ {t} : IsTerminal(c, u)

terminate_thread(c, t, faulted) ==
  recompute_effective_priorities(
    DropDonationsOf(
      release_wait_resources(
        [c EXCEPT !.scheduler = terminate(@, t, faulted)], t),
      {t}))

\* Mutant: only the threads that have been started are terminated.
terminate_remaining_process_threads_started(c, p, current) ==
  LET live == {u \in ThreadsOf(c, p) \ {current} :
                 ~IsTerminal(c, u) /\ Lifecycle(c, u) # "Created"}
      End(k, u) == [DropDonationsOf(release_wait_resources(k, u), {u})
                      EXCEPT !.scheduler = terminate(@, u, FALSE)]
  IN recompute_effective_priorities(FoldLeft(End, c, InOrder(live)))

terminate_remaining_process_threads(c, p, current) ==
  LET live == {u \in ThreadsOf(c, p) \ {current} : ~IsTerminal(c, u)}
      End(k, u) == [DropDonationsOf(release_wait_resources(k, u), {u})
                      EXCEPT !.scheduler = terminate(@, u, FALSE)]
  IN recompute_effective_priorities(FoldLeft(End, c, InOrder(live)))

\* A thread other than the main one is reaped at once when no handle refers
\* to it.
Reaped(c, t, unreferenced) ==
  LET p == ProcessOf(c, t)
  IN IF unreferenced /\ t # c.processes[p].main_thread_id
       THEN reap_thread(c, p, t)
       ELSE c

exit_thread(c, t, scope, unreferenced) ==
  LET p == ProcessOf(c, t)
      marked == IF EndsProcess(c, t, scope) THEN WithProcess(c, p, "Exited")
                                            ELSE c
      ended == Reaped(terminate_thread(marked, t, FALSE), t, unreferenced)
  IN IF scope = "Process"
       THEN terminate_remaining_process_threads(ended, p, t)
       ELSE ended

fault_thread(c, t, unreferenced) ==
  LET marked == IF EndsProcess(c, t, "CurrentThread")
                  THEN WithProcess(c, ProcessOf(c, t), "Faulted")
                  ELSE c
  IN Reaped(terminate_thread(marked, t, TRUE), t, unreferenced)

\* transition_process(..).expect("a live process may terminate"): a process
\* that has already stopped cannot stop again.
Panics(t, scope) ==
  /\ EndsProcess(coord, t, scope)
  /\ coord.processes[ProcessOf(coord, t)].lifecycle # "Running"

Panic ==
  /\ root' = "panicked"
  /\ UNCHANGED <<coord, wave, failed, executions, inbox, stop_sent>>

\* The root of the `run' command returns after any termination; others go on.
SvcExit(t, call, scope) ==
  /\ Caller(t, call)
  /\ \/ Panics(t, scope) /\ Panic
     \/ /\ ~Panics(t, scope)
        /\ \E unreferenced \in BOOLEAN :
             coord' = exit_thread(coord, t, scope, unreferenced)
        /\ \/ StopRoot
           \/ executions' = Tail(executions) /\ UNCHANGED root
        /\ UNCHANGED <<wave, failed, inbox, stop_sent>>

SvcExitThread(t) == SvcExit(t, "ExitThread", "CurrentThread")
SvcExitProcess(t) == SvcExit(t, "ExitProcess", "Process")

\* A call the emulator cannot carry out.
SvcFault(t) ==
  /\ Caller(t, "Fault")
  /\ \/ Panics(t, "CurrentThread") /\ Panic
     \/ /\ ~Panics(t, "CurrentThread")
        /\ \E unreferenced \in BOOLEAN :
             coord' = fault_thread(coord, t, unreferenced)
        /\ StopRoot
        /\ UNCHANGED <<wave, failed, inbox, stop_sent>>

(***************************************************************************)
(* The specification.                                                      *)
(***************************************************************************)
RouteSupervisorCall(t) ==
  \/ SvcResume(t)
  \/ SvcWait(t)
  \/ SvcSleep(t)
  \/ SvcCreateThread(t)
  \/ SvcStartThread(t)
  \/ SvcSetThreadPriority(t)
  \/ SvcSetThreadCoreMask(t)
  \/ SvcSetThreadActivity(t)
  \/ SvcArbitrateLock(t)
  \/ SvcArbitrateUnlock(t)
  \/ SvcCloseThreadHandle(t)
  \/ SvcExitThread(t)
  \/ SvcExitProcess(t)
  \/ SvcFault(t)

RootStep ==
  \/ RegisterProcess
  \/ \E p \in ProcessId : RemoveProcess(p) \/ TerminateProcess(p)
  \/ Shutdown
  \/ \E token \in inbox : ReceiveWake(token)
  \/ ReceiveHostStop
  \/ DrainEnds
  \/ \E v \in Vcpu : PostVcpuInterrupt(v)
  \/ RunNext
  \/ RunParallelWave
  \/ \E stop \in Stop : Receive(stop)
  \/ EndRun
  \/ \E t \in ThreadId : RouteSupervisorCall(t)

Next ==
  \/ RootStep
  \/ \E token \in coord.groups : WatcherFires(token)
  \/ RequestHostStop
  \/ \E v \in Vcpu : GuestEventFlag(v)

Spec == Init /\ [][Next]_vars

(***************************************************************************)
(* Properties.                                                             *)
(***************************************************************************)
\* Every variable has its type.
TypeOK ==
  /\ coord \in RuntimeCoordinator
  /\ wave \in Seq(Lease)
  /\ failed \in BOOLEAN
  /\ executions \in Seq([thread : ThreadId, stop : Handled])
  /\ inbox \subseteq WakeToken
  /\ stop_sent \in BOOLEAN
  /\ root \in RootState

\* The scheduler is consistent after every sequence of commands the coordinator
\* applies to it.  In particular no path of the coordinator makes a thread ready
\* that a wait token or a lease still holds, which the scheduler itself does
\* not refuse.
SchedulerConsistent == Consistent(coord.scheduler)

\* A lease is active exactly while a wave is being received: whatever stops
\* and failures a wave ends with, no vCPU stays taken after it.
LeasesReconciled ==
  {t \in ThreadId : coord.scheduler.threads[t].active_lease # None}
    = {wave[i].thread : i \in DOMAIN wave}

\* A thread recorded in cpu_waits is asleep for its hint and for nothing else:
\* it holds no wait token and no call of it is pending.  Otherwise a later
\* event or interrupt would make a thread ready that something else holds.
CpuWaitersAsleep ==
  \A t \in ThreadId :
    coord.cpu_waits[t] # None =>
      /\ Lifecycle(coord, t) = "Waiting"
      /\ ActiveWait(coord, t) = None
      /\ \A i \in DOMAIN executions : executions[i].thread # t

\* No thread sleeps in WFI on a vCPU that has an interrupt pending, in
\* whatever order the interrupt is posted and the hint is executed.
InterruptsReachWaiters ==
  \A v \in Vcpu :
    coord.interrupt[v] => CpuWaiters(coord, v, {"WaitForInterrupt"}) = {}

\* Threads that sleep for a CPU hint do so alone and miss no interrupt.
CpuWaitsConsistent == CpuWaitersAsleep /\ InterruptsReachWaiters

\* Every thread runs at the most urgent base priority among itself and the
\* threads that wait for it, transitively, whatever sequence of donations,
\* restores, exits and priority changes has led here.
PrioritiesInherited ==
  LET live == {d \in coord.priority_donations :
                 {d.owner, d.waiter} \subseteq OwnedThreads(coord)}
  IN \A t \in OwnedThreads(coord) :
       coord.scheduler.threads[t].effective_priority
         = Min({coord.scheduler.threads[u].base_priority :
                  u \in Donors(live, t)})

\* A waiter that has exited boosts nobody any more.
DeadWaitersDonateNothing ==
  \A d \in coord.priority_donations : ~IsTerminal(coord, d.waiter)

\* Effective priorities are those the live waiters donate, transitively.
DonationsConsistent == PrioritiesInherited /\ DeadWaitersDonateNothing

\* The scheduler and the process tables hold the same threads, each thread in
\* one table: creation, reaping, removal and a failed registration touch both
\* or neither.
ThreadTablesAgree ==
  /\ {t \in ThreadId : Registered(coord.scheduler, t)} = OwnedThreads(coord)
  /\ \A p, q \in ProcessId :
       p # q => ThreadsOf(coord, p) \cap ThreadsOf(coord, q) = {}

\* The scheduler, the wave and the process tables agree after every stop,
\* failure and host operation.
CoordinatorConsistent == SchedulerConsistent /\ LeasesReconciled /\ ThreadTablesAgree

\* Whatever ends a wait (wake, deadline, exit, removal) takes its deadline and
\* its watcher group with it.  The exception is a process that the host has
\* terminated: terminate_process releases no wait.
WaitResourcesLive ==
  (coord.host_stop_requested /\ root \notin {"running", "drained"})
    \/ \A token \in coord.groups \cup {d.token : d \in coord.deadlines} :
         ActiveWait(coord, token.thread) = token

\* Virtual time never passes a deadline without firing it.
DeadlinesAhead == \A d \in coord.deadlines : coord.now <= d.time

\* Waits begin and end whole, in the order of virtual time.
WaitsConsistent == TypeOK /\ WaitResourcesLive /\ DeadlinesAhead

\* Deadlines that fire together make their threads ready in the order of
\* their times and, for equal times, of their registration.
DeadlinesFireInOrder ==
  [][\A d, e \in coord.deadlines :
       LET Key(x) == coord'.scheduler.threads[x.token.thread].ready_key
       IN ( /\ DeadlineLess(d, e)
            /\ coord.now < coord'.now
            /\ e.time <= coord'.now
            /\ Key(d) # None
            /\ Key(e) # None )
            => Key(d).sequence < Key(e).sequence]_vars

\* A process that its own call has ended keeps no thread that could run again,
\* the ones never started included.  (LoaderReturn, a failed execution and a
\* stop by the host may leave some: the step considered is a supervisor call.)
ExitEndsThreads ==
  [][\A p \in ProcessId :
       ( /\ coord.processes[p].lifecycle = "Running"
         /\ coord'.processes[p].lifecycle = "Exited"
         /\ Handling({"SupervisorCall"}) )
         => \A t \in ThreadsOf(coord', p) : IsTerminal(coord', t)]_vars

(***************************************************************************)
(* What documentation, assertions and tests say of the coordinator and its *)
(* code does not keep; a run of each shows a behaviour that breaks it.     *)
(***************************************************************************)
\* terminate_process: "Terminates every thread in a registered process through
\* the scheduler".
HostStopEndsThreads ==
  [][\A p \in ProcessId :
       TerminateProcess(p) /\ root' = "stopped" =>
         \A t \in ThreadsOf(coord', p) : IsTerminal(coord', t)]_vars

\* process_removal_cancels_deadlines_and_external_observers: after its removal
\* nothing of a process is left among the deadlines and the watchers.
RemovalCancelsWaits ==
  \A token \in coord.groups \cup {d.token : d \in coord.deadlines} :
    token.thread \in OwnedThreads(coord)

\* apply_supervisor_call_outcome: expect("a live process may terminate").
LiveProcessMayTerminate == root # "panicked"

\* main_thread: expect("a runnable process always retains its main thread").
MainThreadRetained ==
  \A p \in Registrations(coord) :
    coord.processes[p].main_thread_id \in ThreadsOf(coord, p)
=============================================================================
