----------------------------- MODULE Scheduler ------------------------------
(***************************************************************************)
(* The scheduler as a state machine: one action per SchedulerCommand, with *)
(* every argument its callers may pass, stale leases and stale wake tokens *)
(* included (a rejected command is a stuttering step).                     *)
(***************************************************************************)
EXTENDS SchedulerOps

VARIABLE sched

Init == sched = NewScheduler

Config == [priority : Priority, ideal : Vcpu \cup {None}, affinity : CoreSet]

Register(id, config) ==
  /\ register_ok(sched, id, config)
  /\ sched' = register(sched, id, config)

Unregister(id) ==
  /\ unregister_ok(sched, id)
  /\ sched' = unregister(sched, id)

\* The lifecycle table also lets a Running thread, and a Waiting thread whose
\* wait is still registered, become Ready.  No caller asks for either: the
\* coordinator makes a thread ready when it has just created it, or when the
\* thread waits without a registered wait (Coordinator checks that it does).
ReadyDiscipline(s, id) ==
  \/ s.threads[id].lifecycle = "Created"
  \/ s.threads[id].lifecycle = "Waiting" /\ s.threads[id].active_wait = None

MakeReady(id) ==
  /\ make_ready_ok(sched, id)
  /\ ReadyDiscipline(sched, id)
  /\ sched' = make_ready(sched, id)

Select(vcpu) ==
  \E key \in sched.ready :
    /\ select_ok(sched, vcpu, key)
    /\ sched' = select(sched, vcpu, key)

\* select_next finds the first queued thread that some idle vCPU may run and
\* places it; the lease itself is given by select, which searches the queue
\* again for the vCPU chosen.
SelectNext ==
  \E found \in FirstOf(Dispatchable(sched)) :
    \E vcpu \in Placement(sched, found) : Select(vcpu)

Complete(lease, outcome) ==
  /\ complete_ok(sched, lease, outcome)
  /\ sched' = complete(sched, lease, outcome)

RegisterWait(id, readiness) ==
  /\ register_wait_ok(sched, id, readiness)
  /\ sched' = register_wait(sched, id, readiness)

\* Wake and CancelWait.
FinishWait(token) ==
  /\ finish_wait_ok(sched, token)
  /\ sched' = finish_wait(sched, token)

Migrate(id, ideal, affinity) ==
  /\ migrate_ok(sched, id, ideal, affinity)
  /\ sched' = migrate(sched, id, ideal, affinity)

SetPriority(id, priority) ==
  /\ set_priority_ok(sched, id, priority)
  /\ sched' = set_priority(sched, id, priority)

SetEffectivePriority(id, priority) ==
  /\ set_priority_ok(sched, id, priority)
  /\ sched' = set_effective_priority(sched, id, priority)

SetActivity(id, paused) ==
  /\ set_activity_ok(sched, id, paused)
  /\ sched' = set_activity(sched, id, paused)

Terminate(id, faulted) ==
  /\ terminate_ok(sched, id, faulted)
  /\ sched' = terminate(sched, id, faulted)

Next ==
  \/ \E id \in ThreadId, config \in Config : Register(id, config)
  \/ \E id \in ThreadId : Unregister(id)
  \/ \E id \in ThreadId : MakeReady(id)
  \/ \E vcpu \in Vcpu : Select(vcpu)
  \/ SelectNext
  \/ \E lease \in Lease, outcome \in Completion : Complete(lease, outcome)
  \/ \E id \in ThreadId, readiness \in {"Ready", "Pending"} :
       RegisterWait(id, readiness)
  \/ \E token \in WakeToken : FinishWait(token)
  \/ \E id \in ThreadId, ideal \in Vcpu \cup {None}, affinity \in CoreSet :
       Migrate(id, ideal, affinity)
  \/ \E id \in ThreadId, priority \in Priority : SetPriority(id, priority)
  \/ \E id \in ThreadId, priority \in Priority :
       SetEffectivePriority(id, priority)
  \/ \E id \in ThreadId, paused \in BOOLEAN : SetActivity(id, paused)
  \/ \E id \in ThreadId, faulted \in BOOLEAN : Terminate(id, faulted)

Spec == Init /\ [][Next]_sched

-----------------------------------------------------------------------------
\* Every field of the scheduler state has the type its Rust declaration gives.
TypeOK == sched \in SchedulerState

\* The ready queue holds one key for each Ready thread, under its current
\* effective priority, and nothing else; two keys never share a sequence, so the
\* order of the queue is decided before thread ids are compared.  The queue and
\* the key in the thread are two copies that make_ready, complete, finish_wait,
\* set_priority, set_activity, terminate and unregister each keep in step.
QueueConsistent ==
  /\ KeysConsistent(sched)
  /\ SequencesDistinct(sched)
  /\ \A id \in ThreadId :
       sched.threads[id].lifecycle = "Ready"
         <=> sched.threads[id].ready_key # None

\* A thread is Running exactly when it holds a lease, the lease is the one its
\* vCPU records, and its affinity allows that vCPU whatever migrations were
\* asked for while it ran; every lease a vCPU records is held by its thread.  So
\* no thread runs on two vCPUs and no vCPU runs two threads.
LeasesMatch ==
  /\ LeasesConsistent(sched)
  /\ \A id \in ThreadId :
       sched.threads[id].lifecycle = "Running"
         <=> sched.threads[id].active_lease # None

\* Only a Waiting thread has a registered wait, and the token names it: no
\* thread can run, or be queued, and still be woken.
WaitsOnlyWhileWaiting ==
  \A id \in ThreadId :
    sched.threads[id].active_wait # None =>
      /\ sched.threads[id].lifecycle = "Waiting"
      /\ sched.threads[id].active_wait.thread = id

\* The inductive invariant: the three above, the types, and that every
\* generation in use has been handed out.
SchedulerConsistent == Consistent(sched)

ActiveWaits == {sched.threads[id].active_wait : id \in ThreadId} \ {None}
ActiveLeases == {sched.vcpus[v] : v \in Vcpu} \ {None}

\* What a step may do to the generations in use.
TokensStep ==
  /\ \A token \in ActiveWaits' \ ActiveWaits :
       token.generation >= sched.next_wake_generation
  /\ \A token \in ActiveWaits' :
       token.generation < sched'.next_wake_generation
  /\ \A lease \in ActiveLeases' \ ActiveLeases :
       lease.generation >= sched.next_lease_generation
  /\ \A lease \in ActiveLeases' :
       lease.generation < sched'.next_lease_generation
  /\ sched'.next_wake_generation >= sched.next_wake_generation
  /\ sched'.next_lease_generation >= sched.next_lease_generation

\* A wake token or a lease that was ever valid and has ended never becomes valid
\* again, even for a thread that was unregistered and registered anew: what a
\* step makes valid has a generation that was never handed out before.  This is
\* what makes a late wake, a timeout that lost the race and a late completion
\* harmless (StaleWake, StaleLease).
TokensNeverResurrected == [][TokensStep]_sched

\* select_next leases the very thread its own search found: the second search,
\* by select for the chosen vCPU, cannot come to another thread, and always
\* finds one (its `expect' never fires).
SelectNextAgrees ==
  \A found \in FirstOf(Dispatchable(sched)) :
    \A vcpu \in Placement(sched, found) :
      /\ Idle(sched, vcpu)
      /\ FirstOf(EligibleFor(sched, vcpu)) = {found}
=============================================================================
