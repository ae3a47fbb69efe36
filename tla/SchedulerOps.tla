---------------------------- MODULE SchedulerOps ----------------------------
(***************************************************************************)
(* The guest-thread scheduler of crates/scheduler as operators on its      *)
(* state: for each SchedulerCommand a predicate `X_ok' that says when the  *)
(* command is accepted, and an operator `X' for the state it then leaves.  *)
(* A rejected command leaves the state as it was: every method of          *)
(* SchedulerState validates, and allocates its counters, before it writes. *)
(*                                                                         *)
(* The operators take and return a whole state because the coordinator     *)
(* applies several commands within one of its own operations.  Scheduler   *)
(* turns them into a state machine, Coordinator composes them.             *)
(***************************************************************************)
EXTENDS Naturals, FiniteSets

CONSTANTS
  ThreadId,    \* GuestThreadIds
  Vcpu,        \* the VirtualCpuIds of the machine profile
  Priority,    \* the numeric priorities of the profile; lower is more urgent
  MaxCounter,  \* the last value of a counter: u64::MAX in the code
  None         \* Option::None

ASSUME PriorityAssumption == Priority \subseteq Nat
ASSUME MaxCounterAssumption == MaxCounter \in Nat \ {0}

Counter == 1..MaxCounter

ReadyKey == [priority : Priority, sequence : Counter, thread : ThreadId]
Lease == [thread : ThreadId, vcpu : Vcpu, generation : Counter]
WakeToken == [thread : ThreadId, generation : Counter]
CoreSet == (SUBSET Vcpu) \ {{}}

ASSUME NoneAssumption ==
  /\ None \notin Vcpu
  /\ None \notin ReadyKey
  /\ None \notin Lease
  /\ None \notin WakeToken

ThreadLifecycle ==
  {"Created", "Ready", "Running", "Waiting", "Preempted", "Suspended",
   "Terminating", "Exited", "Faulted"}

\* The threads map of SchedulerState is a total function here; the entry of a
\* thread that is not registered is NoThread.
ScheduledThread ==
  [lifecycle : ThreadLifecycle \cup {"Absent"},
   base_priority : Priority \cup {None},
   effective_priority : Priority \cup {None},
   ideal_vcpu : Vcpu \cup {None},
   affinity : SUBSET Vcpu,
   ready_key : ReadyKey \cup {None},
   active_lease : Lease \cup {None},
   active_wait : WakeToken \cup {None},
   last_vcpu : Vcpu \cup {None}]

NoThread ==
  [lifecycle |-> "Absent",
   base_priority |-> None,
   effective_priority |-> None,
   ideal_vcpu |-> None,
   affinity |-> {},
   ready_key |-> None,
   active_lease |-> None,
   active_wait |-> None,
   last_vcpu |-> None]

SchedulerState ==
  [threads : [ThreadId -> ScheduledThread],
   ready : SUBSET ReadyKey,
   vcpus : [Vcpu -> Lease \cup {None}],
   next_sequence : Counter,
   next_lease_generation : Counter,
   next_wake_generation : Counter]

NewScheduler ==
  [threads |-> [t \in ThreadId |-> NoThread],
   ready |-> {},
   vcpus |-> [v \in Vcpu |-> None],
   next_sequence |-> 1,
   next_lease_generation |-> 1,
   next_wake_generation |-> 1]

(***************************************************************************)
(* The lifecycle table.                                                    *)
(***************************************************************************)
ThreadTransitions ==
  ({"Created"} \X {"Ready", "Terminating"})
    \cup ({"Ready"} \X {"Running", "Terminating", "Suspended"})
    \cup ({"Running"}
            \X {"Ready", "Waiting", "Preempted", "Terminating", "Faulted"})
    \cup ({"Waiting"} \X {"Ready", "Terminating", "Faulted"})
    \cup ({"Preempted"} \X {"Ready", "Running", "Terminating"})
    \cup ({"Suspended"} \X {"Ready", "Terminating"})
    \cup ({"Terminating"} \X {"Exited"})

transition_thread_ok(from, to) == <<from, to>> \in ThreadTransitions

Registered(s, id) == s.threads[id].lifecycle # "Absent"

\* checked_add(1): the last value of the counter is never handed out.
allocate_ok(next) == next < MaxCounter

(***************************************************************************)
(* The ready queue is ordered by priority, then by sequence.  The derived  *)
(* order of ReadyKey compares thread ids last; sequences are unique (see   *)
(* QueueConsistent), so it never gets there.                               *)
(***************************************************************************)
KeyLess(a, b) ==
  \/ a.priority < b.priority
  \/ a.priority = b.priority /\ a.sequence < b.sequence

\* What ready.iter().find(..) returns when it searches for members of `keys'.
FirstOf(keys) == {k \in keys : \A j \in keys \ {k} : KeyLess(k, j)}

\* The thread becomes Ready with a fresh sequence and enters the queue.
enqueue_existing_with_sequence(s, id) ==
  LET key == [priority |-> s.threads[id].effective_priority,
              sequence |-> s.next_sequence,
              thread |-> id]
  IN [s EXCEPT !.threads[id] = [@ EXCEPT !.lifecycle = "Ready",
                                         !.ready_key = key],
               !.ready = @ \cup {key},
               !.next_sequence = @ + 1]

(***************************************************************************)
(* Registration.                                                           *)
(***************************************************************************)
validate_policy(config) ==
  /\ config.affinity \in CoreSet
  /\ config.priority \in Priority
  /\ config.ideal # None => config.ideal \in config.affinity

register_ok(s, id, config) ==
  /\ ~Registered(s, id)
  /\ validate_policy(config)

register(s, id, config) ==
  [s EXCEPT !.threads[id] =
     [NoThread EXCEPT !.lifecycle = "Created",
                      !.base_priority = config.priority,
                      !.effective_priority = config.priority,
                      !.ideal_vcpu = config.ideal,
                      !.affinity = config.affinity]]

unregister_ok(s, id) ==
  /\ Registered(s, id)
  /\ s.threads[id].active_lease = None

\* Mutant: the queue keeps the key of the thread.
unregister_keeping_key(s, id) ==
  [s EXCEPT !.threads[id] = NoThread]

unregister(s, id) ==
  [s EXCEPT !.threads[id] = NoThread,
            !.ready = @ \ {s.threads[id].ready_key}]

make_ready_ok(s, id) ==
  /\ Registered(s, id)
  /\ transition_thread_ok(s.threads[id].lifecycle, "Ready")
  /\ allocate_ok(s.next_sequence)

make_ready(s, id) == enqueue_existing_with_sequence(s, id)

(***************************************************************************)
(* Selection and completion of a lease.                                    *)
(***************************************************************************)
Idle(s, vcpu) == s.vcpus[vcpu] = None

EligibleFor(s, vcpu) ==
  {k \in s.ready : vcpu \in s.threads[k.thread].affinity}

select_ok(s, vcpu, key) ==
  /\ Idle(s, vcpu)
  /\ key \in FirstOf(EligibleFor(s, vcpu))
  /\ allocate_ok(s.next_lease_generation)

select(s, vcpu, key) ==
  LET lease == [thread |-> key.thread, vcpu |-> vcpu,
                generation |-> s.next_lease_generation]
  IN [s EXCEPT !.threads[key.thread] = [@ EXCEPT !.lifecycle = "Running",
                                                 !.ready_key = None,
                                                 !.active_lease = lease],
               !.ready = @ \ {key},
               !.vcpus[vcpu] = lease,
               !.next_lease_generation = @ + 1]

\* The queue entries some idle vCPU could run.
Dispatchable(s) ==
  {k \in s.ready : \E v \in s.threads[k.thread].affinity : Idle(s, v)}

\* Mutant: the ideal vCPU is taken without asking whether it is idle.
Placement_ideal_unconditionally(s, key) ==
  LET thread == s.threads[key.thread]
  IN IF thread.ideal_vcpu # None
       THEN {thread.ideal_vcpu}
       ELSE {v \in thread.affinity : Idle(s, v)}

\* The vCPU select_next places the thread of `key' on: its ideal one, else the
\* one it last ran on, else the first idle one of its affinity (any, here: no
\* property depends on the numbering of the vCPUs).
Placement(s, key) ==
  LET thread == s.threads[key.thread]
      idle == {v \in thread.affinity : Idle(s, v)}
  IN IF thread.ideal_vcpu # None /\ Idle(s, thread.ideal_vcpu)
       THEN {thread.ideal_vcpu}
       ELSE IF thread.last_vcpu \in idle THEN {thread.last_vcpu} ELSE idle

Completion == {"Ready", "Preempted", "Waiting", "Exited", "Faulted"}

complete_ok(s, lease, outcome) ==
  /\ s.threads[lease.thread].active_lease = lease
  /\ s.vcpus[lease.vcpu] = lease
  /\ outcome \in {"Ready", "Preempted"} => allocate_ok(s.next_sequence)

complete(s, lease, outcome) ==
  LET id == lease.thread
      released == [s EXCEPT !.vcpus[lease.vcpu] = None,
                            !.threads[id] = [@ EXCEPT !.active_lease = None,
                                                      !.last_vcpu = lease.vcpu]]
  IN IF outcome \in {"Ready", "Preempted"}
       THEN enqueue_existing_with_sequence(released, id)
       ELSE [released EXCEPT !.threads[id].lifecycle = outcome]

(***************************************************************************)
(* Waits.  The two ends of a wait, Wake and CancelWait, differ only in the *)
(* decision they report.                                                   *)
(***************************************************************************)
register_wait_ok(s, id, readiness) ==
  /\ s.threads[id].lifecycle = "Waiting"
  /\ s.threads[id].active_wait = None
  /\ IF readiness = "Ready" THEN allocate_ok(s.next_sequence)
                            ELSE allocate_ok(s.next_wake_generation)

NextToken(s, id) == [thread |-> id, generation |-> s.next_wake_generation]

register_wait(s, id, readiness) ==
  IF readiness = "Ready"
    THEN enqueue_existing_with_sequence(s, id)
    ELSE [s EXCEPT !.threads[id].active_wait = NextToken(s, id),
                   !.next_wake_generation = @ + 1]

finish_wait_ok(s, token) ==
  /\ s.threads[token.thread].active_wait = token
  /\ allocate_ok(s.next_sequence)

\* Mutant: the latest generation is given back.
finish_wait_returning(s, token) ==
  enqueue_existing_with_sequence(
    [s EXCEPT !.threads[token.thread].active_wait = None,
              !.next_wake_generation = IF token.generation + 1 = @ THEN @ - 1 ELSE @],
    token.thread)

finish_wait(s, token) ==
  enqueue_existing_with_sequence(
    [s EXCEPT !.threads[token.thread].active_wait = None], token.thread)

(***************************************************************************)
(* Policy changes of a thread that no vCPU is running.                     *)
(***************************************************************************)
migrate_ok(s, id, ideal, affinity) ==
  /\ affinity \in CoreSet
  /\ ideal # None => ideal \in affinity
  /\ Registered(s, id)
  /\ s.threads[id].active_lease = None

\* MigrationEffect::ClearOldLocalExclusive.
ClearsOldLocalExclusive(s, id, affinity) ==
  s.threads[id].last_vcpu # None /\ s.threads[id].last_vcpu \notin affinity

migrate(s, id, ideal, affinity) ==
  [s EXCEPT !.threads[id] = [@ EXCEPT !.ideal_vcpu = ideal,
                                      !.affinity = affinity]]

set_priority_ok(s, id, priority) ==
  /\ priority \in Priority
  /\ Registered(s, id)
  /\ s.threads[id].active_lease = None

\* A queued thread is re-keyed; it keeps its sequence.
set_effective_priority(s, id, priority) ==
  LET old == s.threads[id].ready_key
      new == [old EXCEPT !.priority = priority]
  IN IF old = None
       THEN [s EXCEPT !.threads[id].effective_priority = priority]
       ELSE [s EXCEPT !.threads[id] = [@ EXCEPT !.effective_priority = priority,
                                                !.ready_key = new],
                      !.ready = (@ \ {old}) \cup {new}]

set_priority(s, id, priority) ==
  [set_effective_priority(s, id, priority)
     EXCEPT !.threads[id].base_priority = priority]

set_activity_ok(s, id, paused) ==
  /\ s.threads[id].active_lease = None
  /\ IF paused
       THEN s.threads[id].lifecycle = "Ready"
       ELSE s.threads[id].lifecycle = "Suspended" /\ allocate_ok(s.next_sequence)

set_activity(s, id, paused) ==
  IF paused
    THEN [s EXCEPT !.ready = @ \ {s.threads[id].ready_key},
                   !.threads[id] = [@ EXCEPT !.ready_key = None,
                                             !.lifecycle = "Suspended"]]
    ELSE enqueue_existing_with_sequence(s, id)

terminate_ok(s, id, faulted) ==
  LET from == s.threads[id].lifecycle
  IN /\ Registered(s, id)
     /\ s.threads[id].active_lease = None
     /\ from \notin {"Exited", "Faulted"}
     /\ transition_thread_ok(from, IF faulted THEN "Faulted" ELSE "Terminating")

terminate(s, id, faulted) ==
  [s EXCEPT !.ready = @ \ {s.threads[id].ready_key},
            !.threads[id] =
              [@ EXCEPT !.ready_key = None,
                        !.active_wait = None,
                        !.lifecycle = IF faulted THEN "Faulted" ELSE "Exited"]]

(***************************************************************************)
(* The consistency of a scheduler state.                                   *)
(***************************************************************************)
\* The queue and the ready keys of the threads are the same set.
KeysConsistent(s) ==
  /\ \A id \in ThreadId :
       s.threads[id].ready_key # None =>
         /\ s.threads[id].ready_key \in s.ready
         /\ s.threads[id].ready_key.thread = id
         /\ s.threads[id].ready_key.priority = s.threads[id].effective_priority
  /\ \A key \in s.ready : s.threads[key.thread].ready_key = key

SequencesDistinct(s) ==
  /\ \A j, k \in s.ready : j.sequence = k.sequence => j = k
  /\ \A k \in s.ready : k.sequence < s.next_sequence

\* The leases the vCPUs record are the leases the threads hold.
LeasesConsistent(s) ==
  /\ \A id \in ThreadId :
       s.threads[id].active_lease # None =>
         /\ s.threads[id].active_lease.thread = id
         /\ s.vcpus[s.threads[id].active_lease.vcpu] = s.threads[id].active_lease
         /\ s.threads[id].active_lease.vcpu \in s.threads[id].affinity
  /\ \A v \in Vcpu :
       s.vcpus[v] # None =>
         /\ s.vcpus[v].vcpu = v
         /\ s.threads[s.vcpus[v].thread].active_lease = s.vcpus[v]

\* Every generation in use has been handed out.
GenerationsIssued(s) ==
  /\ \A v \in Vcpu :
       s.vcpus[v] # None => s.vcpus[v].generation < s.next_lease_generation
  /\ \A id \in ThreadId :
       s.threads[id].active_wait # None =>
         s.threads[id].active_wait.generation < s.next_wake_generation

PolicyConsistent(s) ==
  \A id \in ThreadId :
    LET thread == s.threads[id]
    IN /\ thread.ideal_vcpu # None => thread.ideal_vcpu \in thread.affinity
       /\ thread.lifecycle # "Absent" =>
            thread.base_priority \in Priority
              /\ thread.effective_priority \in Priority

\* What a thread holds is what its lifecycle says it holds.
LifecycleConsistent(s, id) ==
  LET thread == s.threads[id]
  IN /\ thread.lifecycle = "Ready" <=> thread.ready_key # None
     /\ thread.lifecycle = "Running" <=> thread.active_lease # None
     /\ thread.active_wait # None =>
          thread.lifecycle = "Waiting" /\ thread.active_wait.thread = id

StructureConsistent(s) ==
  /\ s \in SchedulerState
  /\ KeysConsistent(s)
  /\ SequencesDistinct(s)
  /\ LeasesConsistent(s)
  /\ GenerationsIssued(s)
  /\ PolicyConsistent(s)

Consistent(s) ==
  /\ StructureConsistent(s)
  /\ \A id \in ThreadId : LifecycleConsistent(s, id)
=============================================================================
