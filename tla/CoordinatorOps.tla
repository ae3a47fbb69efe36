--------------------------- MODULE CoordinatorOps ---------------------------
(***************************************************************************)
(* The RuntimeCoordinator of crates/runtime as operators on its state: the *)
(* methods that Coordinator composes into the steps of the composition     *)
(* root.  A coordinator `c' holds the scheduler, the process table, the    *)
(* CPU-hint waits and the per-vCPU event state, the virtual deadlines, the *)
(* watcher groups of its inbox and the priority donations.                 *)
(*                                                                         *)
(* Identities are numbers here, because the code visits threads, vCPUs and *)
(* donations in the order of their BTreeMaps.                              *)
(***************************************************************************)
EXTENDS SchedulerOps, SequencesExt

CONSTANTS
  ProcessId,    \* 1..n: identities are allocated in order and never reused
  DonationKey   \* the mutex addresses donations are keyed by

ASSUME IdentityAssumption ==
  /\ ThreadId = 1..Cardinality(ThreadId)
  /\ ProcessId = 1..Cardinality(ProcessId)
  /\ Vcpu \subseteq Nat
  /\ DonationKey \subseteq Nat

Terminal == {"Exited", "Faulted"}

CpuWait == [vcpu : Vcpu, request : {"WaitForEvent", "WaitForInterrupt"}]
Deadline == [time : Nat, sequence : Nat, token : WakeToken]
PriorityDonation == [owner : ThreadId, waiter : ThreadId, key : DonationKey]

\* A process that is not registered, or no longer, is NoProcess.
RunnableProcess ==
  [lifecycle : {"Absent", "Running", "Exited", "Faulted"},
   main_thread_id : ThreadId \cup {None},
   threads : SUBSET ThreadId]

NoProcess == [lifecycle |-> "Absent", main_thread_id |-> None, threads |-> {}]

RuntimeCoordinator ==
  [scheduler : SchedulerState,
   processes : [ProcessId -> RunnableProcess],
   next_process_id : Nat,
   next_thread_id : Nat,
   cpu_waits : [ThreadId -> CpuWait \cup {None}],
   event : [Vcpu -> BOOLEAN],
   interrupt : [Vcpu -> BOOLEAN],
   now : Nat,
   deadlines : SUBSET Deadline,
   next_deadline_sequence : Nat,
   groups : SUBSET WakeToken,
   priority_donations : SUBSET PriorityDonation,
   host_stop_requested : BOOLEAN]

NewCoordinator ==
  [scheduler |-> NewScheduler,
   processes |-> [p \in ProcessId |-> NoProcess],
   next_process_id |-> 1,
   next_thread_id |-> 1,
   cpu_waits |-> [t \in ThreadId |-> None],
   event |-> [v \in Vcpu |-> FALSE],
   interrupt |-> [v \in Vcpu |-> FALSE],
   now |-> 0,
   deadlines |-> {},
   next_deadline_sequence |-> 0,
   groups |-> {},
   priority_donations |-> {},
   host_stop_requested |-> FALSE]

Lifecycle(c, t) == c.scheduler.threads[t].lifecycle
ActiveWait(c, t) == c.scheduler.threads[t].active_wait
IsTerminal(c, t) == Lifecycle(c, t) \in Terminal
ThreadsOf(c, p) == c.processes[p].threads
OwnedThreads(c) == UNION {ThreadsOf(c, p) : p \in ProcessId}
ProcessOf(c, t) == CHOOSE p \in ProcessId : t \in ThreadsOf(c, p)
Registrations(c) == {p \in ProcessId : c.processes[p].lifecycle # "Absent"}

\* The elements of S from the least on (SetToSortSeq, in a form TLC evaluates
\* in polynomial time).
Sorted(S, Less(_, _)) ==
  [i \in 1..Cardinality(S) |->
     CHOOSE x \in S : Cardinality({y \in S : Less(y, x)}) = i - 1]

InOrder(S) == Sorted(S, <)

(***************************************************************************)
(* Priority inheritance: the donations are relaxed in the order of the     *)
(* BTreeSet, once per thread at most.                                      *)
(***************************************************************************)
DonationLess(d, e) ==
  \/ d.owner < e.owner
  \/ d.owner = e.owner /\ d.waiter < e.waiter
  \/ d.owner = e.owner /\ d.waiter = e.waiter /\ d.key < e.key

Relax(priorities, d) ==
  IF /\ {d.owner, d.waiter} \subseteq DOMAIN priorities
     /\ priorities[d.waiter] < priorities[d.owner]
    THEN [priorities EXCEPT ![d.owner] = priorities[d.waiter]]
    ELSE priorities

\* Mutant: one pass over the donations.
InheritedPriorities_one_pass(base, donations) ==
  FoldLeft(Relax, base, Sorted(donations, DonationLess))

\* `base' has the base priority of every thread of a registered process.  The
\* passes end early once one changes nothing; the others change nothing.
InheritedPriorities(base, donations) ==
  LET order == Sorted(donations, DonationLess)
      passes == Cardinality(DOMAIN base)
      after[n \in 0..passes] ==
        IF n = 0 THEN base ELSE FoldLeft(Relax, after[n - 1], order)
  IN after[passes]

\* The reference: t, and the threads that wait for it over any number of
\* donations.
Donors(donations, t) ==
  LET reach[n \in 0..Cardinality(ThreadId)] ==
        IF n = 0
          THEN {t}
          ELSE LET last == reach[n - 1]
               IN last \cup {d.waiter : d \in {e \in donations : e.owner \in last}}
  IN reach[Cardinality(ThreadId)]

recompute_effective_priorities(c) ==
  LET priorities ==
        InheritedPriorities(
          [t \in OwnedThreads(c) |-> c.scheduler.threads[t].base_priority],
          c.priority_donations)
      Set(s, t) == IF s.threads[t].effective_priority = priorities[t]
                     THEN s
                     ELSE set_effective_priority(s, t, priorities[t])
  IN [c EXCEPT !.scheduler = FoldLeft(Set, @, InOrder(DOMAIN priorities))]

WithoutDonationsOf(donations, threads) ==
  {d \in donations : d.owner \notin threads /\ d.waiter \notin threads}

DropDonationsOf(c, threads) ==
  [c EXCEPT !.priority_donations = WithoutDonationsOf(@, threads)]

\* The donations inherit_thread_priority adds to and restore_thread_priority
\* takes from.
Inherit(donations, owner, waiter, key) ==
  donations \cup {[owner |-> owner, waiter |-> waiter, key |-> key]}

Restore(donations, owner, key) ==
  {d \in donations : d.owner # owner \/ d.key # key}

inherit_thread_priority(c, owner, waiter, key) ==
  recompute_effective_priorities(
    [c EXCEPT !.priority_donations = Inherit(@, owner, waiter, key)])

\* Mutant: the boost is left on the owner.
restore_thread_priority_without_recompute(c, owner, key) ==
  [c EXCEPT !.priority_donations = Restore(@, owner, key)]

restore_thread_priority(c, owner, key) ==
  recompute_effective_priorities(
    [c EXCEPT !.priority_donations = Restore(@, owner, key)])

set_thread_priority(c, t, priority) ==
  recompute_effective_priorities(
    [c EXCEPT !.scheduler = set_priority(@, t, priority)])

(***************************************************************************)
(* Waits and what they hold: a deadline, a watcher group, a CPU-hint wait. *)
(***************************************************************************)
\* Mutant: the deadline outlives the wait.
release_wait_resources_keeping_deadline(c, t) ==
  [c EXCEPT !.cpu_waits[t] = None,
            !.groups = @ \ {ActiveWait(c, t)}]

release_wait_resources(c, t) ==
  [c EXCEPT !.cpu_waits[t] = None,
            !.groups = @ \ {ActiveWait(c, t)},
            !.deadlines = {d \in @ : d.token # ActiveWait(c, t)}]

release_wait_resources_if_current(c, token) ==
  IF ActiveWait(c, token.thread) = token
    THEN release_wait_resources(c, token.thread)
    ELSE [c EXCEPT !.groups = @ \ {token}]

\* A wake or a cancellation; a stale one only cancels its watchers.
apply_wake(c, token) ==
  LET released == release_wait_resources_if_current(c, token)
  IN IF finish_wait_ok(released.scheduler, token)
       THEN [released EXCEPT !.scheduler = finish_wait(@, token)]
       ELSE released

register_timed_wait(c, t, timeout) ==
  LET token == NextToken(c.scheduler, t)
      waiting == [c EXCEPT !.scheduler = register_wait(@, t, "Pending")]
  IN IF timeout = None
       THEN waiting
       ELSE [waiting EXCEPT
               !.deadlines = @ \cup {[time |-> c.now + timeout,
                                      sequence |-> c.next_deadline_sequence,
                                      token |-> token]},
               !.next_deadline_sequence = @ + 1]

\* Every event of the wait joins one watcher group, the group of the token.
register_event_wait(c, t, timeout) ==
  [register_timed_wait(c, t, timeout)
     EXCEPT !.groups = @ \cup {NextToken(c.scheduler, t)}]

\* Mutant: the CPU-hint wait of the thread stays recorded.
make_thread_ready_keeping_cpu_wait(c, t) ==
  [c EXCEPT !.scheduler = make_ready(@, t)]

make_thread_ready(c, t) ==
  [c EXCEPT !.scheduler = make_ready(@, t), !.cpu_waits[t] = None]

sleep_thread(c, t, nanoseconds) ==
  IF nanoseconds = 0 THEN make_thread_ready(c, t)
                     ELSE register_timed_wait(c, t, nanoseconds)

DeadlineLess(d, e) ==
  \/ d.time < e.time
  \/ d.time = e.time /\ d.sequence < e.sequence

\* Mutant: the due deadlines fire in the order the threads were created in.
wake_due_deadlines_by_thread(c) ==
  LET Fire(k, d) == apply_wake([k EXCEPT !.deadlines = @ \ {d}], d.token)
      ThreadLess(d, e) == d.token.thread < e.token.thread
  IN FoldLeft(Fire, c,
              Sorted({d \in c.deadlines : d.time <= c.now}, ThreadLess))

wake_due_deadlines(c) ==
  LET Fire(k, d) == apply_wake([k EXCEPT !.deadlines = @ \ {d}], d.token)
  IN FoldLeft(Fire, c,
              Sorted({d \in c.deadlines : d.time <= c.now}, DeadlineLess))

\* Virtual time never goes back.
advance_scheduler_to(c, time) == [c EXCEPT !.now = Max({@, time})]

DeadlineTimes(c) == {d.time : d \in c.deadlines}

fast_forward_to_next_deadline(c) ==
  IF c.deadlines = {}
    THEN c
    ELSE wake_due_deadlines(advance_scheduler_to(c, Min(DeadlineTimes(c))))

\* The loop of run_parallel_wave: one deadline time after the other, until a
\* thread is ready or no deadline is left.
fast_forward_until_ready(c) ==
  LET At(time) == wake_due_deadlines(advance_scheduler_to(c, time))
      useful == {time \in DeadlineTimes(c) : At(time).scheduler.ready # {}}
  IN IF c.scheduler.ready # {} \/ c.deadlines = {}
       THEN c
       ELSE At(IF useful = {} THEN Max(DeadlineTimes(c)) ELSE Min(useful))

(***************************************************************************)
(* CPU hints.                                                              *)
(***************************************************************************)
CpuWaiters(c, v, requests) ==
  {t \in ThreadId : /\ c.cpu_waits[t] # None
                    /\ c.cpu_waits[t].vcpu = v
                    /\ c.cpu_waits[t].request \in requests}

WakeThreads(c, threads) == FoldLeft(make_thread_ready, c, InOrder(threads))

post_vcpu_interrupt(c, v) ==
  WakeThreads([c EXCEPT !.interrupt[v] = TRUE, !.event[v] = TRUE],
              CpuWaiters(c, v, {"WaitForEvent", "WaitForInterrupt"}))

\* SEV sets the event of every vCPU; threads already waiting on it use it up.
send_event(c) ==
  LET woken(v) == CpuWaiters(c, v, {"WaitForEvent"})
      Wake(k, v) == WakeThreads(k, woken(v))
  IN FoldLeft(Wake, [c EXCEPT !.event = [v \in Vcpu |-> woken(v) = {}]],
              InOrder(Vcpu))
=============================================================================
