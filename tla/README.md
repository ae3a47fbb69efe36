# A verification project for the Nixe runtime core

Nixe is a console emulator. This directory holds TLA+ models of the part of it
that is hardest to test: the core that decides which guest thread runs on which
virtual CPU, how guest threads wait and are woken by host threads, how threads
and processes end, and how running CPU slices are kept apart from changes of
memory. The models are checked with TLC on small instances; the scheduler's and
the execution gate's safety is proved with TLAPS for all instances.

Paths below are relative to the repository; `runtime/`, `scheduler/` and so on
stand for `crates/<name>/src/`.

## 1. The system

| Part | Where | State and operations | What makes it hard |
|---|---|---|---|
| Thread scheduler | `scheduler/scheduler.rs` | threads, ready queue, vCPU slots, three checked counters; a command per operation | copies that must agree; late completions and wakes; counters that run out |
| External events | `runtime/external_event.rs`, `runtime/handle/event.rs` | event flags, observers, wait groups, a bounded inbox | atomics and mutexes shared with host threads; overflow; a wait that ends while it is being signalled |
| Coordinator | `runtime/coordinator/` | processes, waits, deadlines, virtual time, CPU hints, priority donations, waves of worker executions | many ends of one wait; partial failure of a wave; tables kept beside the scheduler |
| Termination | `runtime/process/` | process and thread lifecycles | two threads of one wave end the process |
| Composition root | `apps/cli/.../run.rs` | the loop that drains, runs and routes | order of handling; what happens after an error |
| Supervisor calls | `horizon/svc_dispatch*` | thread, wait and lock calls | calls made for threads in any state |
| Execution gate | `memory/execution_gate.rs` | reader count, pending flag, epoch, one condition variable | lost wakeups, overtaking |
| Address waits | `runtime/address_wait.rs`, `horizon/svc_dispatch/synchronization.rs` | lock words, wait queues, owners | guest fast paths the kernel does not see |
| Worker pool | `runtime/coordinator/worker.rs` | one thread and two channels per vCPU | lost workers, shutdown with a timeout |
| Handles, sessions, ports | `runtime/handle*` | reference counts, requests | lifetime of shared objects |
| Memory | `memory/`, `cpu/memory/` | mappings, backings, an invalidation log, exclusive monitors | readers that lag behind a bounded log |
| CPU engines | `cpu*/` | decoding, semantics, interpreter, JIT | data, not control |
| GPU submission | `horizon/nvdrv/gpu_executor.rs`, `gpu/synchronization.rs` | work budget, bounded queue, owner thread, wrapping timelines | back-pressure, teardown, wrap-around |
| GPU front and back ends | `gpu-maxwell/`, `gpu-wgpu/`, `gpu-headless/` | command processing, resources | mostly data |
| Services, video, input, loader, configuration | remaining crates | requests, frames, file formats | mostly data or host I/O |

How they interact: the root drains the event inbox, asks the coordinator for a
wave (the scheduler leases threads to vCPUs, workers run them inside the gate),
and handles the stop of every execution of the wave. Supervisor calls go through
the Horizon dispatcher back into the coordinator, which applies scheduler
commands. Host threads only publish events and take the gate.

`PROJECT.json` lists the components with their status and the hazards with the
line at which each one bites.

## 2. The modules

### SchedulerOps, Scheduler, MCScheduler, SchedulerProofs

`SchedulerOps` translates `SchedulerState`: one record with the threads, the
ready set, the lease of every vCPU and the three counters. A command `c` of the
code is a pair of operators: `c_ok`, the conjunction of its checks, and `c`, the
new state. That lets the coordinator apply the very same operators. `Scheduler`
makes one action of each command; a rejected command changes nothing. Counters
are bounded by `MaxCounter`, which stands for the width of the integer: the
increment is checked, as in the code. `select_next` takes *any* idle vCPU of the
affinity where the code takes the lowest one; this permits more behaviours than
the code has and makes vCPUs symmetric.

### EventWait, MCEventWait

One step per atomic access or critical section of `signal`, `clear`, `watch`, the
observer callback and the coordinator's registration, drain and end of a wait.
A token stands for one wait, since the scheduler never issues one twice.

### CoordinatorOps, Coordinator, MCCoordinator, Inheritance

`CoordinatorOps` has the state of `RuntimeCoordinator` and its helpers as
operators: waits and deadlines, CPU hints, virtual time, donations. `Coordinator`
puts the composition root, the workers and the guest around it. An action is one
operation of the coordinator, whole, with all it calls. A parallel wave is
several actions (dispatch, one receive per worker, then the handling of each
stop), as host threads run between them. What a guest does is any stop the
engines can report; what a call asks is any of the calls in `Call`. The four
constants `Stop`, `Call`, `Timeout` and `Host` choose which of them an instance
has, so that each run goes deep in one area.

The lock word and the address-wait queue are abstracted: a lock call may find the
lock free, be answered, or suspend and donate.

`Inheritance` runs the donation operators of `CoordinatorOps` on every graph of
donations against `Donors`, the declarative definition of transitive inheritance.

### ExecutionGate, ExecutionGateProofs

The three fields under the mutex, and where each host thread is. A thread on the
condition variable is asleep or notified; `SpuriousWakeup` is the one allowed to
`Condvar::wait`. The exclusive guard keeps the mutex, hence the guard `~Locked`
in every other critical section. The transition notifier only asks slices to
stop early; in the model slices end by themselves.

## 3. The runs

All numbers are distinct states.

| Run | Instance | Shows | States |
|---|---|---|---|
| `scheduler` | 2 threads, 2 vCPUs, 2 priorities, counters of 3 | every sequence of commands keeps the queue, the leases and the waits in step; `select_next` leases the thread it found; an ended token never becomes valid again | 128,968 |
| `event_wait` | 2 events, 2 waits, 2 signallers, inbox of 1 | no stranded observer, at most one wake per wait, no silent loss, nothing left behind | 91,975 |
| `event_wait_live` | same, 1 signaller | a wait that was won ends, or the root is told of the loss | 61,804 |
| `coordinator_waits` | 3 threads, 1 vCPU, timeouts none, 1, 2 | every end of a wait releases its deadline and watchers; deadlines fire on time and in order; an exit ends every thread; with stop, removal and shutdown at any point | 321,100 |
| `coordinator_waves` | 2 processes, 2 threads, 2 vCPUs | parallel waves with hints (WFE, WFI, SEV), interrupts, policy changes, failing executions and registrations: the scheduler stays consistent, every lease is given back, sleepers sleep for their hint only, interrupts reach them, thread tables agree | 663,608 |
| `coordinator_priorities` | 3 threads, 2 priorities, 1 lock | effective priorities always follow the donations | 345,536 |
| `inheritance` | 4 threads, up to 6 donations | the passes compute transitive inheritance, cycles included | 40,160 |
| `gate` | 3 threads, 3 epochs | exclusion, a correct count, current epochs, no overtaking, no lost wakeup | 23,964 |

Why the bounds are enough. The scheduler's defects need two threads (one to be
confused with the other) and two vCPUs; three values let every counter run out
and a thread be registered again in between. An inbox of one overflows on the
second wake. Three coordinator threads allow one that acts, one that waits and
one never started; a wave on two vCPUs has at most two executions, so two threads
are enough for everything that happens inside one. Three threads at the gate
allow a slice, a draining transition and a waiter.

`MCCoordinator` uses a VIEW. Sequences, generations and virtual time grow for
ever, but guards and properties compare them only with one another (and time with
deadlines); the view replaces each by its rank, or by its distance from the
present. Two states with the same view have the same successors up to the view
and satisfy the same invariants and step properties, so the exploration is finite
without a bound on the counters. Exhaustion of the counters is the business of
the `scheduler` run.

Symmetry is used in `scheduler` and `event_wait`, neither of which checks
liveness. The ready queue's tie on thread ids is not reached, as sequences are
distinct (`QueueConsistent`), so threads are interchangeable there.

Deadlock is not checked in `coordinator_waves` and `coordinator_priorities`: the
root really ends there when the process does or an assertion fails. In
`coordinator_waits` a shutdown can always follow (and be repeated), and deadlock
is checked.

### Disagreements between the code and what it says of itself

Four runs expect a violation; each checks a sentence of the repository.

| Run | Says | Does |
|---|---|---|
| `terminate_process` | "Terminates every thread in a registered process through the scheduler" (`coordinator/mod.rs:431`) | stops at the first thread that has exited and is not yet reaped; later threads stay alive |
| `remove_process` | the test `process_removal_cancels_deadlines_and_external_observers` (`coordinator/tests.rs:891`) | after a host stop the scheduler has forgotten the wait, and its deadline and watchers stay |
| `exit_race` | `expect("a live process may terminate")` (`process/exception.rs:180`) | fails when the main thread returned to the loader in the same parallel wave |
| `main_thread` | `expect("a runnable process always retains its main thread")` (`process/mod.rs:223`) | closing the last handle of the exited main thread removes it |

A fifth is in the model without a run of its own: `shutdown` returns early when a
host stop was received before (`coordinator/mod.rs:262`) and then releases
nothing. Outside tests only the coordinator's `Drop` calls it.

The exception in `WaitResourcesLive` for a process stopped by the host is the
second of these.

## 4. Fairness

`EventWait`: a host thread inside `signal` and the coordinator inside an
operation go on (weak fairness: plain threads without unbounded waits). The root
drains in every turn of its loop, between other operations, hence strong fairness
of `Drain`. `ExecutionGate`: a thread inside the gate goes on, as slices have an
instruction budget and transitions are bounded. Nothing obliges a thread to enter
the gate. No other liveness is claimed.

`WaitersReleased` promises that nobody waits for ever at a gate that stays open,
not that a waiter is admitted: waiters are not queued and a stream of transitions
may overtake one without bound.

## 5. The proofs

`SchedulerProofs` assumes of the constants only what `SchedulerOps` states: a
counter bound that is a positive natural, priorities that are naturals, `None`
outside the other sets.

* `SchedulerInvariant`: `Spec => []SchedulerConsistent`. The invariant is
  inductive. Beside the agreement of the queue, the leases and the waits with the
  threads it says that every sequence and generation in use was handed out
  (otherwise a fresh one might not be new), that the ideal vCPU lies in the
  affinity, and that a thread's lifecycle determines what it holds. Each command
  writes one thread's entry and its mirror; `KeysUpdate`, `LeasesFrame`,
  `WaitsFrame` and `StructureFrame` say which writes are harmless, and there is
  one lemma per command.
* `SchedulerSafety`: types, `QueueConsistent`, `LeasesMatch` and
  `WaitsOnlyWhileWaiting` follow.
* `SelectNextAgreement`: `Spec => []SelectNextAgrees`. A thread before the found
  one that was eligible for the chosen vCPU would have been found first.

`ExecutionGateProofs` assumes a finite set of threads and a positive epoch bound.

* `GateSafety`: `Exclusion` and `LeaseEpochCurrent`. Inductive with
  `GateConsistent`: the count is the number of slices, and admission is closed
  exactly while one thread is responsible for it.
* `GateNotOvertaken`: `Spec => NoOvertaking`.

Only model-checked: `TokensNeverResurrected`, everything about `EventWait`,
`Coordinator` and `Inheritance`, and all liveness, which is out of the prover's
reach.

## 6. Not modelled

Recording and replay, the adaptive execution budget, the channels of the worker
pool (a lost worker is a failed execution), installing and retiring CPU state,
thread-local storage, memory effects of process construction, and
`advance_virtual_time`, which only tests call. `EventObject::wait_until` is only
used by tests. Of the rest of the repository `PROJECT.json` gives the reason part
by part: instruction semantics, shader translation, file formats and host I/O are
data transformation with little state.

## 7. Plan

1. `AddressArbiter`: lock word, wait queue, owners and guest fast paths; mutual
   exclusion, no stranded waiter, no lost condition-variable signal; composed with
   the donations of `CoordinatorOps`.
2. `GuestTimeline`: reservations on a narrow wrapping counter, against an abstract
   unbounded timeline (refinement).
3. `GpuExecutor`: work budget, bounded queue, owner, progress requests, teardown;
   the bound, publication in order, and that teardown ends.
4. `InvalidationLog`: the bounded ring with lagging readers; a reader either sees
   every record or learns of the loss.
5. `WorkerPool`: dispatch, loss, retirement with a timeout, shutdown.
6. An abstract specification of vCPU ownership that `Scheduler` implements.
7. Handles and sessions, the buffer queue, the frame mailbox, the GPFIFO.
8. Proofs: `TokensNeverResurrected`; the safety of `EventWait`; the timeline's
   refinement; the wait and donation invariants of the coordinator.
