----------------------------- MODULE WorkerPool -----------------------------
(***************************************************************************)
(* The vCPU worker threads and the coordinator that commands them:         *)
(* coordinator/worker.rs, the dispatch and receive halves of               *)
(* coordinator/execution.rs, and the registration, removal and shutdown of *)
(* processes in coordinator/mod.rs as far as they talk to workers.         *)
(*                                                                         *)
(* The coordinator is one thread.  It sends each worker commands over a    *)
(* channel with room for one; every command but Run and Shutdown brings    *)
(* its own reply channel, Run answers on the worker's result channel.      *)
(* Retirement and shutdown are bounded by deadlines, so that a command may *)
(* outlive the call that sent it; `awaited' says that the caller is still  *)
(* there.  Which ready thread a vCPU gets is the scheduler's business      *)
(* (Scheduler.tla) and left open here; a lease's generation is one bit.    *)
(***************************************************************************)
EXTENDS Naturals, Sequences, FiniteSets

CONSTANTS Cpus,       \* number of vCPUs, 1..Cpus in profile order
          Process,
          Thread,
          ProcessOf,  \* the process of each thread
          None

VARIABLES
  co,         \* the coordinator: where it is and what it works on
  answer,     \* the reply channel of its current call
  chan,       \* command channel of each worker
  worker,     \* the command being executed, Waiting or Finished
  threads,    \* cpu_threads of each worker: the processes installed
  results,    \* result channel of each worker
  joined,     \* workers whose JoinHandle has been taken
  sent,       \* workers with shutdown_sent
  stopped,    \* <<stop_requested of the pool, host_stop_requested>>
  lifecycle,  \* of each process
  life,       \* of each thread in the scheduler
  lease,      \* the active lease of each vCPU
  turn,       \* generation of each thread's next lease
  resident    \* threads whose CPU state is in their process

vars == <<co, answer, chan, worker, threads, results, joined, sent, stopped,
          lifecycle, life, lease, turn, resident>>

Vcpu == 1..Cpus

Waiting  == [kind |-> "recv"]
Finished == [kind |-> "finished"]

Idle  == [pc |-> "idle"]
Call(pc, p, v, last) == [pc |-> pc, p |-> p, v |-> v, last |-> last, sent |-> FALSE]

Alive(v)      == worker[v] # Finished
registered(p) == lifecycle[p] \in {"Running", "Faulted"}
Members(p)    == {t \in Thread : ProcessOf[t] = p}

-----------------------------------------------------------------------------
(* The coordinator's requests with a reply: install, retire, roll back an  *)
(* installation, clear a local exclusive.                                  *)

register_process(p) ==
  /\ co = Idle /\ lifecycle[p] = "New"
  /\ co' = Call("install", p, 1, Cpus)
  /\ UNCHANGED <<answer, chan, worker, threads, results, joined, sent, stopped,
                 lifecycle, life, lease, turn, resident>>

\* remove_process; a leased thread refuses it, a retirement may be retried.
remove_process(p) ==
  /\ co = Idle /\ registered(p)
  /\ \A v \in Vcpu : lease[v] # None => ProcessOf[lease[v].thread] # p
  /\ co' = Call("retire", p, 1, Cpus)
  /\ UNCHANGED <<answer, chan, worker, threads, results, joined, sent, stopped,
                 lifecycle, life, lease, turn, resident>>

\* The migration of a suspended thread away from its old vCPU.
clear_local_exclusive(p, v) ==
  /\ co = Idle /\ registered(p)
  /\ co' = Call("clear", p, v, v)
  /\ UNCHANGED <<answer, chan, worker, threads, results, joined, sent, stopped,
                 lifecycle, life, lease, turn, resident>>

Calls   == {"install", "retire", "rollback", "clear"}
InCall  == co.pc \in Calls
Bounded == co.pc \in {"retire", "rollback"}

\* send blocks while the channel is full, try_send is repeated.
Send ==
  /\ InCall /\ ~co.sent /\ Alive(co.v) /\ chan[co.v] = None
  /\ chan' = [chan EXCEPT ![co.v] = [kind |-> co.pc, p |-> co.p, awaited |-> TRUE]]
  /\ co' = [co EXCEPT !.sent = TRUE]
  /\ UNCHANGED <<answer, worker, threads, results, joined, sent, stopped, lifecycle,
                 life, lease, turn, resident>>

\* What is left of an unanswered command when its caller has gone.
Abandoned(command) ==
  IF command # None /\ command.kind \in Calls
  THEN [command EXCEPT !.awaited = FALSE] ELSE command

\* After a failed step of shutdown: Drop goes on with the pool.
AfterFailure == IF stopped.dropping THEN [pc |-> "send", pass |-> 1] ELSE Idle

\* The end of the current call, with its result.
Proceed(result) ==
  LET next == [co EXCEPT !.v = @ + 1, !.sent = FALSE]
  IN CASE co.pc = "install" /\ result = "ok" /\ co.v < co.last ->
            co' = next /\ UNCHANGED <<lifecycle, life>>
       [] co.pc = "install" /\ result = "ok" /\ co.v = co.last ->
            /\ lifecycle' = [lifecycle EXCEPT ![co.p] = "Running"]
            /\ life' = [t \in Thread |-> IF t \in Members(co.p) THEN "Ready" ELSE life[t]]
            /\ co' = Idle
       [] co.pc = "install" /\ result # "ok" /\ co.v > 1 ->
            co' = Call("rollback", co.p, 1, co.v - 1) /\ UNCHANGED <<lifecycle, life>>
       [] co.pc = "rollback" /\ co.v < co.last ->
            co' = next /\ UNCHANGED <<lifecycle, life>>
       [] \/ co.pc = "rollback" /\ co.v = co.last
          \/ co.pc = "install" /\ result # "ok" /\ co.v = 1 ->
            /\ lifecycle' = [lifecycle EXCEPT ![co.p] = "Dropped"]
            /\ co' = Idle /\ UNCHANGED life
       [] co.pc = "retire" /\ result = "ok" /\ co.v < co.last ->
            co' = next /\ UNCHANGED <<lifecycle, life>>
       [] co.pc = "retire" /\ result = "ok" /\ co.v = co.last ->
            /\ lifecycle' = [lifecycle EXCEPT ![co.p] = "Removed"]
            /\ life' = [t \in Thread |-> IF t \in Members(co.p) THEN "None" ELSE life[t]]
            /\ co' = IF stopped.closing THEN [pc |-> "close"] ELSE Idle
       [] co.pc = "retire" /\ result # "ok" ->
            co' = AfterFailure /\ UNCHANGED <<lifecycle, life>>
       [] co.pc = "clear" ->
            co' = Idle /\ UNCHANGED <<lifecycle, life>>

\* shutdown returns with an error: a later call starts again.
Closing(result) ==
  stopped' = [stopped EXCEPT !.closing = @ /\ ~(co.pc = "retire" /\ result # "ok")]

Reply ==
  /\ InCall /\ co.sent /\ answer # None
  /\ Proceed(answer) /\ Closing(answer)
  /\ answer' = None
  /\ UNCHANGED <<chan, worker, threads, results, joined, sent, lease, turn, resident>>

\* The worker's end of the channel is gone.
SendFails ==
  /\ InCall /\ ~co.sent /\ ~Alive(co.v)
  /\ Proceed("Lost") /\ Closing("Lost")
  /\ UNCHANGED <<answer, chan, worker, threads, results, joined, sent, lease, turn, resident>>

\* retire_process gives up, before or after its command was accepted.
TimedOut ==
  /\ InCall /\ Bounded /\ answer = None
  /\ IF co.sent
     THEN /\ chan' = [chan EXCEPT ![co.v] = Abandoned(@)]
          /\ worker' = [worker EXCEPT ![co.v] = Abandoned(@)]
     ELSE /\ Alive(co.v) /\ chan[co.v] # None
          /\ UNCHANGED <<chan, worker>>
  /\ Proceed("TimedOut") /\ Closing("TimedOut")
  /\ UNCHANGED <<answer, threads, results, joined, sent, lease, turn, resident>>

-----------------------------------------------------------------------------
(* A wave: dispatch to the idle vCPUs in order, then receive every lease.  *)

run_parallel_wave ==
  /\ co = Idle /\ \A v \in Vcpu : lease[v] = None
  /\ co' = [pc |-> "dispatch", v |-> 1, leases |-> <<>>]
  /\ UNCHANGED <<answer, chan, worker, threads, results, joined, sent, stopped,
                 lifecycle, life, lease, turn, resident>>

\* abort_thread_execution and lose_thread_execution on the process.
Faults(t) == [lifecycle EXCEPT ![ProcessOf[t]] = IF @ = "Running" THEN "Faulted" ELSE @]

\* dispatch_worker, for a thread of the scheduler's choice or none.
Dispatched == [co EXCEPT !.v = @ + 1]

SelectNothing ==
  /\ co.pc = "dispatch" /\ co.v \in Vcpu
  /\ co' = Dispatched
  /\ UNCHANGED <<answer, chan, worker, threads, results, joined, sent, stopped,
                 lifecycle, life, lease, turn, resident>>

Ready(t) == life[t] = "Ready" /\ \A v \in Vcpu : lease[v] # None => lease[v].thread # t

dispatch_worker(t) ==
  /\ co.pc = "dispatch" /\ co.v \in Vcpu /\ Ready(t)
  /\ LET new == [thread |-> t, vcpu |-> co.v, turn |-> turn[t]]
     IN /\ turn' = [turn EXCEPT ![t] = 1 - @]
        /\ \/ /\ ~stopped.pool /\ Alive(co.v) /\ chan[co.v] = None
              /\ chan' = [chan EXCEPT ![co.v] = [kind |-> "run", lease |-> new]]
              /\ lease' = [lease EXCEPT ![co.v] = new]
              /\ resident' = resident \ {t}
              /\ co' = [Dispatched EXCEPT !.leases = Append(@, new)]
              /\ UNCHANGED <<lifecycle, life>>
           \/ /\ stopped.pool \/ ~Alive(co.v)
              /\ lifecycle' = Faults(t)
              /\ life' = [life EXCEPT ![t] = "Faulted"]
              /\ co' = Dispatched
              /\ UNCHANGED <<chan, lease, resident>>
  /\ UNCHANGED <<answer, worker, threads, results, joined, sent, stopped>>

EndDispatch ==
  /\ co.pc = "dispatch" /\ co.v > Cpus
  /\ co' = [pc |-> "receive", leases |-> co.leases]
  /\ UNCHANGED <<answer, chan, worker, threads, results, joined, sent, stopped,
                 lifecycle, life, lease, turn, resident>>

AfterReceive ==
  IF Len(co.leases) = 1 THEN Idle ELSE [co EXCEPT !.leases = Tail(@)]

\* Mutant: a worker without a result yet counts as lost.
WorkerLostUnanswered(v) == results[v] = None

\* The result channel is closed and empty.
WorkerLost(v) == results[v] = None /\ ~Alive(v)

\* receive_worker: a worker's failure aborts the execution, an error of the
\* slice faults the process as well, a report leaves the thread ready.
receive_worker ==
  /\ co.pc = "receive" /\ co.leases # <<>>
  /\ LET expected == Head(co.leases)
         result   == results[expected.vcpu]
     IN \/ /\ result # None
           /\ results' = [results EXCEPT ![expected.vcpu] = None]
           /\ resident' = resident \cup {expected.thread}
           /\ IF result.lease = expected /\ result.outcome = "report"
                 /\ lifecycle[ProcessOf[expected.thread]] = "Running"
              THEN UNCHANGED <<lifecycle, life>>
              ELSE /\ lifecycle' = Faults(expected.thread)
                   /\ life' = [life EXCEPT ![expected.thread] = "Faulted"]
           /\ lease' = [lease EXCEPT ![expected.vcpu] = None]
           /\ co' = AfterReceive
        \/ /\ WorkerLost(expected.vcpu)
           /\ lifecycle' = Faults(expected.thread)
           /\ life' = [life EXCEPT ![expected.thread] = "Faulted"]
           /\ lease' = [lease EXCEPT ![expected.vcpu] = None]
           /\ co' = AfterReceive
           /\ UNCHANGED <<results, resident>>
  /\ UNCHANGED <<answer, chan, worker, threads, joined, sent, stopped, turn>>

EndWave ==
  /\ co.pc = "receive" /\ co.leases = <<>>
  /\ co' = Idle
  /\ UNCHANGED <<answer, chan, worker, threads, results, joined, sent, stopped,
                 lifecycle, life, lease, turn, resident>>

-----------------------------------------------------------------------------
(* Shutdown of the coordinator and of the pool.                            *)

StartClose ==
  IF stopped.host THEN [pc |-> "send", pass |-> 1] ELSE [pc |-> "close"]

shutdown ==
  /\ co = Idle /\ (~stopped.host => \A v \in Vcpu : lease[v] = None)
  /\ joined # Vcpu
  /\ co' = StartClose
  /\ stopped' = [stopped EXCEPT !.closing = ~stopped.host]
  /\ UNCHANGED <<answer, chan, worker, threads, results, joined, sent, lifecycle,
                 life, lease, turn, resident>>

\* Drop for RuntimeCoordinator: shutdown, and the pool in any case.
drop ==
  /\ co = Idle
  /\ co' = IF \E v \in Vcpu : lease[v] # None
           THEN [pc |-> "send", pass |-> 1] ELSE StartClose
  /\ stopped' = [stopped EXCEPT !.dropping = TRUE, !.closing = ~stopped.host]
  /\ UNCHANGED <<answer, chan, worker, threads, results, joined, sent, lifecycle,
                 life, lease, turn, resident>>

\* The next process is removed and torn down; a teardown may fail.
CloseProcess ==
  /\ co.pc = "close" /\ \E p \in Process : registered(p)
  /\ \/ /\ \E p \in Process : registered(p) /\ co' = Call("retire", p, 1, Cpus)
        /\ UNCHANGED stopped
     \/ /\ \E p \in Process : lifecycle[p] = "Removed"
        /\ co' = AfterFailure
        /\ stopped' = [stopped EXCEPT !.closing = FALSE]
  /\ UNCHANGED <<answer, chan, worker, threads, results, joined, sent, lifecycle,
                 life, lease, turn, resident>>

CloseHost ==
  /\ co.pc = "close" /\ ~\E p \in Process : registered(p)
  /\ co' = [pc |-> "send", pass |-> 1]
  /\ stopped' = [stopped EXCEPT !.host = TRUE, !.closing = FALSE]
  /\ UNCHANGED <<answer, chan, worker, threads, results, joined, sent, lifecycle,
                 life, lease, turn, resident>>

\* The end of one VcpuWorkerPool::shutdown; Drop runs it once more and then
\* drops the channels.
AfterPass ==
  IF ~stopped.dropping THEN Idle
  ELSE IF co.pass = 1 THEN [pc |-> "send", pass |-> 2] ELSE [pc |-> "gone"]

\* shutdown_with_timeout, its first loop: one worker at a time is told, in
\* order, and a full channel is tried again until the deadline.
SendShutdown ==
  /\ co.pc = "send"
  /\ stopped' = [stopped EXCEPT !.pool = TRUE]
  /\ IF sent = Vcpu
     THEN co' = [pc |-> "join", pass |-> co.pass] /\ UNCHANGED <<chan, sent>>
     ELSE LET v == CHOOSE v \in Vcpu \ sent : \A w \in Vcpu \ sent : v =< w
          IN \/ /\ ~Alive(v) \/ chan[v] = None
                /\ chan' = IF Alive(v) THEN [chan EXCEPT ![v] = [kind |-> "shutdown"]] ELSE chan
                /\ sent' = sent \cup {v}
                /\ UNCHANGED co
             \/ /\ Alive(v) /\ chan[v] # None
                /\ co' = AfterPass
                /\ UNCHANGED <<chan, sent>>
  /\ UNCHANGED <<answer, worker, threads, results, joined, lifecycle, life, lease,
                 turn, resident>>

\* The second loop: join the workers that finish before the deadline.
Join ==
  /\ co.pc = "join"
  /\ joined' = joined \cup {v \in Vcpu : ~Alive(v)}
  /\ co' = AfterPass
  /\ UNCHANGED <<answer, chan, worker, threads, results, sent, stopped, lifecycle,
                 life, lease, turn, resident>>

-----------------------------------------------------------------------------
(* worker_main.                                                            *)

receive_command(v) ==
  /\ worker[v] = Waiting /\ chan[v] # None
  /\ worker' = [worker EXCEPT ![v] = chan[v]]
  /\ chan' = [chan EXCEPT ![v] = None]
  /\ UNCHANGED <<co, answer, threads, results, joined, sent, stopped, lifecycle,
                 life, lease, turn, resident>>

\* The coordinator has dropped its end.
Disconnected(v) ==
  /\ worker[v] = Waiting /\ chan[v] = None /\ co.pc = "gone"
  /\ worker' = [worker EXCEPT ![v] = Finished]
  /\ UNCHANGED <<co, answer, chan, threads, results, joined, sent, stopped, lifecycle,
                 life, lease, turn, resident>>

Executing(v, kind) == worker[v].kind = kind

Answer(v, result) ==
  /\ answer' = IF worker[v].awaited THEN result ELSE answer
  /\ worker' = [worker EXCEPT ![v] = Waiting]

install(v) ==
  /\ Executing(v, "install")
  /\ Answer(v, IF worker[v].p \in threads[v] THEN "refused" ELSE "ok")
  /\ threads' = [threads EXCEPT ![v] = @ \cup {worker[v].p}]
  /\ UNCHANGED <<co, chan, results, joined, sent, stopped, lifecycle, life, lease,
                 turn, resident>>

\* A thread that cannot be prepared stays installed, with the others.
retire(v) ==
  /\ Executing(v, "retire") \/ Executing(v, "rollback")
  /\ \/ /\ threads' = [threads EXCEPT ![v] = @ \ {worker[v].p}]
        /\ Answer(v, "ok")
     \/ /\ worker[v].p \in threads[v]
        /\ Answer(v, "fault")
        /\ UNCHANGED threads
  /\ UNCHANGED <<co, chan, results, joined, sent, stopped, lifecycle, life, lease,
                 turn, resident>>

\* Mutant: a worker that ends leaves its channel open.
EndsSilently(v, command) ==
  /\ worker' = [worker EXCEPT ![v] = Finished]
  /\ threads' = [threads EXCEPT ![v] = {}]
  /\ UNCHANGED <<chan, answer>>

\* A worker ends; the command it executed and the one that waits in its
\* channel are dropped, and their callers see the channel closed.
Ends(v, command) ==
  /\ worker' = [worker EXCEPT ![v] = Finished]
  /\ threads' = [threads EXCEPT ![v] = {}]
  /\ chan' = [chan EXCEPT ![v] = None]
  /\ answer' = IF \E c \in {command, chan[v]} : c # None /\ c.kind \in Calls /\ c.awaited
               THEN "Lost" ELSE answer

\* A panic while a thread is prepared is not caught.
Panic(v) ==
  /\ Executing(v, "retire") \/ Executing(v, "rollback")
  /\ worker[v].p \in threads[v]
  /\ Ends(v, worker[v])
  /\ UNCHANGED <<co, results, joined, sent, stopped, lifecycle, life, lease, turn, resident>>

clear(v) ==
  /\ Executing(v, "clear")
  /\ Answer(v, IF worker[v].p \in threads[v] THEN "ok" ELSE "refused")
  /\ UNCHANGED <<co, chan, threads, results, joined, sent, stopped, lifecycle, life,
                 lease, turn, resident>>

\* One slice; a panic inside it is caught.  The result channel holds one.
run(v) ==
  /\ Executing(v, "run") /\ results[v] = None
  /\ \E outcome \in {"report", "error", "panic"} :
       /\ ProcessOf[worker[v].lease.thread] \notin threads[v] => outcome = "error"
       /\ results' = [results EXCEPT ![v] = [lease |-> worker[v].lease, outcome |-> outcome]]
  /\ worker' = [worker EXCEPT ![v] = Waiting]
  /\ UNCHANGED <<co, answer, chan, threads, joined, sent, stopped, lifecycle, life,
                 lease, turn, resident>>

finish(v) ==
  /\ Executing(v, "shutdown")
  /\ Ends(v, worker[v])
  /\ UNCHANGED <<co, results, joined, sent, stopped, lifecycle, life, lease, turn, resident>>

-----------------------------------------------------------------------------
Init ==
  /\ co = Idle /\ answer = None
  /\ chan = [v \in Vcpu |-> None] /\ worker = [v \in Vcpu |-> Waiting]
  /\ threads = [v \in Vcpu |-> {}] /\ results = [v \in Vcpu |-> None]
  /\ joined = {} /\ sent = {}
  /\ stopped = [pool |-> FALSE, host |-> FALSE, closing |-> FALSE, dropping |-> FALSE]
  /\ lifecycle = [p \in Process |-> "New"] /\ life = [t \in Thread |-> "None"]
  /\ lease = [v \in Vcpu |-> None] /\ turn = [t \in Thread |-> 0]
  /\ resident = Thread

\* What the coordinator does once a call has begun.
Continue ==
  \/ Send \/ Reply \/ SendFails \/ TimedOut
  \/ SelectNothing \/ (\E t \in Thread : dispatch_worker(t)) \/ EndDispatch
  \/ receive_worker \/ EndWave
  \/ CloseProcess \/ CloseHost \/ SendShutdown \/ Join

Work(v) ==
  \/ receive_command(v) \/ Disconnected(v)
  \/ install(v) \/ retire(v) \/ Panic(v) \/ clear(v) \/ run(v) \/ finish(v)

Next ==
  \/ \E p \in Process :
       \/ register_process(p) \/ remove_process(p)
       \/ \E v \in Vcpu : clear_local_exclusive(p, v)
  \/ run_parallel_wave \/ shutdown \/ drop
  \/ Continue
  \/ \E v \in Vcpu : Work(v)

\* Every thread of the host runs, and a slice ends (its budget is bounded).
Fairness == WF_vars(Continue) /\ \A v \in Vcpu : WF_vars(Work(v))

Spec == Init /\ [][Next]_vars /\ Fairness

-----------------------------------------------------------------------------
(* Properties.                                                             *)

Lease == [thread : Thread, vcpu : Vcpu, turn : 0..1]
Command == [kind : Calls, p : Process, awaited : BOOLEAN]
             \cup [kind : {"run"}, lease : Lease] \cup [kind : {"shutdown"}]

\* Types of the variables.
TypeOK ==
  /\ chan \in [Vcpu -> Command \cup {None}]
  /\ worker \in [Vcpu -> Command \cup {Waiting, Finished}]
  /\ results \in [Vcpu -> [lease : Lease, outcome : {"report", "error", "panic"}] \cup {None}]
  /\ answer \in {None, "ok", "refused", "fault", "Lost"}
  /\ lease \in [Vcpu -> Lease \cup {None}]
  /\ joined \subseteq Vcpu /\ sent \subseteq Vcpu
  /\ lifecycle \in [Process -> {"New", "Running", "Faulted", "Removed", "Dropped"}]
  /\ life \in [Thread -> {"None", "Ready", "Faulted"}]

\* Whatever deadline ran out and whatever failed before, the slice a worker is
\* sent, executes or has answered is the one its vCPU is leased for:
\* receive_worker never sees a stale result.
SliceIsLeased ==
  \A v \in Vcpu :
    /\ chan[v] # None /\ chan[v].kind = "run" => chan[v].lease = lease[v]
    /\ Executing(v, "run") => worker[v].lease = lease[v]
    /\ results[v] # None => results[v].lease = lease[v]

Copies(t) ==
  {<<"chan", v>> : v \in {w \in Vcpu : chan[w] # None /\ chan[w].kind = "run"
                                         /\ chan[w].lease.thread = t}} \cup
  {<<"worker", v>> : v \in {w \in Vcpu : Executing(w, "run") /\ worker[w].lease.thread = t}} \cup
  {<<"result", v>> : v \in {w \in Vcpu : results[w] # None /\ results[w].lease.thread = t}}

\* The CPU state of a thread is in its process or travels in exactly one
\* message, also when a worker dies with it; a state that is lost belongs to a
\* thread that cannot run again in a process that does not run any more.
StateInOnePlace ==
  \A t \in Thread :
    /\ t \in resident => Copies(t) = {}
    /\ t \notin resident =>
         \/ Cardinality(Copies(t)) = 1
         \/ Copies(t) = {} /\ \E v \in Vcpu : /\ lease[v] # None /\ lease[v].thread = t
                                             /\ ~Alive(v)
         \/ /\ Copies(t) = {} /\ ~Ready(t)
            /\ lifecycle[ProcessOf[t]] # "Running"

\* A removed process has left every worker that lives: a backend is torn down
\* only after no worker can run its code, even when a retirement timed out and
\* was retried while the first command was still under way.
RemovedLeftTheWorkers ==
  \A p \in Process, v \in Vcpu : lifecycle[p] = "Removed" => p \notin threads[v]

\* Leases, CPU states and processes are where the coordinator takes them to
\* be, whatever worker dies or answers late.
PoolConsistent == TypeOK /\ SliceIsLeased /\ StateInOnePlace /\ RemovedLeftTheWorkers

\* Every call of the coordinator returns: no blocked send, lost reply or dead
\* worker stops the emulator's main loop.
CallsReturn == co.pc \notin {"idle", "gone"} ~> co.pc \in {"idle", "gone"}

\* Once the coordinator is dropped every worker ends, also one that never got
\* its Shutdown command because its channel was full until the deadline.
WorkersEnd == stopped.dropping ~> \A v \in Vcpu : worker[v] = Finished

\* Nobody waits for a worker forever, and no worker for the coordinator.
PoolEnds == CallsReturn /\ WorkersEnd
=============================================================================
