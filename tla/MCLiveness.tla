----------------------------- MODULE MCLiveness -----------------------------
(***************************************************************************)
(* What must eventually happen, for components that share no variable: the *)
(* execution gate, event waits with a single signalling thread, and the    *)
(* vCPU workers; and the invalidation log, which must implement the stream *)
(* its readers rely on.                                                    *)
(*                                                                         *)
(* As in MCKernel a behaviour chooses one of them and runs that one.  The  *)
(* fairness of a component asks nothing of behaviours in which it stays in *)
(* its initial state, since no step that is to be fair is enabled there.   *)
(***************************************************************************)
EXTENDS ExecutionGate, InvalidationLog, TLC

CONSTANTS
  Event, Token, Signaller, InboxCapacity,
  Cpus, Process, GuestThread

VARIABLES
  focus,   \* the component that runs
  signalled, watchers, groups, won, registered, inbox, overflowed, active, unused,
  signaller, coord, failed,
  co, answer, chan, worker, threads, results, joined, sent, stopped, lifecycle,
  life, lease, turn, resident

Batches == UNION {[1..n -> Change] : n \in 0..(Capacity + 1)}

Events == INSTANCE EventWait WITH Capacity <- InboxCapacity
\* Two threads of one process.
Workers == INSTANCE WorkerPool WITH
  Thread <- GuestThread, ProcessOf <- [t \in GuestThread |-> CHOOSE p \in Process : TRUE]

\* The log meets what the proofs about it assume of its constants.
ASSUME LogAssumption == LogConfiguration

events == <<signalled, watchers, groups, won, registered, inbox, overflowed, active,
            unused, signaller, coord, failed>>
workers == <<co, answer, chan, worker, threads, results, joined, sent, stopped,
             lifecycle, life, lease, turn, resident>>
liveVars == <<focus, vars, events, logVars, workers>>

LiveInit ==
  /\ focus \in {"gate", "events", "log", "workers"}
  /\ Init /\ Events!Init /\ LogInit /\ Workers!Init
  /\ focus # "events" => \A e \in Event : ~signalled[e]

LiveNext ==
  \/ focus = "gate" /\ Next /\ UNCHANGED <<focus, events, logVars, workers>>
  \/ focus = "events" /\ Events!Next /\ UNCHANGED <<focus, vars, logVars, workers>>
  \/ focus = "log" /\ LogNext /\ UNCHANGED <<focus, vars, events, workers>>
  \/ focus = "workers" /\ Workers!Next /\ UNCHANGED <<focus, vars, events, logVars>>

GateFairness == \A t \in Thread : WF_vars(Step(t))

LiveSpec ==
  /\ LiveInit /\ [][LiveNext]_liveVars
  /\ GateFairness /\ Events!Fairness /\ Workers!Fairness

-----------------------------------------------------------------------------
(* The properties of the instances.                                        *)

\* A wait won by one of its events ends.
WonWaitEnds == Events!WonWaitEnds

\* Every call of the coordinator to its workers returns, and every worker
\* ends once the coordinator is dropped.
PoolEnds == Workers!PoolEnds
=============================================================================
