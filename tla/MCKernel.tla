------------------------------ MODULE MCKernel ------------------------------
(***************************************************************************)
(* Parts of the guest kernel that interact only through guest threads,     *)
(* each on a small instance: event waits, priority inheritance, guest      *)
(* mutexes and condition variables, the syncpoints of nvhost-ctrl, and the *)
(* vCPU workers.                                                           *)
(*                                                                         *)
(* They share no variable.  A behaviour chooses one of them at the start   *)
(* and runs that one; the others stay in their initial states.  So a state *)
(* of this module is a state of one component, and the run explores the    *)
(* disjoint union of their state graphs.                                   *)
(***************************************************************************)
EXTENDS EventWait, TLC

CONSTANTS
  ThreadId, Priority, DonationKey, MaxDonations,
  GuestThread, Mutex, Key,
  Modulus, SYNCPOINT_COUNT, EVENT_SLOT_COUNT, Fd, Waiter, Threshold, MaxInFlight,
  Cpus, Process

VARIABLES
  focus,   \* the component that runs
  base, donations,
  waiters, owners, word, flag, guest, holds,
  control, inflight, suspended, live,
  co, answer, chan, worker, threads, results, joined, sent, stopped, lifecycle,
  life, lease, turn, resident

Donation == INSTANCE Inheritance WITH Vcpu <- {0}, ProcessId <- {1}, MaxCounter <- 1
Arbiter == INSTANCE AddressArbiter WITH Thread <- GuestThread
Control == INSTANCE HostControl
\* One thread for each process.
Workers == INSTANCE WorkerPool WITH Thread <- Process, ProcessOf <- [p \in Process |-> p]

donation == <<base, donations>>
arbiter == <<waiters, owners, word, flag, guest, holds>>
syncpoints == <<control, inflight, suspended, live>>
workers == <<co, answer, chan, worker, threads, results, joined, sent, stopped,
             lifecycle, life, lease, turn, resident>>
kernelVars == <<focus, vars, donation, arbiter, syncpoints, workers>>

KernelInit ==
  /\ focus \in {"events", "inheritance", "arbiter", "syncpoints", "workers"}
  /\ Init /\ Donation!Init /\ Arbiter!Init /\ Control!Init /\ Workers!Init
  /\ focus # "events" => \A e \in Event : ~signalled[e]
  /\ focus # "inheritance" => base = [t \in ThreadId |-> 0]

KernelNext ==
  \/ /\ focus = "events" /\ Next
     /\ UNCHANGED <<focus, donation, arbiter, syncpoints, workers>>
  \/ /\ focus = "inheritance" /\ Donation!Next
     /\ UNCHANGED <<focus, vars, arbiter, syncpoints, workers>>
  \/ /\ focus = "arbiter" /\ Arbiter!Next
     /\ UNCHANGED <<focus, vars, donation, syncpoints, workers>>
  \/ /\ focus = "syncpoints" /\ Control!Next
     /\ UNCHANGED <<focus, vars, donation, arbiter, workers>>
  \/ /\ focus = "workers" /\ Workers!Next
     /\ UNCHANGED <<focus, vars, donation, arbiter, syncpoints>>

KernelSpec == KernelInit /\ [][KernelNext]_kernelVars

(***************************************************************************)
(* Timeline positions and instance numbers only grow, so states of the     *)
(* syncpoints are identified by what the code can tell apart: the counter, *)
(* how far ahead each reservation is, and which submissions are stale.     *)
(***************************************************************************)
RelativeTimeline(timeline) ==
  IF timeline = None THEN <<>>
  ELSE <<Control!current_value(timeline),
         [i \in 1 .. Len(timeline.reservations) |->
            timeline.reservations[i].logical_position
              - timeline.current_position]>>

RelativeSubmission(submission) ==
  LET timeline == control.timelines[submission.syncpoint]
  IN <<submission.syncpoint,
       IF timeline # None /\ Contains(timeline.reservations, submission.reserved)
         THEN submission.reserved.logical_position - timeline.current_position
         ELSE 0>>

ControlView ==
  <<[id \in 0 .. SYNCPOINT_COUNT - 1 |-> RelativeTimeline(control.timelines[id])],
    [i \in 1 .. Len(inflight) |-> RelativeSubmission(inflight[i])],
    control.channel_syncpoints, control.devices, control.direct_waits,
    suspended, live>>

\* The components that do not run are constant.
StateView ==
  CASE focus = "events"      -> <<focus, vars>>
    [] focus = "inheritance" -> <<focus, donation>>
    [] focus = "arbiter"     -> <<focus, arbiter>>
    [] focus = "workers"     -> <<focus, workers>>
    [] OTHER                 -> <<focus, ControlView>>

Symmetry ==
  Permutations(Event) \cup Permutations(Token) \cup Permutations(Signaller)
    \cup Permutations(Process)

-----------------------------------------------------------------------------
(* The properties of the instances, each evaluated where its part runs.    *)

\* recompute_effective_priorities computes transitive inheritance.
InheritanceIsTransitive == focus = "inheritance" => Donation!InheritanceIsTransitive

\* Waiter records, mutex words and ownership records agree.
ArbiterConsistent == focus = "arbiter" => Arbiter!ArbiterConsistent

\* A waiter that was signalled before its deadline passed is not timed out.
SignalBeatsTimeout == Arbiter!SignalBeatsTimeout

\* Nobody sleeps on a syncpoint past the awaited value, every wait is owned,
\* and points are reached in the order of the submissions.
ControlConsistent == focus = "syncpoints" => Control!ControlConsistent

\* Workers hold the slices, states and processes the coordinator gave them.
PoolConsistent == focus = "workers" => Workers!PoolConsistent
=============================================================================
