----------------------------- MODULE MCProcess ------------------------------
(***************************************************************************)
(* What a guest process holds in the emulator, each part on a small        *)
(* instance: the scheduler of its threads (two threads compete for two     *)
(* vCPUs; the counters are three wide, so that sequences, leases and wake  *)
(* generations all run out), its address space, and its display with the   *)
(* window and the display clock.                                           *)
(*                                                                         *)
(* As in MCKernel the parts share no variable, a behaviour chooses one of  *)
(* them at the start, and the run explores the disjoint union of their     *)
(* state graphs.                                                           *)
(***************************************************************************)
EXTENDS Scheduler, TLC

CONSTANTS
  HeapPages, StackPages, MemoryLimit, MaxThreads, SharedAt, Foreign, Masks,
  SlotIndices, LayerCount, BufferCount, CrossedBoundaries, FencePoints,
  RefreshPeriod, LatestTime

VARIABLES
  focus,   \* the part that runs
  mem, arena, registry, vis, failed, heap_size, normal, tls, free_tls, next_tls,
  queues, layers, buffers, pending, mailbox, released, loop, wake, events, redraw,
  window, step, shown, reached, presenting,
  next_boundary, sequence, elapsed

Space == INSTANCE AddressSpace
Screen == INSTANCE Display WITH
  host <- loop, Slots <- SlotIndices, MaxLayers <- LayerCount, MaxBuffers <- BufferCount,
  MaxCrossed <- CrossedBoundaries, Fence <- FencePoints
Clock == INSTANCE DisplayClock WITH Period <- RefreshPeriod, MaxTime <- LatestTime

space == <<mem, arena, registry, vis, failed, heap_size, normal, tls, free_tls, next_tls>>
screen == <<queues, layers, buffers, pending, mailbox, released, loop, wake, events,
            redraw, window, step, shown, reached, presenting>>
clock == <<next_boundary, sequence, elapsed>>
processVars == <<focus, sched, space, screen, clock>>

ProcessInit ==
  /\ focus \in {"scheduler", "space", "screen", "clock"}
  /\ Init /\ Space!Init /\ Screen!Init /\ Clock!Init
  /\ focus # "screen" => ~presenting

ProcessNext ==
  \/ focus = "scheduler" /\ Next /\ UNCHANGED <<focus, space, screen, clock>>
  \/ focus = "space" /\ Space!Next /\ UNCHANGED <<focus, sched, screen, clock>>
  \/ focus = "screen" /\ Screen!Next /\ UNCHANGED <<focus, sched, space, clock>>
  \/ focus = "clock" /\ Clock!Next /\ UNCHANGED <<focus, sched, space, screen>>

ProcessSpec == ProcessInit /\ [][ProcessNext]_processVars

ThreadSymmetry == Permutations(ThreadId) \cup Permutations(Vcpu)

\* The parts that do not run are constant.
StateView ==
  CASE focus = "scheduler" -> <<focus, sched>>
    [] focus = "space"     -> <<focus, space>>
    [] focus = "screen"    -> <<focus, screen>>
    [] OTHER               -> <<focus, clock>>

-----------------------------------------------------------------------------
(* The properties of the instances, each evaluated where its part runs.    *)

\* Page table, physical pages, host mappings and loans agree.
MappingsConsistent == focus = "space" => Space!MappingsConsistent

\* The memory counters are what is mapped, and no TLS page is shared.
AccountingConsistent == focus = "space" => Space!AccountingConsistent

\* Slots, frames and wakeups of the display agree, and however late the
\* calls, every display boundary is counted once.
DisplayConsistent ==
  /\ focus = "screen" => Screen!DisplayConsistent
  /\ focus = "clock" => Clock!BoundariesCountedOnce

\* A slot is queued exactly while one frame of it is outstanding.
ShownIsNotReused == focus = "screen" => Screen!ShownIsNotReused

\* A slot that becomes free leaves its event signalled.
FreeingSignals == [][focus = "screen" => Screen!FreedSlotsSignal]_processVars
=============================================================================
