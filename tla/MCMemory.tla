------------------------------ MODULE MCMemory ------------------------------
(***************************************************************************)
(* Guest memory, each part on a small instance: who has the newest bytes   *)
(* of a page (once with two vCPUs and a single page, once with two pages   *)
(* in one device resource), and the native code cache.                     *)
(*                                                                         *)
(* As in MCKernel the parts share no variable, a behaviour chooses one of  *)
(* them at the start, and the run explores the disjoint union of their     *)
(* state graphs.                                                           *)
(***************************************************************************)
EXTENDS PageVisibility, JitCache, TLC

CONSTANTS Other,        \* a second page, in one resource with the first
          Near, Far     \* code pages

VARIABLES
  focus,   \* the part that runs
  page2, mirror2, unread2, act2, leased2, pending2, ring2, requests2, batch2, dep2,
  point2, writes2, truth2, loose2, ops2

\* One page, executable, that every vCPU runs on and a device resource has.
OneResource == {Page}
OperationBounds == (Host :> 1) @@ (Owner :> 2)

\* One vCPU, and a device resource that spans two pages.
TwoPages == INSTANCE PageVisibility WITH
  Vcpu <- {CHOOSE v \in Vcpu : TRUE}, Page <- Page \cup {Other},
  Resource <- {Page \cup {Other}}, HostOps <- {"read", "word"},
  OwnerOps <- {"prepare", "capture", "follow"}, MaxWrites <- 2,
  page <- page2, mirror <- mirror2, unread <- unread2, act <- act2, leased <- leased2,
  pending <- pending2, ring <- ring2, requests <- requests2, batch <- batch2,
  dep <- dep2, point <- point2, writes <- writes2, truth <- truth2, loose <- loose2,
  ops <- ops2

\* The high tier follows the code further than the low tier.
CodePages == {Near, Far}
LowDeps == [k \in Key |-> {Near} \cup Span]
HighDeps == [k \in Key |-> CodePages \cup Span]

\* The instances meet what the proofs about the components assume of their
\* constants.
ASSUME MemoryAssumption ==
  PageConfiguration /\ TwoPages!PageConfiguration /\ JitConfiguration

visibility2 == <<page2, mirror2, unread2, act2, leased2, pending2, ring2, requests2, batch2,
                 dep2, point2, writes2, truth2, loose2, ops2>>

MemoryInit ==
  /\ focus \in {"page", "pages", "jit"}
  /\ Init /\ TwoPages!Init /\ JitInit

MemoryNext ==
  \/ focus = "page" /\ Next /\ UNCHANGED <<focus, visibility2, jitVars>>
  \/ focus = "pages" /\ TwoPages!Next /\ UNCHANGED <<focus, vars, jitVars>>
  \/ focus = "jit" /\ JitNext /\ UNCHANGED <<focus, vars, visibility2>>

MemorySpec == MemoryInit /\ [][MemoryNext]_<<focus, vars, visibility2, jitVars>>

\* The parts that do not run are constant: a state is that of the part that does.
StateView ==
  CASE focus = "page"  -> <<focus, vars>>
    [] focus = "pages" -> <<focus, visibility2>>
    [] OTHER           -> <<focus, jitVars>>

-----------------------------------------------------------------------------
\* When device work wrote two pages at once, reading one of them back loses
\* nothing of the other: both keep every write, and authority, mirrors and
\* dependencies agree on both.
SpannedPages == focus = "pages" => TwoPages!NoWriteLost /\ TwoPages!AuthorityConsistent
=============================================================================
