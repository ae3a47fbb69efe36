---------------------------- MODULE MCGpuExecutor ----------------------------
(***************************************************************************)
(* GpuExecutor for TLC: the kinds of plans that differ in control, and the *)
(* combinations of optional calls and faults, each explored on its own.    *)
(***************************************************************************)
EXTENDS GpuExecutor

\* Accelerated work; work that writes guest memory when it completes; work of
\* two segments; software work.
MCPlan ==
  {[segments |-> 1, deferred |-> FALSE, fence |-> TRUE],
   [segments |-> 1, deferred |-> TRUE, fence |-> TRUE],
   [segments |-> 2, deferred |-> FALSE, fence |-> TRUE],
   [segments |-> 0, deferred |-> FALSE, fence |-> FALSE]}
=============================================================================
