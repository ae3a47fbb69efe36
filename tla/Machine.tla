------------------------------ MODULE Machine -------------------------------
(***************************************************************************)
(* The constants that the models of guest memory and of the native code    *)
(* cache have in common, so that one module can extend both.               *)
(***************************************************************************)
CONSTANTS
  Vcpu,   \* threads that execute guest code
  None    \* nothing: no actor, no region, no reservation
=============================================================================
