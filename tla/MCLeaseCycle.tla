---------------------------- MODULE MCLeaseCycle ----------------------------
(***************************************************************************)
(* PageVisibility on one page that a vCPU runs on and the GPU writes, for  *)
(* the question whether the lease of a vCPU and the exclusive transitions  *)
(* of the GPU owner can wait for each other.                               *)
(***************************************************************************)
EXTENDS PageVisibility, TLC

OneOperationEach == (Host :> 1) @@ (Owner :> 2)
OneResource == {Page}
=============================================================================
