------------------------- MODULE MCSandboxInstance -------------------------
(***************************************************************************)
(* SandboxInstance for TLC. Which worker executes a run does not matter.   *)
(***************************************************************************)
EXTENDS SandboxInstance, TLC

Symmetry == Permutations(Workers)
=============================================================================
