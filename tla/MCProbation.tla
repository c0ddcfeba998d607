---------------------------- MODULE MCProbation ----------------------------
(***************************************************************************)
(* Two builds, both newer than the distribution's kernel; the newer of the *)
(* two does not come up.                                                   *)
(***************************************************************************)
EXTENDS Probation

CONSTANTS distro, good, bad

MCVersion == [k \in Kernels |-> IF k = distro THEN 1 ELSE IF k = good THEN 2 ELSE 3]
=============================================================================
