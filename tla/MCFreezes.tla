----------------------------- MODULE MCFreezes -----------------------------
(***************************************************************************)
(* An App of two containers that two deletions freeze.                     *)
(***************************************************************************)
EXTENDS ResourceFreezes, TLC

CONSTANTS first, second, web, worker, none

Symmetry == Permutations(Containers) \cup Permutations(Deletions)
=============================================================================
