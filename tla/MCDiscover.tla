----------------------------- MODULE MCDiscover -----------------------------
(***************************************************************************)
(* Discover with interchangeable hosts and configurations.                 *)
(***************************************************************************)
EXTENDS Discover, TLC

Symmetry == Permutations(Hosts) \cup Permutations(Bodies)
=============================================================================
