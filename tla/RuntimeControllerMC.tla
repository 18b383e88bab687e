-------------------------- MODULE RuntimeControllerMC --------------------------
(* Instances of RuntimeController for TLC. *)
EXTENDS RuntimeController, TLC

Symmetry == Permutations(Nodes) \cup Permutations(Services) \cup Permutations(Domains)
=============================================================================
