---------------------------- MODULE LocalServiceMC ----------------------------
(* Instances of LocalService for TLC. *)
EXTENDS LocalService, TLC

Symmetry == Permutations(Tokens)
=============================================================================
