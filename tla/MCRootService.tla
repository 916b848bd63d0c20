---------------------------- MODULE MCRootService ----------------------------
(* The instances of RootService that TLC checks. *)
EXTENDS RootService, TLC

Symmetry == Permutations(Ids)
=============================================================================
