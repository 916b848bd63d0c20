----------------------------- MODULE MCDIDBoard -----------------------------
(***************************************************************************)
(* The contract on two identities, two accounts, two documents, two roots. *)
(* Nothing in DIDBoard tells apart two identities, documents or roots, so  *)
(* exchanging them is a symmetry.                                          *)
(***************************************************************************)
EXTENDS DIDBoard, TLC

Symmetry == Permutations(Ids) \cup Permutations(Docs) \cup Permutations(Roots)
=============================================================================
