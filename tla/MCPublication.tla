---------------------------- MODULE MCPublication ----------------------------
(* Instances of Publication for TLC.                                       *)
EXTENDS Publication, TLC

Symmetry == Permutations(Users) \cup Permutations(Pairs)
=============================================================================
