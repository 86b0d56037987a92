------------------------------ MODULE MCHilCore ------------------------------
(* Finite instances of HilCore.  Requests differ only by name, and every use *)
(* of one is by equality, so their permutations are a symmetry.              *)
EXTENDS HilCore, TLC

RequestSymmetry == Permutations(Requests)
=============================================================================
