--------------------------- MODULE MCCategoryTree ---------------------------
(***************************************************************************)
(* CategoryTree instantiated for TLC: one request after the other.         *)
(***************************************************************************)
EXTENDS CategoryTree, TLC

CONSTANTS r1, MaxCalls

InTurn == {[part |-> "categories", crowd |-> {r1}, calls |-> MaxCalls]}

Interchangeable == Permutations(Cats)
=============================================================================
