----------------------------- MODULE MCMemoryDrafts -----------------------------
(* A small instance of MemoryDrafts.                                         *)
EXTENDS MemoryDrafts, TLC

CONSTANTS o1, o2, d1, d2

Interchangeable == Permutations(Operator)
=============================================================================
