-------------------------- MODULE MCKnowledgeVersions --------------------------
(* A small instance of KnowledgeVersions.                                    *)
EXTENDS KnowledgeVersions, TLC

CONSTANTS w1, w2, c1, c2, c3, c4, t1, t2

\* Three changes of one target, one of another.
Targets == [c \in Change |-> IF c = c4 THEN t2 ELSE t1]

Interchangeable == Permutations(Writer) \cup Permutations(Change \ {c4})
=============================================================================
