---------------------------- MODULE MCMonitoredCycle ----------------------------
(* A small instance of MonitoredCycle.                                        *)
EXTENDS MonitoredCycle, TLC

CONSTANTS r1, r2, r3, r4, i1, i2, f1, f2, v1, pack, ontology

\* Retries of one "mape run", and a loop with another input.
TwoInputs == [r \in Runner |-> IF r = r4 THEN i2 ELSE i1]

Interchangeable == Permutations({r \in Runner : InputOf[r] = i1})

\* The second one is made while scans go on.
OneFile == [f \in Path |-> IF f = f1 THEN v1 ELSE Gone]

\* One file that an action is recommended for, and one of a schema.
Recommended == [f \in Path |-> IF f = f1 THEN pack ELSE ontology]

\* What is explored further: two edits, faults and overtaken repositories in all;
\* not what follows once the loop was turned away, which changes nothing, nor
\* once the receipt says "interrupted", which is read as "failed" is.
Explored ==
  /\ edits + faults + Cardinality(overtaken) <= 2
  /\ receipt.input = i1 => pc[r4] = "ready"
  /\ receipt.status # "interrupted"
=============================================================================
