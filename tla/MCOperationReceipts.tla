-------------------------- MODULE MCOperationReceipts --------------------------
(* A small instance of OperationReceipts: retries of one command.            *)
EXTENDS OperationReceipts

CONSTANTS r1, r2, r3, i1

SameInput == [r \in Runner |-> i1]
=============================================================================
