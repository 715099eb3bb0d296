------------------------------ MODULE MCRpcReceipts ------------------------------
(* A small instance of RpcReceipts.                                          *)
EXTENDS RpcReceipts

CONSTANTS q1, q2, q3, q4, i1, i2

\* A command, two retries of it, and another command with the same key.
OneOtherInput == [r \in Request |-> IF r = q4 THEN i2 ELSE i1]
=============================================================================
