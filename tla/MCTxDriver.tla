----------------------------- MODULE MCTxDriver -----------------------------
(* TLC instances of TxDriver.                                              *)
EXTENDS TxDriver

CONSTANTS c1, c2

MCActiveNs == [c \in Controller |-> IF c = c1 THEN <<1>> ELSE << >>]
=============================================================================
