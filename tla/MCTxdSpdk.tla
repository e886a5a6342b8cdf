------------------------------ MODULE MCTxdSpdk ------------------------------
(* TLC instances of TxdSpdk.                                               *)
EXTENDS TxdSpdk

CONSTANTS c1, c2

(* One controller with two active namespaces, one with none.               *)
MCActiveNs == [c \in Controller |-> IF c = c1 THEN <<1, 3>> ELSE << >>]
=============================================================================
