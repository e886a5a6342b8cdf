---------------------------- MODULE MCTxdriverApi ----------------------------
(* TLC instances of TxdriverApi.                                           *)
EXTENDS TxdriverApi

CONSTANTS c1

MCActiveNs == [c \in Controller |-> <<1>>]
=============================================================================
