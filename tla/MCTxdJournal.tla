---------------------------- MODULE MCTxdJournal ----------------------------
(* TLC instances of TxdJournal.                                            *)
EXTENDS TxdJournal

Sb(blocksize, maxlen, first, sequence, start) ==
  [s_blocksize |-> blocksize, s_maxlen |-> maxlen, s_first |-> first,
   s_sequence |-> sequence, s_start |-> start]

(* The lengths around TXD_MIN_JOURNAL_BLOCKS, clean and dirty logs, a      *)
(* first block beyond the last one, and block sizes in which no block tag  *)
(* fits and just one does.                                                 *)
MCSuperblocks ==
  { Sb(4096, n, 1, q, s) : n \in {1023, 1024, 4096}, q \in {0, 3}, s \in {0, 7} }
    \cup { Sb(4096, 1024, 2, 0, 0), Sb(4096, 1025, 2, 0, 0),
           Sb(4096, 1024, 2048, 0, 0), Sb(4096, 0, 1, 0, 0),
           Sb(32, 1024, 1, 0, 0), Sb(64, 1024, 1, 0, 0) }
=============================================================================
