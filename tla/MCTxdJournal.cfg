\* The code's own table size and journal minimum; every allocation may fail,
\* and pthread_create may: with TXD_FAIL (1) or with EAGAIN (11).
SPECIFICATION Spec
CONSTANTS
  Superblocks <- MCSuperblocks
  HashSize = 256
  MinBlocks = 1024
  TidMod = 8
  Garbage = {0, 5}
  CreateResults = {0, 1, 11}
  MemMod = 65536
INVARIANTS
  Inductive
  TypeOK
  OpenedWhole
  NoAssert
  AccountingExact
  NoLostWakeup
  MarkedUntilServed
PROPERTIES
  Refinement
