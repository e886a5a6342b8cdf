\* As MCTxdJournal.cfg, but pthread_create may report EAGAIN (11).
SPECIFICATION Spec
CONSTANTS
  Superblocks <- MCSuperblocks
  HashSize = 256
  MinBlocks = 1024
  TidMod = 8
  Garbage = {0, 5}
  CreateResults = {0, 11}
  MemMod = 65536
PROPERTY CallReturns
