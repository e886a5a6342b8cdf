\* As MCTxdJournal.cfg: what txdriver.h says of j_last and j_free.
SPECIFICATION Spec
CONSTANTS
  Superblocks <- MCSuperblocks
  HashSize = 256
  MinBlocks = 1024
  TidMod = 8
  Garbage = {0, 5}
  CreateResults = {0}
  MemMod = 65536
INVARIANT LogAsDocumented
