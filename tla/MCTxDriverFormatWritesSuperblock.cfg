\* As MCTxDriver.cfg: what the comment on tx_format says.
SPECIFICATION Spec
CONSTANTS
  c1 = c1
  c2 = c2
  Controller = {c1, c2}
  ActiveNs <- MCActiveNs
  MaxQpairs = 2
  Addr = {0, 1}
  Length = {1024, 4096}
  Blank = blank
  Parts = {part}
  MaxJournals = 2
CHECK_DEADLOCK FALSE
INVARIANT FormatWritesSuperblock
