\* Address 0 is the same sector for tx_format and tx_begin, address 768 is
\* not, and is no multiple of a sector; lengths of one sector and of two.
SPECIFICATION Spec
CONSTANTS
  c1 = c1
  Controller = {c1}
  ActiveNs <- MCActiveNs
  MaxQpairs = 2
  Addr = {0, 768}
  Length = {600, 1024}
  Blank = blank
CHECK_DEADLOCK FALSE
INVARIANTS
  TypeOK
  LosesWholeOrHead
  FaultNeedsUnwritten
  FoundIsOnDisk
PROPERTIES
  FormatStaysInArea
  BeginReturns
