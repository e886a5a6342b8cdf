\* Two controllers, all orders of calls; the process may end, so it may stop.
SPECIFICATION Spec
CONSTANTS
  c1 = c1
  c2 = c2
  Controller = {c1, c2}
  ActiveNs <- MCActiveNs
  MaxQpairs = 2
  Lba = {0, 1}
  Data = {zeros, block}
  Zeros = zeros
CHECK_DEADLOCK FALSE
INVARIANTS
  TypeOK
  ListsMatchDevices
  ReadyQpairsLive
PROPERTIES
  ReadsBlockOrZeros
  IoCompletes
