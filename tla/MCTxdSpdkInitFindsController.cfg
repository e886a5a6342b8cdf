\* As MCTxdSpdk.cfg, with one block: a probe after a cleanup finds nothing.
SPECIFICATION Spec
CONSTANTS
  c1 = c1
  c2 = c2
  Controller = {c1, c2}
  ActiveNs <- MCActiveNs
  MaxQpairs = 2
  Lba = {0}
  Data = {zeros, block}
  Zeros = zeros
CHECK_DEADLOCK FALSE
PROPERTY InitFindsController
