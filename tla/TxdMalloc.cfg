\* Several blocks, a counter narrow enough to wrap, arrays of one and two
\* elements.
SPECIFICATION Spec
CONSTANTS
  Block = {b1, b2, b3}
  Size = {1, 3, 6}
  Num = {1, 2}
  MemMod = 16
INVARIANTS
  TypeOK
  AccountingExact
