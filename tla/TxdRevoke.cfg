\* Every table size from 1 to 20, powers of two and others.
SPECIFICATION Spec
CONSTANTS
  HashSizes = {1, 2, 3, 4, 5, 7, 8, 9, 15, 16, 17, 20}
  MemMod = 1024
INVARIANTS
  TypeOK
  AllOrNothing
  ShiftIsLog
