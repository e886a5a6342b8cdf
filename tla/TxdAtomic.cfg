\* Two threads, an int of three bits, and references up to its full range.
SPECIFICATION Spec
CONSTANTS
  Thread = {t1, t2}
  IntHalf = 4
  MaxRefs = 7
INVARIANTS
  TypeOK
  CountIsReferences
  LastDropToldOnce
  LockHeldByOne
