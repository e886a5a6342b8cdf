\* Two heads and three entries, all interchangeable; nothing limits the
\* length of a run.
SPECIFICATION Spec
CONSTANTS
  h1 = h1
  h2 = h2
  e1 = e1
  e2 = e2
  e3 = e3
  Heads = {h1, h2}
  Entries = {e1, e2, e3}
  LIST_POISON1 = LIST_POISON1
  LIST_POISON2 = LIST_POISON2
  NULL = NULL
SYMMETRY MCSymmetry
VIEW view
INVARIANTS
  TypeOK
  RingsClosed
  CarefulMeansDone
  LoopMeetsEach
PROPERTY
  ImplementsListSeq
