\* Two databases, so that a callback of one acts on the other; beside their
\* connects two more requests on two databases, or three on one.
CONSTANTS
  d1 = d1
  d2 = d2
  r1 = r1
  r2 = r2
  r3 = r3
  r4 = r4
  None = None
  Databases = {d1, d2}
  Requests = {r1, r2, r3, r4}
  MaxRounds = 2
  MaxStages = 1
SPECIFICATION Spec
SYMMETRY Symmetry
INVARIANTS
  TypeOK
  PinnedWhilePending
  CloseIsLast
  PendingOnOpenHandle
  OneOperation
  ShutdownDrained
  LoopOK
PROPERTIES
  BegunInOrder
  ImplementsService
