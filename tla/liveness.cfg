\* Two databases and one request beside their connects; no symmetry.
CONSTANTS
  d1 = d1
  d2 = d2
  r1 = r1
  r2 = r2
  None = None
  Databases = {d1, d2}
  Requests = {r1, r2}
  MaxRounds = 1
  MaxStages = 1
SPECIFICATION FairSpec
PROPERTIES
  EveryActionLeaves
  CollectedIsDeleted
  ShutdownEnds
