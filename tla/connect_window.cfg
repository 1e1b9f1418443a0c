\* One connect suffices to lose the userdata.
CONSTANTS
  d1 = d1
  r1 = r1
  None = None
  Databases = {d1}
  Requests = {r1}
  MaxRounds = 1
  MaxStages = 1
SPECIFICATION Spec
INVARIANT ConnectKeepsUserdata
