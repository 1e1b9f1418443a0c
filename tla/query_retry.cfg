\* A query without rows is enough to lose the server.
CONSTANTS
  MaxRounds = 1
  MaxRows = 1
SPECIFICATION Spec
INVARIANT RetryReperforms
