\* One statement is enough.
CONSTANTS
  Db = Db
  s1 = s1
  e1 = e1
  None = None
  Statements = {s1}
  Executions = {e1}
SPECIFICATION Spec
INVARIANTS
  ExecuteReturnsPromise
