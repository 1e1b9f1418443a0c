\* Two statements, so that one is closed between the calls of the other, and
\* two calls of execute.
CONSTANTS
  Db = Db
  s1 = s1
  s2 = s2
  e1 = e1
  e2 = e2
  None = None
  Statements = {s1, s2}
  Executions = {e1, e2}
SPECIFICATION FairSpec
INVARIANTS
  TypeOK
  ExecutesBeforeClose
  ListedIsOpen
  NoDanglingDatabase
PROPERTIES
  ImplementsService
  StatementsClosed
