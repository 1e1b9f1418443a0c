\* Result sets of up to three rows; a thread is three steps and more long.
CONSTANTS
  MaxRounds = 2
  MaxRows = 3
SPECIFICATION FairSpec
INVARIANTS
  TypeOK
  ThreadOwnsAction
  ResolvedWithAllRows
  FailureIsRejected
  RowsFreed
PROPERTIES
  ImplementsLifeSteps
  ExecutionEnds
