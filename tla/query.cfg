\* Result sets of up to three rows, two suspensions in every call.
CONSTANTS
  MaxRounds = 2
  MaxRows = 3
SPECIFICATION FairSpec
INVARIANTS
  TypeOK
  ResolvedWithAllRows
  FailureIsRejected
  ConnectionInSync
  StagesInStep
PROPERTY ImplementsLife
