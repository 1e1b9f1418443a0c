\* Every mask libmariadb asks for: one direction, EXCEPT with a connect on
\* Windows, TIMEOUT where a timeout is set.
CONSTANTS
  Masks = {{"READ"}, {"READ", "TIMEOUT"}, {"WRITE"}, {"WRITE", "TIMEOUT"},
           {"WRITE", "EXCEPT"}, {"WRITE", "EXCEPT", "TIMEOUT"}}
  MaxRounds = 2
SPECIFICATION FairSpec
INVARIANTS
  TypeOK
  ContinuedReady
PROPERTIES
  ImplementsLifeSteps
  ActionEnds
