\* One task; two claims, two interventions, and a dispatcher that dies once.  The
\* limit of violations is 2 instead of 3, so that two claims reach it.
CONSTANTS
  c = c
  None = None
  Tasks <- OneTask
  Timed <- OneTask
  MaxRuns = 2
  MaxCommands = 2
  MaxBoots = 2
  FailureLimit = 2
  DefaultLimit = 2
  ViolationLimit = 2
SPECIFICATION FairSpec
INVARIANTS
  TypeOK
  RunsMatchClaims
  RetryBudget
PROPERTIES
  NoDuplicateWorker
  ClaimReleased
