\* Two requests replace one design, with two kills or errors.
CONSTANTS
  q1 = q1
  q2 = q2
  x1 = x1
  x2 = x2
  Base = Base
  None = None
  Requests <- TwoRequests
  Transactions <- TwoTransactions
  MaxRevision = 6
  MaxFaults = 2
SPECIFICATION Spec
SYMMETRY Symmetry
INVARIANTS
  TypeOK
  LiveMatchesRecord
  NoDesignLost
  BackupIsBase
  StagedChangeResolvable
  RepairingHasOwner
PROPERTIES
  NeverRevived
  PublishesAtomically
CHECK_DEADLOCK FALSE
