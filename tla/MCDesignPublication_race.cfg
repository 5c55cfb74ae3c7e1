\* Expected to be violated: a losing apply overwrites the receipt of the winner.
CONSTANTS
  q1 = q1
  q2 = q2
  x1 = x1
  x2 = x2
  Base = Base
  None = None
  Requests <- TwoRequests
  Transactions <- TwoTransactions
  MaxRevision = 4
  MaxFaults = 0
SPECIFICATION Spec
SYMMETRY Symmetry
INVARIANT
  UndoRemains
CHECK_DEADLOCK FALSE
