\* One turn with two calls: every interleaving of the store's methods on it.
CONSTANTS
  t1 = t1
  c1 = c1
  c2 = c2
  main = main
  Turns <- OneTurn
  Threads <- OneThread
  ThreadOf <- TurnThread
  Calls <- TwoCalls
  MaxRevision = 2
SPECIFICATION Spec
INVARIANTS
  TypeOK
  RecordsValid
  DispatchNeedsApproval
  OpenTurnCanClose
PROPERTIES
  HistoryKept
  NonReplayableStaysClosed
CHECK_DEADLOCK FALSE
