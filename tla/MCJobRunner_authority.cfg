\* Every permission mode and kind of call: a call submitted whole (c1), a guarded
\* and a trusted call of the model (c2, c3) and a read (c4); project receipts.
CONSTANTS
  r1 = r1
  r2 = r2
  j1 = j1
  j2 = j2
  j3 = j3
  t1 = t1
  t2 = t2
  c1 = c1
  c2 = c2
  c3 = c3
  c4 = c4
  None = None
  Runners <- OneRunner
  Jobs <- TwoJobs
  Turns <- OneTurn
  Calls <- FourCalls
  McpCalls <- OneCall
  ModelCalls <- OtherCall
  TrustedCalls <- ThirdCall
  ReadCalls <- FourthCall
  GuardedCalls <- ThreeCalls
  Policies <- AllModes
  ProjectReceipts = TRUE
  MaxRevision = 1
SPECIFICATION Spec
SYMMETRY Symmetry
INVARIANTS
  EffectsAuthorised
  OpenTurnReachable
PROPERTIES
  TurnsFollowStore
