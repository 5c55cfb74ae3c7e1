\* Expected to be violated: a continuation that outlives its approval.
CONSTANTS
  r1 = r1
  r2 = r2
  j1 = j1
  j2 = j2
  j3 = j3
  t1 = t1
  t2 = t2
  c1 = c1
  c2 = c2
  c3 = c3
  c4 = c4
  None = None
  Runners <- OneRunner
  Jobs <- TwoJobs
  Turns <- OneTurn
  Calls <- OneCall
  McpCalls <- NoCalls
  ModelCalls <- NoCalls
  TrustedCalls <- NoCalls
  ReadCalls <- NoCalls
  GuardedCalls <- OneCall
  Policies <- ReviewOnly
  ProjectReceipts = FALSE
  MaxRevision = 2
SPECIFICATION Spec
SYMMETRY Symmetry
INVARIANTS
  ContinuationHarmless
CHECK_DEADLOCK FALSE
