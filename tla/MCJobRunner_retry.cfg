\* One process that crashes and restarts; three attempts at one turn, with
\*  approval, denial, cancellation and retry in every order; no symmetry, for the
\*  liveness.
CONSTANTS
  r1 = r1
  r2 = r2
  j1 = j1
  j2 = j2
  j3 = j3
  t1 = t1
  t2 = t2
  c1 = c1
  c2 = c2
  c3 = c3
  c4 = c4
  None = None
  Runners <- OneRunner
  Jobs <- ThreeJobs
  Turns <- OneTurn
  Calls <- OneCall
  McpCalls <- NoCalls
  ModelCalls <- NoCalls
  TrustedCalls <- NoCalls
  ReadCalls <- NoCalls
  GuardedCalls <- OneCall
  Policies <- ReviewOnly
  ProjectReceipts = FALSE
  MaxRevision = 1
SPECIFICATION FairSpec
INVARIANTS
  TypeOK
  OneActiveJob
  JobRecordsValid
PROPERTIES
  DispatchOnce
  DecisionsHold
  AdmittedJobsFinish
  ApprovedCallSettles
