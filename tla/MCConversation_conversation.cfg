\* Three attempts at one turn, with threads that earlier ones may leave behind.
CONSTANTS
  w1 = w1
  w2 = w2
  c1 = c1
  c2 = c2
  None = None
  Threads <- TwoThreads
  Calls <- TwoCalls
  Verdicts <- AllVerdicts
  MaxAttempts = 3
  Disturbed <- OnlySecond
  MaxRevision = 1
SPECIFICATION FairSpec
INVARIANTS
  TypeOK
  HandlersApart
  EffectRecorded
  StrandedTurnRetryable
PROPERTIES
  DispatchOnce
  StopEndsAttempt
CHECK_DEADLOCK FALSE
