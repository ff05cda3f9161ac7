SPECIFICATION FairSpec
CONSTANTS
  w1 = w1
  w2 = w2
  s1 = s1
  s2 = s2
  None = none
  Workers = {w1, w2}
  Slots = {s1, s2}
  Owner <- OnePerWorker
  MaxAttempts = 2
  HandlerDeadline = 1
  StaleThreshold = 2
  MaxJobs = 2
  MaxLost = 1
  MaxRetries = 1
CHECK_DEADLOCK FALSE
INVARIANTS
  RunnersHoldClaims
  SweepChain
  AttemptsAccounted
PROPERTIES
  JobsSettle
