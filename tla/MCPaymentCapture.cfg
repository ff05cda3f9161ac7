SPECIFICATION FairSpec
CONSTANTS
  e1 = e1
  e2 = e2
  s1 = s1
  Events = {e1, e2}
  Sweepers = {s1}
  MaxTries = 2
  MaxFaults = 2
CHECK_DEADLOCK FALSE
INVARIANTS
  CapturedOnce
  StartedOrderIsPosted
  OutcomeJustified
PROPERTIES
  ImplementsLifecycle
  IntentFollowsTable
  PaidOrderStarts
