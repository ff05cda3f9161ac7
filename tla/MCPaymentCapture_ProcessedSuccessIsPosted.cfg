SPECIFICATION Spec
CONSTANTS
  e1 = e1
  e2 = e2
  s1 = s1
  Events = {e1}
  Sweepers = {s1}
  MaxTries = 2
  MaxFaults = 1
CHECK_DEADLOCK FALSE
INVARIANTS
  ProcessedSuccessIsPosted
