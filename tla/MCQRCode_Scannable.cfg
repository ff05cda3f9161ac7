SPECIFICATION Spec
CONSTANTS
  Payloads <- Texts
CHECK_DEADLOCK FALSE
INVARIANTS
  Scannable
