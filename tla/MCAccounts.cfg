SPECIFICATION Spec
CONSTANTS
  None = none
  Requests = {r1, r2}
  Sessions = {s1, s2}
  Tokens = {t1}
  MaxLoginAttempts = 1
  MaxPasswords = 2
  MaxEnrolments = 1
SYMMETRY Symmetry
CHECK_DEADLOCK FALSE
INVARIANTS
  OldPasswordsInFlightOnly
  SecondFactorShown
  GuessesBounded
  TokenUsesBounded
