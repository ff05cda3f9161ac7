SPECIFICATION FairSpec
CONSTANTS
  buyer = buyer
  seller = seller
  admin = admin
  none = none
  r1 = r1
  r2 = r2
  w1 = w1
  Buyer = buyer
  Seller = seller
  Admin = admin
  None = none
  Requests = {r1, r2}
  Sweepers = {w1}
  RevisionsAllowed = 1
  PaymentCaptured = TRUE
  MaxDeliveries = 2
  MaxCancellations = 1
  MaxDisputes = 1
CHECK_DEADLOCK FALSE
INVARIANTS
  DeliveryVersions
  RevisionAllowance
  CancelledByDecision
  ReleasesBounded
  ReviewAfterAcceptance
PROPERTIES
  ImplementsLifecycle
  DecisionsFinal
  DeliveryAnswered
