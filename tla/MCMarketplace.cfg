SPECIFICATION Spec
CONSTANTS
  None = none
  Edits = {e1, e2}
  Requests = {r1, r2}
  basic = basic
  standard = standard
  Tiers = {basic, standard}
  Forms <- ThreeForms
  AddonPrice = 5
  PlatformFeeBps = 1000
  MaxForms = 2
  MaxDrafts = 1
  MaxOrders = 3
SYMMETRY Symmetry
CHECK_DEADLOCK FALSE
INVARIANTS
  ActiveGigSells
  OnePackagePerTier
  NeverDearerThanShown
  OrdersPerDraftBounded
