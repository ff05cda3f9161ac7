SPECIFICATION Spec
CONSTANTS
  r1 = r1
  r2 = r2
  a1 = a1
  a2 = a2
  Refunds = {r1, r2}
  Acceptances = {a1, a2}
  Gross = 10
  Fee = 1
  Keyed = TRUE
  MaxAmount = 1
  MaxAdjustments = 1
SYMMETRY Symmetry
CHECK_DEADLOCK FALSE
INVARIANTS
  LedgerBalances
  AccountsExplained
  RefundPostedOnce
  RefundWasPaid
  BuyerRefundedOnce
