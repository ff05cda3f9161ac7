SPECIFICATION FairSpec
CONSTANTS
  s1 = s1
  Methods <- CardOrBitcoin
  Configurations <- AllOrStripe
  Sweepers = {s1}
  ListLimit = 2
  MaxIntents = 3
  MaxFaults = 1
CHECK_DEADLOCK FALSE
INVARIANTS
  SucceededRefundable
PROPERTIES
  DecisionsReached
