CONSTANTS
  Refs = {r1, r2}
  Configs <- ManualAdmin
  MaxContributions = 2
  IntendedAmount = 20000
  PayoutAmounts <- SmallPayout
  TargetAmount = 20000
  Attempts = 2
  Faults = {"timeout"}
  MaxFaults = 1
SPECIFICATION Spec
INVARIANT ProcessingHoldsLock
CHECK_DEADLOCK FALSE
