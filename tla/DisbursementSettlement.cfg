CONSTANTS
  Refs = {r1, r2}
  Configs <- EveryMode
  MaxContributions = 2
  IntendedAmount = 20000
  PayoutAmounts <- SmallPayout
  TargetAmount = 20000
  Attempts = 2
  Faults = {}
  MaxFaults = 0
SPECIFICATION FairSpec
INVARIANTS TypeOK LockCountsUnresolvedLegs OneOperationInFlight AppliedOncePerTransfer ReversedNeverExecuted
PROPERTIES ImplementsWithdrawals ClosesOnlyWhenSettled LockReleased ProcessingResolved
CHECK_DEADLOCK FALSE
