CONSTANTS
  Refs = {r1, r2}
  Configs <- TwoModes
  MaxContributions = 1
  IntendedAmount = 20000
  PayoutAmounts <- SmallPayout
  TargetAmount = 20000
  Attempts = 2
  Faults = {"timeout", "overtake", "crash", "db", "reserve", "lookup", "enqueue", "operator"}
  MaxFaults = 1
SPECIFICATION Spec
INVARIANTS BooksBalance PotReconciles
SYMMETRY Symmetry
CHECK_DEADLOCK FALSE
