CONSTANTS
  References <- MCReferences
  AccountIds <- MCAccountIds
  Delta <- MCDelta
  ReversalOf <- MCReversalOf
  Callers <- Racing
  Reference <- MCReference
  InitialRows <- SecondRow
  InitialBalance <- LittleFund
  MayCrash = TRUE
SPECIFICATION FairSpec
INVARIANTS ReversedIffPosted
PROPERTIES ImplementsLedger EveryCallReturns
CHECK_DEADLOCK FALSE
