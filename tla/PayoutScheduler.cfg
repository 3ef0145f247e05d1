CONSTANTS
  Modes = {"ordered", "unordered", "recurring"}
  Legs = {1, 2, 3}
  Amount <- MCAmount
  Date <- MCDate
  OUTBOUND_FEE = 5
  Funds = {40, 45, 110}
  MaxJobs = 4
  MaxRivals = 1
  MaxFaults = 1
SPECIFICATION FairSpec
INVARIANTS LegPaidOnce  
 
CHECK_DEADLOCK FALSE
