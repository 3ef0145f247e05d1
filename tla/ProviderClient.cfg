CONSTANTS
  contribution = contribution
  Jobs = {j1, j2}
  limit = 1
  Refs = {contribution}
  Due <- MCDue
  Paid <- MCPaid
  MaxListed = 2
  MAX_RECONCILE_PAGES = 2
  MaxFaults = 1
SPECIFICATION FairClientSpec
 
PROPERTIES WorkEnds
CHECK_DEADLOCK FALSE
