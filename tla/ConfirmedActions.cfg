CONSTANTS
  Requests = {r1, r2}
  Keys = {k1, k2}
  Ops <- MCOps
  MaxCodes = 2
  MaxSent = 3
  maxAttempts = 2
  MaxFaults = 1
  VIRTUAL_ACCOUNT_MAX_ATTEMPTS = 2
SPECIFICATION Spec
INVARIANTS ExecutedAsConfirmed OncePerKey OncePerCode OncePerIntent
SYMMETRY Symmetry
CHECK_DEADLOCK FALSE
