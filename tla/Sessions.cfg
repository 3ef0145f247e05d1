CONSTANTS
  a = a
  b = b
  laptop = laptop
  phone = phone
  Devices = {laptop, phone}
  Tabs = {a, b}
  Openings <- MCOpenings
  OTP_MAX_PER_HOUR = 1
  maxAttempts = 1
  MaxMishaps = 1
SPECIFICATION FairSessionSpec
INVARIANTS OnePairPerRotation ForcedToLogInAgain
PROPERTIES DeadSessionReachesLogin
CHECK_DEADLOCK FALSE
