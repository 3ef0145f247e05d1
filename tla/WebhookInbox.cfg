CONSTANTS
  Events = {e1, e2}
  Deliveries = {d1, d2, d3}
  MaxFailures = 3
SPECIFICATION FairSpec
INVARIANTS AnsweredIsHandled
PROPERTIES EventuallyHandled ImplementsInbox
CHECK_DEADLOCK FALSE
