CONSTANTS
  Payments = {p1, p2}
  Amounts = {12000, 40000}
  Payloads = {"complete", "no sender", "bad amount"}
  IntendedAmount = 18000
  OtherFunds = 15000
  Attempts = 2
  Faults = {"db", "die", "enqueue", "lookup", "rejected", "timeout", "busy"}
  MaxFaults = 1
SPECIFICATION Spec
INVARIANTS BooksReconcile CreditedOrRefundedOutsideWindows ExcessRefundedOnce FullyPaidIsCredited
SYMMETRY Symmetry
CHECK_DEADLOCK FALSE
