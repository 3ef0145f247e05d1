CONSTANTS
  Accounts = {"a1", "a2"}
  Typed <- MCTyped
  Dates = {"may"}
  Stored <- MCStored
  OUTBOUND_FEE = 5
  MaxLegs = 2
  MaxEdits <- MCMaxEdits
  MaxSubmits = 1
SPECIFICATION WizardSpec
INVARIANTS SubmittedWasConfirmed PageAgreesWithServer
CHECK_DEADLOCK FALSE
