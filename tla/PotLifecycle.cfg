CONSTANTS
  Users = {ann, bob}
  Creator = ann
  Requests = {r1, r2}
  Modes = {"manual", "recurring"}
  Configs <- MCConfigs
  Terms <- MCTerms
  Amounts = {1, 3}
  MaxContributions = 1
  MaxWindows = 1
  Types = {"public", "private"}
SPECIFICATION Spec
INVARIANTS KeepsAnAdmin PaysByItsMode InvitationsResolve
PROPERTIES TermsFrozen
SYMMETRY Symmetry
CHECK_DEADLOCK FALSE
