SPECIFICATION LiveSpec
CONSTANTS
  N = 2
  RevokeAfter = 2
  RotateOnStart = TRUE
  MaxAges = 1
  Faults = {"account", "login", "issue", "list", "revoke", "server", "save", "load", "publish", "crash", "logout", "close"}
  MaxFaults = 3
INVARIANTS OKIsCurrent
PROPERTIES RevokeWaits OldRevoked CandidatesHeal
