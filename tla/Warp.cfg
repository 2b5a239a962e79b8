SPECIFICATION LiveSpec
CONSTANTS
  N = 2
  LostAfter = 2
  Interval = 2
  Masque = TRUE
  RotateOnStart = TRUE
  Faults = {"get", "stale", "lost", "bad", "post", "resend", "patch", "save", "load", "publish", "crash", "remove"}
  MaxFaults = 3
INVARIANTS LineOfOneAnswer
PROPERTIES RegisterPaced EmptiedOnlyByLoss DevicesHeal
