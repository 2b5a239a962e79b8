SPECIFICATION SessionSpec
CONSTANTS
  Callers = {c1, c2, c3, c4}
  MaxExpiries = 2
  Mishaps = {"lost", "busy", "save", "crash"}
  MaxMishaps = 2
INVARIANTS OneRefreshPerExpiry SavedBeforeUsed
