SPECIFICATION SfcSpec
CONSTANTS
  Subs = 2
  OutsEach = 2
  MaxEdits = 2
  Faults = {"load", "write", "read", "crash"}
  MaxFaults = 3
INVARIANT CacheIsServed
PROPERTIES KeepsServing CatchesUp
