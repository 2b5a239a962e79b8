SPECIFICATION Spec
CONSTANTS
  N = 2
  Refusable = {"List", "AddOutbound", "RemoveOutbound", "AddInbound", "RemoveInbound", "AddRule", "RemoveRule"}
  Losable = {"AddOutbound", "RemoveOutbound", "AddInbound", "RemoveInbound", "AddRule", "RemoveRule"}
  Restarts = {"xray", "scd"}
  MaxFaults = 1
  Prefixed = TRUE
  MaxActive = 0
  MaxParallel = 2
  MaxDowns = 1
  MaxEdits = 1
INVARIANTS MemoryMatchesXray NoFalseDrift RepairingIsOwned
PROPERTIES OnlyRollbackDoubles CommitIsExact
