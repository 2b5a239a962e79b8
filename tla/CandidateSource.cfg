SPECIFICATION Spec
CONSTANTS
  N = 3
  Refusable = {"List", "AddOutbound", "RemoveOutbound", "AddInbound", "RemoveInbound", "AddRule", "RemoveRule"}
  Losable = {"AddOutbound", "RemoveOutbound", "AddInbound", "RemoveInbound", "AddRule", "RemoveRule"}
  Restarts = {"xray"}
  MaxFaults = 1
  Prefixed = TRUE
  MaxActive = 2
  MaxParallel = 1
  MaxDowns = 1
  MaxEdits = 1
  ReplaceAfter = 1
  Files <- SharedKey
  Config <- ByScore
INVARIANTS CandidatesMatchXray PortsDistinct WarningsFitSlots KeysApart
PROPERTY QuarantineHolds
