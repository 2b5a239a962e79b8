SPECIFICATION LiveSpec
CONSTANTS
  N = 2
  Refusable = {"Dial", "List", "AddOutbound", "RemoveOutbound", "AddInbound", "RemoveInbound", "AddRule"}
  Losable = {"AddOutbound", "RemoveOutbound", "AddInbound", "RemoveInbound", "RemoveRule"}
  Restarts = {"xray", "scd"}
  MaxFaults = 1
  Prefixed = TRUE
  MaxActive = 1
  MaxParallel = 1
  MaxDowns = 1
  MaxEdits = 1
  ReplaceAfter = 1
  Files <- Two
  Config <- ByScore
PROPERTY SlotsHeal
