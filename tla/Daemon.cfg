SPECIFICATION Spec
CONSTANTS
  Works = {"sync"}
  Sync = "sync"
  Balancers = {"balancer"}
  Remotes = {"remote"}
  Once = {"sync"}
  Server = TRUE
  MaxFailures = 1
INVARIANTS OneTickPerSlot PingOfOnePush ShutdownIsNoFailure
PROPERTIES Stops
CHECK_DEADLOCK FALSE
