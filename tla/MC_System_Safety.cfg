SPECIFICATION SystemFairSpec
CONSTANTS
  ARMED_TIMEOUT_SEC = 1
  COUNTER_RANGE = 1
  FIRE_RANGE = 1
  FAULT_NONE = 0
  FaultWords = {0}
  PIPE_DEPTH = 2
  Traffic = {"WAKEUP", "ARM", "MAIN_FIRE", "CG_PULSE", "MAIN_ABORT", "REQUEST_STATUS", "PING"}
INVARIANTS
  SystemTypeOK
  UnreportedBurnStaysSafe
PROPERTIES
  BurnsAreLicensed
  AbortIsServed
  ArmedWindowCloses
