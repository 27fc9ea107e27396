SPECIFICATION SystemSpec
CONSTANTS
  ARMED_TIMEOUT_SEC = 1
  COUNTER_RANGE = 1
  FIRE_RANGE = 1
  FAULT_NONE = 0
  FaultWords = {0}
  PIPE_DEPTH = 2
  Traffic = {"ARM", "MAIN_FIRE"}
INVARIANT
  StandbyDoesNotFire
