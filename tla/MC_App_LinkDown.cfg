SPECIFICATION FairSpec
CONSTANTS
  ARMED_TIMEOUT_SEC = 2
  COUNTER_RANGE = 1
  FIRE_RANGE = 1
  FAULT_NONE = 0
  FaultWords = {0}
PROPERTY
  ArmedAlwaysCloses
