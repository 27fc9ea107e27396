SPECIFICATION FairSpec
CONSTANTS
  ARMED_TIMEOUT_SEC = 2
  COUNTER_RANGE = 2
  FIRE_RANGE = 2
  FAULT_NONE = 0
  FaultWords = {0, 1}
INVARIANTS
  TypeOK
  AdmittedStateHolds
PROPERTIES
  NoAutomaticRecovery
  OwnArmingIsTimed
  RefinesInterlock
  ArmedWindowCloses
