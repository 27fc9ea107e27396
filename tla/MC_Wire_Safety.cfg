SPECIFICATION Spec
CONSTANTS
  LOG_MAX = 1
  LOG_FIT = 1
  LogCounts = {2}
  Marks = {1}
  UNREAD_LIMIT = 3
  Calls = {"MAIN_FIRE", "MAIN_ABORT", "CG_PULSE", "REQUEST_FAULT_LOG"}
INVARIANTS
  TypeOK
  RefusalIsNotData
PROPERTY
  ImplementsExchange
