SPECIFICATION Spec
CONSTANTS
  LOG_MAX = 2
  LOG_FIT = 1
  LogCounts = {3}
  Marks = {1}
  UNREAD_LIMIT = 2
  Calls = {"ARM", "PING"}
INVARIANT
  ArmIsGranted
