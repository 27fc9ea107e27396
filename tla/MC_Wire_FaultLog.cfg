SPECIFICATION Spec
CONSTANTS
  LOG_MAX = 2
  LOG_FIT = 1
  LogCounts = {1, 2}
  Marks = {1, 2}
  UNREAD_LIMIT = 2
  Calls = {"REQUEST_FAULT_LOG"}
INVARIANT
  CountedEntriesAreValid
