SPECIFICATION PSpec
CONSTANTS
  Servers <- OneLacking
  MaxLoads = 2
INVARIANT NoDanglingHooks
INVARIANT CrashNeedsMissingApi
INVARIANT RulesNotFreed
PROPERTY LateLoadRecords
CHECK_DEADLOCK FALSE
