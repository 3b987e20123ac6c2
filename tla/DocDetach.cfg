SPECIFICATION PSpec
CONSTANTS
  Servers <- DedicatedLacking
  MaxLoads = 2
INVARIANT UnloadableAnytime
CHECK_DEADLOCK FALSE
