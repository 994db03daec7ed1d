\* Two cores, as many as processes.
CONSTANTS
  Cores = {bsp, ap}
  Bsp = bsp
  StackPages = 2
  PageUnits = 2
  MaxDepth = 3
  DevicesMayFail = TRUE
SPECIFICATION Spec
INVARIANTS UniqueIds CallsCreated NoFaultOnStack
CHECK_DEADLOCK FALSE
