\* One core, two processes.
CONSTANTS
  Cores = {bsp}
  Bsp = bsp
  StackPages = 2
  PageUnits = 2
  MaxDepth = 3
  DevicesMayFail = FALSE
SPECIFICATION Spec
INVARIANT NoFaultOnStack
CHECK_DEADLOCK FALSE
