\* One core, as in qemu.sh, until a process leaves the mapped part of its stack.
CONSTANTS
  Cores = {bsp}
  Bsp = bsp
  StackPages = 2
  PageUnits = 4
  MaxDepth = 7
  DevicesMayFail = FALSE
SPECIFICATION Spec
INVARIANT FramesOnOwnStack
PROPERTY BothRun
CHECK_DEADLOCK FALSE
