SPECIFICATION AsyncSpec
CONSTANTS
  N = 2
  Wrap = 8
  MaxCommands = 3
  InOrder = FALSE
  KernelMayStop = FALSE
  WinEntries = 1
  WinCommands = 0
  StartMayFail = FALSE
  OperationMayFail = FALSE
INVARIANTS RunningIsWithKernel
CHECK_DEADLOCK FALSE
