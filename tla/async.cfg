SPECIFICATION AsyncFairSpec
CONSTANTS
  N = 4
  Wrap = 8
  MaxCommands = 7
  InOrder = TRUE
  KernelMayStop = TRUE
  WinEntries = 3
  WinCommands = 5
  StartMayFail = TRUE
  OperationMayFail = TRUE
INVARIANTS ContextsTypeOK ResultsFindTheirCommands
PROPERTIES CommandsOnce AwaitsReturn
CHECK_DEADLOCK FALSE
