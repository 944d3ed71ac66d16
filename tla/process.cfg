SPECIFICATION Spec
CONSTANTS
  b1 = b1  b2 = b2
  Bytes = {b1, b2}
  StreamMax = 3
  FileBytes = {b1, b2}
  Zero = Zero
  FileMax = 3
  IoMayFail = TRUE
  AllocMayFail = TRUE
  Unread = Unread
  Ending = Ending
  Addresses = 9
  RingMax = 2
  TimesMax = 2
  RingValues = {1}
  Empty = 0
  RetryCount = 3
  MapFailures = 1
  ExitNames = {1, 2, 3}
  MayUnregister = TRUE
  MostChanges = 2
  ArenaSize = 12
  Alignment = 4
  BlockSizes = {0, 1, 3, 4, 6}
  Descriptors = {0, 1, 2, 3, 4, 5}
  IoChoices <- MCIo
  Space = 32
  Quote = 34
  Escape = 92
  Slash = 47
SYMMETRY ByteSymmetry
INVARIANT StartsWithItsHandles
CHECK_DEADLOCK FALSE
