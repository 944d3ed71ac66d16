SPECIFICATION Spec
CONSTANTS
  k1 = k1  k2 = k2  k3 = k3  v1 = v1  v2 = v2
  Keys = {k1, k2, k3}
  TableValues = {v1, v2}
  Hash <- MCHash
  MinTableSize = 4
  Factor = 75
  InitialSizes = {0}
  MaxEntries = 3
  ArrayMax = 4
  ArrayValues = {v1}
  ArrayUnset = Unset
  ArrayRanges <- MCListRanges
  AllocMayFail = TRUE
  ChunkSize = 2
  MaxChunks = 3
  Values = {v1, v2}
  Unset = Unset
  ListNodes = 4
  ListValues = {v1}
  ListUnset = Unset
  ListRanges <- MCListRanges
SYMMETRY ValueSymmetry
INVARIANT EveryCallReturns
CHECK_DEADLOCK FALSE
