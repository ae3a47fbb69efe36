SPECIFICATION ProcessSpec
CONSTANTS
  ThreadId = {t1, t2}
  Vcpu = {v1, v2}
  Priority = {1, 2}
  MaxCounter = 3
  None = None
  HeapPages = 2
  StackPages = 2
  MemoryLimit = 2
  MaxThreads = 2
  SharedAt = {4}
  Foreign = {1}
  Masks = {"PermissionLocked"}
  SlotIndices = {0, 1}
  LayerCount = 1
  BufferCount = 2
  CrossedBoundaries = 2
  FencePoints = {1}
  RefreshPeriod = 3
  LatestTime = 30
SYMMETRY ThreadSymmetry
VIEW StateView
CHECK_DEADLOCK FALSE
INVARIANTS
  SchedulerConsistent
  SelectNextAgrees
  MappingsConsistent
  AccountingConsistent
  DisplayConsistent
  ShownIsNotReused
PROPERTIES
  TokensNeverResurrected
  FreeingSignals
