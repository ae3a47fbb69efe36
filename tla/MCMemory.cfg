SPECIFICATION MemorySpec
CONSTANTS
  None = None
  Vcpu = {v1, v2}
  Host = host
  Owner = owner
  Page = {pageA}
  Code = {pageA}
  Resource <- OneResource
  HostOps = {"read", "stage", "word"}
  OwnerOps = {"stage", "prepare", "sample", "capture", "follow"}
  MaxOps <- OperationBounds
  MaxWrites = 4
  Other = pageB
  DirtyStreak = 2
  Key = {k1}
  CodePage <- CodePages
  Near = near
  Far = far
  Span = {span}
  LcqDeps <- LowDeps
  HcqDeps <- HighDeps
  Worker = {w1}
  StackCapacity = 1
  CodeLimit = 3
  Capacity = 1
  MaxChanges = 2
  MaxStarts = 2
VIEW StateView
CHECK_DEADLOCK FALSE
INVARIANTS
  
  AuthorityConsistent
  SpannedPages
  RunsCurrentCode
  
