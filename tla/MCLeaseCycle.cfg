SPECIFICATION Spec
CONSTANTS
  Vcpu = {v1}
  Host = host
  Owner = owner
  Page = {pageA}
  Code = {}
  Resource <- OneResource
  HostOps = {}
  OwnerOps = {"prepare"}
  DirtyStreak = 2
  MaxWrites = 3
  MaxOps <- OneOperationEach
  None = None
INVARIANT NoCircularWait
CHECK_DEADLOCK FALSE
