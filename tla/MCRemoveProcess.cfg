SPECIFICATION Spec
VIEW View
CONSTANTS
  ThreadId = {1}
  ProcessId = {1}
  Vcpu = {0}
  Priority = {0}
  MaxCounter = 1000000
  None = None
  DonationKey = {}
  Stop = {"SupervisorCall"}
  Call = {"Sleep"}
  Timeout = {1}
  Parallel = FALSE
  Host = {"HostStop", "RemoveProcess"}
INVARIANTS
  RemovalCancelsWaits
CHECK_DEADLOCK FALSE
