SPECIFICATION Spec
VIEW View
CONSTANTS
  ThreadId = {1, 2, 3}
  ProcessId = {1}
  Vcpu = {0}
  Priority = {0, 1}
  MaxCounter = 1000000
  None = None
  DonationKey = {1}
  Stop = {"Budget", "Yield", "SupervisorCall"}
  Call = {"CreateThread", "Resume", "StartThread", "SetPriority", "Lock", "Unlock", "ExitThread"}
  Timeout = {None}
  Parallel = FALSE
  Host = {}
INVARIANTS
  DonationsConsistent
CHECK_DEADLOCK FALSE
