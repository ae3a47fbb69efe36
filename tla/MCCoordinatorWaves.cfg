SPECIFICATION Spec
VIEW View
CONSTANTS
  ThreadId = {1, 2}
  ProcessId = {1, 2}
  Vcpu = {0, 1}
  Priority = {0}
  MaxCounter = 1000000
  None = None
  DonationKey = {}
  Stop = {"Interrupted", "WaitForEvent", "WaitForInterrupt", "SendEvent", "SupervisorCall", "LoaderReturn", "Error"}
  Call = {"Wait", "CreateThread", "StartThread", "SetAffinity", "SetActivity", "Reap", "ExitThread", "ExitProcess", "Fault"}
  Timeout = {None}
  Parallel = TRUE
  Host = {"PostInterrupt", "RegistrationFailure", "RemoveProcess"}
INVARIANTS
  CoordinatorConsistent
  CpuWaitsConsistent
CHECK_DEADLOCK FALSE
