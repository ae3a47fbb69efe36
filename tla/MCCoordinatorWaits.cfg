SPECIFICATION Spec
VIEW View
CONSTANTS
  ThreadId = {1, 2, 3}
  ProcessId = {1}
  Vcpu = {0}
  Priority = {0}
  MaxCounter = 1000000
  None = None
  DonationKey = {}
  Stop = {"SupervisorCall", "LoaderReturn", "Unrunnable", "Trap"}
  Call = {"Wait", "Sleep", "CreateThread", "StartThread", "Reap", "ExitThread", "ExitProcess"}
  Timeout = {None, 1, 2}
  Parallel = FALSE
  Host = {"HostStop", "RemoveProcess", "Shutdown"}
INVARIANTS
  WaitsConsistent
PROPERTIES
  DeadlinesFireInOrder
  ExitEndsThreads
