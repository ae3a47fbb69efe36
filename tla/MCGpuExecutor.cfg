SPECIFICATION FairSpec
CONSTANTS
  Modulus = 16
  SYNCPOINT_COUNT = 2
  EVENT_SLOT_COUNT = 1
  Fd = {}
  Waiter = {}
  None = None
  Frontend = {f1, f2}
  Requester = {r1}
  Plan <- MCPlan
  MaxSubmissions = 2
  MoreSubmissions = 2
  MaxChannels = 2
  Limit = 3
  Environments = {{"many"}, {"crowd"}, {"visibility"}, {"frame"}, {"present", "software", "refuse"}, {"progress", "failure"}, {"close"}}
INVARIANTS
  ExecutorConsistent
  LoweringSeesWrites
PROPERTIES
  BudgetKept
  ExecutorServes
  PolledFenceReached
CHECK_DEADLOCK FALSE
