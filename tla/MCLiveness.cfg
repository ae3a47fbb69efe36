SPECIFICATION LiveSpec
CONSTANTS
  Thread = {t1, t2, t3}
  MaxEpoch = 3
  None = None
  Event = {e1}
  Token = {w1, w2}
  Signaller = {s1}
  InboxCapacity = 1
  Change = {c1, c2}
  Lost = Lost
  Mutator = {u1, u2}
  Capacity = 3
  Batch <- Batches
  MaxCursor = 7
  Cpus = 2
  Process = {pr}
  GuestThread = {g1, g2}
CHECK_DEADLOCK FALSE
INVARIANTS
  GateInvariant
  LogConsistent
PROPERTIES
  NoOvertaking
  GateProgress
  WonWaitEnds
  PoolEnds
  StreamSpec
