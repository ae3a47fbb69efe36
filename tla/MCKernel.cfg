SPECIFICATION KernelSpec
CONSTANTS
  Event = {e1, e2}
  Token = {w1, w2}
  Signaller = {s1, s2}
  Capacity = 1
  None = None
  ThreadId = {1, 2, 3, 4}
  Priority = {0, 1}
  DonationKey = {1}
  MaxDonations = 5
  GuestThread = {g1, g2, g3}
  Mutex = {mu}
  Key = {cv}
  Modulus = 6
  SYNCPOINT_COUNT = 2
  EVENT_SLOT_COUNT = 1
  Fd = {fd}
  Waiter = {g1}
  Threshold = {1}
  MaxInFlight = 2
  Cpus = 2
  Process = {pr1, pr2}
VIEW StateView
SYMMETRY Symmetry
CHECK_DEADLOCK FALSE
INVARIANTS
  EventsConsistent
  InheritanceIsTransitive
  ArbiterConsistent
  ControlConsistent
  PoolConsistent
PROPERTIES
  SignalBeatsTimeout
