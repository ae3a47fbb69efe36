SPECIFICATION Spec
CONSTANTS
  Thread = {g1, g2, g3}
  Mutex = {mu}
  Key = {cv}
  None = None
INVARIANT MutexOwnedOnce
CHECK_DEADLOCK FALSE
