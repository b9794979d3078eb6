SPECIFICATION Spec
CONSTANTS
  Requests = {r1, r2, r3}
  Threads = {t1, t2}
  QueueSize = 1
  Modes = {"loop", "wait", "nowait"}
INVARIANTS UsedWhileAlive GenerateComplete
PROPERTIES FutureReady ResetReturns
CHECK_DEADLOCK FALSE
