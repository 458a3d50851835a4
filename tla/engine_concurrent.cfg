CONSTANTS
  NumSteps = 2
  MaxAttempts = 1
  Drivers = {d1, d2}
  Gates = {1}
  Ops = {"execute", "queue", "resume", "queueResume", "pause", "decide"}
  MaxCalls = 3
  MaxCrashes = 1
  MaxFailures = 1
SYMMETRY DriverSymmetry
SPECIFICATION Spec
INVARIANTS
  RunWellFormed
  TransitionsAllowed
  DecidedOnce
CHECK_DEADLOCK FALSE
