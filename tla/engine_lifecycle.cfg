\* One call at a time, with pauses and crashes: the lifecycle, and its end.
CONSTANTS
  NumSteps = 2
  MaxAttempts = 2
  Drivers = {d1}
  Gates = {1}
  Ops = {"execute", "queue", "resume", "queueResume", "pause", "decide"}
  MaxCalls = 5
  MaxCrashes = 2
  MaxFailures = 0
SPECIFICATION FairSpec
PROPERTIES
  ImplementsLifecycle
  LoopSettlesRun
CHECK_DEADLOCK FALSE
