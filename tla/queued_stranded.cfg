\* One operator and one worker, no faults at all.
CONSTANTS
  Operators = {o1}
  Workers = {w1}
  MaxRequests = 1
  NumSteps = 1
  MaxAttempts = 1
  Gates = {}
  MaxCalls = 4
  MaxCrashes = 0
  MaxFailures = 0
  MaxJobs = 1
  MaxStamp = 1
  MaxStops = 0
  MaxFaults = 0
SPECIFICATION Spec
INVARIANTS
  QueuedRunHasJob
CHECK_DEADLOCK FALSE
