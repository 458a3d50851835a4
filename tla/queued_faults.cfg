\* Any one fault: a worker or request dies, a commit or a queue operation throws, stored or not.
CONSTANTS
  Operators = {o1}
  Workers = {w1, w2}
  MaxRequests = 3
  NumSteps = 1
  MaxAttempts = 1
  Gates = {1}
  MaxCalls = 9
  MaxCrashes = 1
  MaxFailures = 1
  MaxJobs = 2
  MaxStamp = 1
  MaxStops = 1
  MaxFaults = 1
SPECIFICATION FairSpec
INVARIANTS
  StalledRunHasJob
PROPERTIES
  JobsSettle
CHECK_DEADLOCK FALSE
