\* One operator whose requests run to their end, two workers, and a view of
\* the run that reads its sources at different times.
CONSTANTS
  Operators = {o1}
  Workers = {w1, w2}
  MaxRequests = 3
  NumSteps = 1
  MaxAttempts = 1
  Gates = {1}
  MaxCalls = 9
  MaxCrashes = 0
  MaxFailures = 0
  MaxJobs = 2
  MaxStamp = 1
  MaxStops = 0
  MaxFaults = 0
  Tools = {t1}
  MaxSkew = 4
  MaxDelay = 6
SYMMETRY MCWorkers
SPECIFICATION ViewSpec
INVARIANTS
  ViewTypeOK
  OneWorkerPerRun
  RejectionCancelsRun
  ViewAgrees
  ApprovalsShownInOrder
PROPERTIES
  LinksStayAlive
CHECK_DEADLOCK FALSE
