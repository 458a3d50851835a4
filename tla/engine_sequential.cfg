\* One call at a time, a crash and two commits that raise, no pauses.
CONSTANTS
  NumSteps = 2
  MaxAttempts = 2
  Drivers = {d1}
  Gates = {1}
  Ops = {"execute", "queue", "resume", "queueResume", "decide"}
  MaxCalls = 6
  MaxCrashes = 1
  MaxFailures = 2
SPECIFICATION Spec
INVARIANTS
  LogTellsSnapshot
  AttemptsAccounted
  CheckpointAtCursor
  PendingBlocksRun
  AskedAgainOnlyAfterFailure
PROPERTIES
  CompletedStaysCompleted
CHECK_DEADLOCK FALSE
