\* Two calls on one run, no failing statement.
CONSTANTS
  Commits = {c1, c2}
  Asking = {c1}
  Deciding = {}
  Created = c0
  MaxFailures = 0
SPECIFICATION Spec
INVARIANTS
  AcknowledgedIsKept
CHECK_DEADLOCK FALSE
