\* Three calls on one run that overlap at will, and a failing statement.
CONSTANTS
  Commits = {c1, c2, c3}
  Asking = {c1}
  Deciding = {c2}
  Created = c0
  MaxFailures = 1
SPECIFICATION FairSpec
INVARIANTS
  RunIsWhole
  KeptUnlessOverlapped
PROPERTIES
  CommitsEnd
CHECK_DEADLOCK FALSE
