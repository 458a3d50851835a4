\* Three processes, a crash and a failing operation.
CONSTANTS
  Clients = {p1, p2, p3}
  Commits = {c1, c2, c3}
  MaxCrashes = 1
  MaxFailures = 1
SPECIFICATION FairSpec
INVARIANTS
  TypeOK
  ReadersSeeStored
PROPERTIES
  ImplementsAtomicStore
  LockIsReleased
CHECK_DEADLOCK FALSE
