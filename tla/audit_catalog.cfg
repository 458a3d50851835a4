\* A desk is the set of layers a behaviour works on: the layers that decide who
\* sees an entry (0 to 3), the steps of the work on one (1, 4 to 7), two
\* neighbouring item layers at the end (12, 13), and each item layer in between
\* alone, over layers below it that no request changes.
CONSTANTS
  Operators = {ann, bob, eve}
  Team = {ann, bob}
  Owner = ann
  Assignee = bob
  Items = {i1, i2}
  None = None
  Entries = {e1, e2}
  Desks = {{0,1,2},{2,3},{3,4},{4,5},{1,5},{5,6},{6,7},{8},{9},{10},{11},{12,13}}
  MaxRequests = 2
  MaxThrows = 1
SPECIFICATION Spec
SYMMETRY Symmetry
INVARIANTS
  TypeOK
  ItemsTraced
  OrphanOnlyWhenCutOff
PROPERTIES
  OnlyOwnerDecides
  OnlyEntitled
  ArchivedForGood
  CrashOnlyAfterLoss
CHECK_DEADLOCK FALSE
