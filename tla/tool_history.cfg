SPECIFICATION Spec
CONSTANTS
  c1 = c1
  c2 = c2
  p1 = p1
  p2 = p2
  Callers = {c1, c2}
  Processes = {p1, p2}
  Entries = {e1}
  Setups <- MCSetups
  Homes <- MCHomes
  MaxFaults = 1
  MaxAttempts = 2
INVARIANTS
  TypeOK
  SchemaReady
  HistoryTellsTruth
PROPERTIES
  StoresAreAtomic
  EveryCallEnds
CHECK_DEADLOCK FALSE
