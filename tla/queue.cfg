\* Three workers race for two jobs, with crashes and operations that throw, rolled back or stored.
CONSTANTS
  Workers = {w1, w2, w3}
  MaxJobs = 2
  MaxStamp = 2
  MaxStops = 2
SPECIFICATION Spec
INVARIANTS
  ClaimsExclusive
PROPERTIES
  SettledIsFinal
CHECK_DEADLOCK FALSE
