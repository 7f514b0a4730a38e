SPECIFICATION Spec
CONSTANTS
  None = None
  s1 = s1
  s2 = s2
  q1 = q1
  q2 = q2
  c1 = c1
  w1 = w1
  Sessions <- Names
  Queries <- Asked
  Conversations <- Talks
  Watchers <- Pages
  MaxRequests = 3
  MaxFaults = 2
INVARIANTS
  TypeOK
  PhaseIsStrongest
  IndexFindsQuery
  UnsavedIsScheduled
  WatcherSeesPhases
SYMMETRY Alike
CHECK_DEADLOCK FALSE
