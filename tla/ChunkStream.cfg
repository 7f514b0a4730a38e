SPECIFICATION MCSpec
CONSTANTS
  Done = Done
  q1 = q1
  q2 = q2
  first = first
  second = second
  c1 = c1
  h1 = h1
  None = None
  Engine = Engine
  Queries <- Names
  Runs <- Executions
  Adapters <- Executors
  RunLength = 2
  Readers <- Connections
  MaxItems = 4
  MaxFaults = 1
INVARIANTS
  TypeOK
  SequencesRise
  OpenIsTail
  OnlyOwnChunks
  CompleteAnswer
PROPERTIES
  FollowerEnds
CHECK_DEADLOCK FALSE
