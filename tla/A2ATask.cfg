SPECIFICATION FairSpec
CONSTANTS
  MaxLag = 2
  MaxFaults = 2
INVARIANTS
  TypeOK
  ConditionAgrees
  CompletedIsReset
PROPERTIES
  TerminalStays
  Settles
  ExpiredRemoved
CHECK_DEADLOCK FALSE
