SPECIFICATION Spec
CONSTANTS
  None = None
  a1 = a1
  a2 = a2
  b1 = b1
  a = a
  b = b
  Uids <- Objects
  Names <- Called
  NameOf <- Naming
  Lookback = 2
  PruneDepth = 1
  Capacity = 2
  MaxVersion = 3
  MaxFaults = 1
INVARIANTS
  TypeOK
  NoOldNews
  NudgeOnItsWay
  EndMeansListed
  PurgedWasTold
  QuietMeansCurrent
SYMMETRY Alike
CHECK_DEADLOCK FALSE
