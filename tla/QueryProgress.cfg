SPECIFICATION ProgressSpec
CONSTANTS
  o1 = o1
  o2 = o2
  Ops <- OpIds
  NoOp = NoOp
  Backend = "crd"
  EnginePhases = {"running"}
  ShortTTL = {1}
  NoTTL = {}
  MaxUid = 2
  MaxEdits = 1
  MaxRestarts = 0
  MaxLag = 1
PROPERTIES
  CancelHonoured
  QuerySettles
  ExpiredReclaimed
CHECK_DEADLOCK FALSE
VIEW BareView
