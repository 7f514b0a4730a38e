SPECIFICATION FairSpec
CONSTANTS
  o1 = o1
  o2 = o2
  Ops = {o1}
  NoOp = NoOp
  Backend = "postgres"
  EnginePhases = {"provisioning"}
  ShortTTL = {1, 2}
  NoTTL = {2}
  MaxUid = 2
  MaxEdits = 0
  MaxRestarts = 0
  MaxLag = 1
VIEW BareView
PROPERTIES
  CancelHonoured
  ExpiredReclaimed
CHECK_DEADLOCK FALSE
