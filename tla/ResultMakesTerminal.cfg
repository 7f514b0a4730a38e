SPECIFICATION Spec
CONSTANTS
  o1 = o1
  o2 = o2
  Ops = {o1}
  NoOp = NoOp
  Backend = "crd"
  EnginePhases = {"provisioning", "running"}
  ShortTTL = {}
  NoTTL = {}
  MaxUid = 1
  MaxEdits = 0
  MaxRestarts = 0
  MaxLag = 2
PROPERTIES
  ResultMakesTerminal
CHECK_DEADLOCK FALSE
