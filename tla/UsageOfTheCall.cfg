SPECIFICATION Spec
CONSTANTS
  o1 = o1
  o2 = o2
  Ops <- OpIds
  NoOp = NoOp
  Backend = "postgres"
  EnginePhases = {"running"}
  ShortTTL = {}
  NoTTL = {}
  MaxUid = 1
  MaxEdits = 0
  MaxRestarts = 0
  MaxLag = 2
SYMMETRY OpSymmetry
VIEW View
INVARIANTS
  UsageOfTheCall
CHECK_DEADLOCK FALSE
