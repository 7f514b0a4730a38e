SPECIFICATION SafetySpec
CONSTANTS
  o1 = o1
  o2 = o2
  Ops <- OpIds
  NoOp = NoOp
  Backend = "crd"
  EnginePhases = {"running"}
  ShortTTL = {1}
  NoTTL = {}
  MaxUid = 3
  MaxEdits = 1
  MaxRestarts = 1
  MaxLag = 2
SYMMETRY OpSymmetry
VIEW View
INVARIANTS
  TypeOK
  FinalizerProtocol
  RegisteredOperation
  LiveOperationRegistered
  ResponseOfSameQuery
  DoneIsCoherent
PROPERTIES
  PhaseNeverRegresses
CHECK_DEADLOCK FALSE
