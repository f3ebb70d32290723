CONSTANTS
  p1 = p1  p2 = p2
  NoRow = NoRow  NoEntry = NoEntry  NoVisit = NoVisit
  Procs <- TwoProcs
  Questions = {1}
  Faulty = {"bus"}
  Refused = {"failed"}
  MaxReversions = 0
  MaxErrors = 2
  ClaimLimit = 1
  AnswerLimit = 1
  MaxRows = 1
  MaxLen = 0
  MaxStops = 1
  MaxOthers = 0
  Endless = FALSE
SPECIFICATION Spec
SYMMETRY Twins
INVARIANTS TypeOK NotifiedTruthfully StreamingIsWatched
