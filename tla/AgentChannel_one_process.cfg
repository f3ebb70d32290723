CONSTANTS
  p1 = p1  p2 = p2
  NoRow = NoRow  NoEntry = NoEntry  NoVisit = NoVisit
  Procs = {p1}
  Questions = {1}
  Faulty = {"bus"}
  Refused = {}
  MaxReversions = 1
  MaxErrors = 2
  ClaimLimit = 1
  AnswerLimit = 2
  MaxRows = 2
  MaxLen = 1
  MaxStops = 1
  MaxOthers = 1
  Endless = FALSE
SPECIFICATION FairSpec
INVARIANT PatientTimeout
PROPERTIES AnswerNotThrownAway EveryQuestionEnds
