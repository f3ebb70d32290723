SPECIFICATION Spec
CONSTANTS
  Acts = {a, b}
  NoAct = none
  Me = me
  Rivals = {other}
  NoUser = nobody
  Pages = {"constructor", "list"}
  IdleLimit = 1
  DialogTime = 1
  MinExtension = 1
  LockDuration = 2
  MaxFailures = 1
  MaxSessions = 2
  MaxExtends = 1
  Lossy = FALSE
  Late = FALSE
INVARIANTS SomeoneWatches NothingLeft
SYMMETRY AnyAct
CHECK_DEADLOCK FALSE
