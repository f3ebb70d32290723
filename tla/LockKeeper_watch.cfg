SPECIFICATION FairSpec
CONSTANTS
  Acts = {a}
  NoAct = none
  Me = me
  Rivals = {}
  NoUser = nobody
  Pages = {"constructor"}
  IdleLimit = 2
  DialogTime = 1
  MinExtension = 1
  LockDuration = 3
  MaxFailures = 2
  MaxSessions = 1
  MaxExtends = 1
  Lossy = TRUE
  Late = TRUE
INVARIANTS TypeOK LeaseCovers
PROPERTY AwayEnds
