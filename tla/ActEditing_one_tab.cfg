CONSTANTS
  t1 = t1  t2 = t2  u1 = u1  u2 = u2  b1 = b1  b2 = b2
  e1 = e1  e2 = e2  e3 = e3
  NoUser = NoUser  NoDraft = NoDraft
  Tabs <- OneTab
  Users = {u1}
  Browsers = {b1}
  UserOf <- OneTabUser
  BrowserOf <- OneTabBrowser
  Managers = {}
  Edits = {e1, e2}
  Skeleton = Skeleton
  NewAct = FALSE
  UserSaves = {"manual"}
  Exiting = {t1}
  Crashing = {}
  Lossy = TRUE
  MaxVersion = 3
  MaxOpens = 3
SPECIFICATION Spec
INVARIANTS SavedIsStored LocalOnlyHasDraft
PROPERTIES DraftSurvives NothingLostOnLeaving
CHECK_DEADLOCK FALSE
