CONSTANTS
  t1 = t1  t2 = t2  u1 = u1  u2 = u2  b1 = b1  b2 = b2
  e1 = e1  e2 = e2  e3 = e3
  NoUser = NoUser  NoDraft = NoDraft
  Tabs <- TwoTabs
  Users = {u1, u2}
  Browsers = {b1, b2}
  UserOf <- TwoUsers
  BrowserOf <- TwoBrowsers
  Managers = {}
  Edits = {e1, e2}
  Skeleton = Skeleton
  NewAct = FALSE
  UserSaves = {"manual"}
  Exiting = {}
  Crashing = {t1, t2}
  Lossy = FALSE
  MaxVersion = 3
  MaxOpens = 2
SPECIFICATION Spec
INVARIANTS VersionsAgree
PROPERTIES NoLostUpdate
SYMMETRY Twins
CHECK_DEADLOCK FALSE
