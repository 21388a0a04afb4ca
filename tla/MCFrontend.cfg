\* Two tabs sign in; one of them files claims, looks them up or pays premiums.
SPECIFICATION Spec
CONSTANTS
  tab1 = tab1
  tab2 = tab2
  Tabs = {tab1, tab2}
  PageTab = tab1
  Accounts = {acc1, acc2}
  None = None
  MaxNonces = 3
  Texts = {"text"}
  Attempts = {j1, j2}
  Claims = {c1, c2}
  Payments = {p1, p2}
  Prices = {1, 2}
  MaxKeys = 3
  MaxEffects = 3
SYMMETRY Alike
CONSTRAINT OnePart
CHECK_DEADLOCK FALSE
INVARIANTS
  TypeOK
  SessionIsProved
  JudgedNonceIsSpent
  LoneLoginSucceeds
  RootsCorrelate
  OwnKeyFirst
  SpendIsShown
PROPERTIES
  BadgeNeverGoesBack
