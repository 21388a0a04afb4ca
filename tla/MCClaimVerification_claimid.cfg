\* Row ids and on-chain ids drift apart.
SPECIFICATION Spec
CONSTANTS
  Requests = {q1, q2}
  Keys = {k1}
  Null = Null
  Roots = {root1, root2}
  DeclaredAmounts = {1}
  Threshold = 1
  Payloads <- BothPayloads
  ManualStatuses = {"paid"}
  MaxRows = 2
  MaxChainClaims = 2
  MaxEvents = 3
CHECK_DEADLOCK FALSE
INVARIANTS
  VerdictDecidesThisClaim
