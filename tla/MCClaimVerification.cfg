\* Retries, time-outs and webhooks around the verdict.
SPECIFICATION Spec
CONSTANTS
  Requests = {q1, q2}
  Keys = {k1}
  Null = Null
  Roots = {root1, root2}
  DeclaredAmounts = {1, 2}
  Threshold = 1
  Payloads <- BothPayloads
  ManualStatuses = {"paid"}
  MaxRows = 2
  MaxChainClaims = 2
  MaxEvents = 3
SYMMETRY Alike
CHECK_DEADLOCK FALSE
INVARIANTS
  TypeOK
  RetryAfterAnswerIsFree
  RecordedVerdictIsReal
  PaidIsPaidOnChain
  AnswerIsStored
