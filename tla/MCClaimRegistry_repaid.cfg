\* A second verdict on a claim that is paid already.
SPECIFICATION Spec
CONSTANTS
  alice = alice
  ZeroAddress = ZeroAddress
  Accounts = {alice}
  Registries = {registry}
  PolicyIds = {1}
  PolicyViews <- OneView
  Amounts = {1, 2}
  AmountModulus = 4
  RequestIds = {101, 102}
  Tokens = {dusd}
  PayoutToken = dusd
  Transfers = {2}
  LimitSettings <- TightLimits
  MaxClaims = 1
  StartTime = 0
  MaxTime = 3
  MaxDeposit = 6
  MaxApprovals = 3
INVARIANTS
  PaidAtMostOnce
