\* Two scenarios: the life of two claims, and one claim against the rate limit.
SPECIFICATION Spec
CONSTANTS
  alice = alice
  ZeroAddress = ZeroAddress
  Accounts = {alice}
  Registries = {registry}
  PolicyIds = {1}
  PolicyViews <- AllViews
  Amounts = {2, 5}
  AmountModulus = 4
  RequestIds = {101, 102}
  Tokens = {dusd, other}
  PayoutToken = dusd
  Transfers = {2}
  LimitSettings <- AllLimits
  MaxClaims = 2
  StartTime = 0
  MaxTime = 3
  MaxDeposit = 6
  MaxApprovals = 3
CONSTRAINT EitherScenario
INVARIANTS
  OnePaymentPerApproval
  PoolConserved
  PaidWithinCoverage
  BurstBound
