\* Claims against the real policy contract.
SPECIFICATION PlatformSpec
CONSTANTS
  ZeroAddress = ZeroAddress
  Accounts = {alice}
  StartTime = 1
  MaxTime = 2
  Treasuries = {treasury}
  TemplateIds = {1}
  Coverages = {2}
  Plans <- MCPlans
  Prices = {1}
  Spans = {0, 2}
  GracePeriods = {0}
  AmountModulus = 4
  TimeModulus = 8
  MaxAttempts = 1000
  MaxPolicies = 1
  MaxSpend = 1
  PolicyContract = PolicyContract
  Amounts = {2}
  ClaimAmountModulus = 4
  RequestIds = {101}
  Tokens = {dusd}
  PayoutToken = dusd
  Transfers = {4}
  LimitSettings <- MCLimits
  MaxClaims = 2
  MaxDeposit = 4
  MaxApprovals = 1
PROPERTIES
  AcceptedIsEligible
  ClaimsArePaidFor
