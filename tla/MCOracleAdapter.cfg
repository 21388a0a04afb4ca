\* Relay, replay and revert between the adapter and the registry.
SPECIFICATION AdapterSpec
CONSTANTS
  alice = alice
  ZeroAddress = ZeroAddress
  Accounts = {alice}
  Registries = {registry}
  PolicyIds = {1}
  PolicyViews <- MCViews
  Amounts = {1}
  AmountModulus = 4
  RequestIds = {101, 102}
  Tokens = {dusd, other}
  PayoutToken = dusd
  Transfers = {1}
  LimitSettings <- MCLimits
  StartTime = 0
  MaxTime = 1
  MaxClaims = 1
  MaxDeposit = 1
  MaxApprovals = 2
  Keys = {key}
  ValidityWindows = {0, 1}
  ThisRegistry = ThisRegistry
  OtherSink = OtherSink
INVARIANTS
  UsedMeansDecided
  DecidesOneClaim
