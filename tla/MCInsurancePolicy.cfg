\* Premium billing and issuance.
SPECIFICATION Spec
CONSTANTS
  ZeroAddress = ZeroAddress
  Accounts = {alice}
  Treasuries = {treasury}
  TemplateIds = {1}
  Coverages = {1}
  Prices = {0, 1}
  Spans = {1, 2}
  GracePeriods = {1}
  AmountModulus = 4
  TimeModulus = 3
  MaxAttempts = 1000
  MaxPolicies = 2
  StartTime = 0
  MaxTime = 2
  MaxSpend = 2
INVARIANTS
  PremiumTimeConserved
  SubscribedIsPaid
PROPERTIES
  IssuedTermsFixed
