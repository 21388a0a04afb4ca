\* Two operators with three keys: setup, claims and changes of owners.
CONSTANTS
  k1 = k1
  k2 = k2
  k3 = k3
  Keys = {k1, k2, k3}
  Point <- MCPoint
  Base = 8
  Width = 2
  Order = 61
  Operators = {o1, o2}
  Configured <- MCConfigured
  Thresholds = {1, 2}
  Accounts <- MCAccounts
  MaxNonce = 2
SPECIFICATION Spec
INVARIANTS NoLockout SignaturesAreCanonical SignaturesSuffice
SYMMETRY Alike
CONSTRAINTS SetupOnce
