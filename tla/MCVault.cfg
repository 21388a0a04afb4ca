\* Borrowing, liquidation and moving prices; gas sponsored in bundles of three.
SPECIFICATION ContractsSpec
CONSTANTS
  Users = {alice, bob}
  Units = {1, 2}
  Prices = {0, 1, 2, 4}
  PriceUnit = 2
  BpsUnit = 2
  RiskParams <- MCRisk
  InitialCollateral = 3
  Senders = {alice, bob}
  DailyCaps = {2, 3}
  MaxCost = 2
  MaxOps = 3
  MaxDay = 1
SYMMETRY Alike
CONSTRAINT OneContract
INVARIANTS
  TypeOK
  BooksBalance
  SponsorshipBounded
PROPERTIES
  BorrowingIsCovered
  SeizureIsBounded
