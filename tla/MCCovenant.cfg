SPECIFICATION Spec
CONSTANTS
  alice = alice
  bob = bob
  Traders <- MCTraders
  Seed = 3
  PayoutUnit = 2
  FillCost = 1
  MaxNet = 1
  MaxPayouts = 2
  DirectSides = {"yes"}
  MatureAt = 4
  MaxPlans = 4
  MaxFills = 2
SYMMETRY Symmetric
INVARIANTS
  RecordMatchesCovenant
  HoldingsAccounted
  WinnersPaidInFull
  LatestTokenNamed
  SlashNeedsRebuild
