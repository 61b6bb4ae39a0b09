SPECIFICATION Spec
CONSTANTS
  m1 = m1
  m2 = m2
  Markets <- MCMarkets
  Tabs <- MCTabs
  tab1 = tab1
  tab2 = tab2
  StakeSats = 10
  DebtSats = 4
  FeePerPart = 1
  MaxStakes = 2
  MaxSells = 2
  MaxRows = 3
SYMMETRY Interchangeable
INVARIANTS
  DebtPaidOnce
  RecordedWhole
