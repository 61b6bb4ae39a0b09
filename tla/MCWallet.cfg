SPECIFICATION Spec
CONSTANTS
  m1 = m1
  Engines <- MCEngines
  Markets = {m1}
  MaxUnits = 2
  Deposits = 2
  MaxTxs = 5
INVARIANTS
  HeldIsFree
  OverlayIsFresh
  PoolIsTip
