SPECIFICATION Spec
CONSTANTS
  Wad = 1000
  LN2 = 693
  Depths <- MCDepths
  PayoutUnit = 10
  Terms = 8
  Bits = 3
  MaxQuote = 3
  MaxTrades = 8
CHECK_DEADLOCK FALSE
INVARIANTS
  NobodyBeatsTheMaker
  Solvent
  MakerSafe
  PlansAreAdmitted
PROPERTY SettleBarelyMoves
