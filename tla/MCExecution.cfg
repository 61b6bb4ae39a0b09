SPECIFICATION FairSpec
CONSTANTS
  alice = alice
  bob = bob
  Traders <- MCTraders
  Nonces <- MCNonces
  Orders <- MCAllOrders
  MaxUnits = 2
  MaxNet = 3
  MaxTickets = 3
  MaxPools = 3
INVARIANTS
  TypeOK
  NoNakedShort
  LedgerInOrder
  SettlementsAudit
  SettlementCovered
PROPERTIES
  ReceiptsAreFinal
  ImplementsFillLedger
  EveryOrderAnswered
