SPECIFICATION FairSpec
CONSTANTS
  alice = alice
  bob = bob
  stake = stake
  sales = sales
  resolve = resolve
  payout = payout
  Operator = operator
  Txs <- MCTxs
  Parents <- MCParents
  Payer <- MCPayer
  Payments <- MCPayments
INVARIANTS
  CachesHoldMined
PROPERTIES
  MinedIsKept
  SomeIsCollected
