SPECIFICATION Spec
CONSTANTS
  Lives <- MCLives
  MaxRows = 4
  MaxCalls = 4
INVARIANTS
  PoolsMirrorChain
  SettledOnce
  PoolKnownOnChain
  StampedIsCleared
  PoolPaysOnce
PROPERTY ImplementsHistory
