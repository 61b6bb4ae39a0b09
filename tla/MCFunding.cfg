SPECIFICATION Spec
CONSTANT MaxAttempts = 4
INVARIANTS
  FillsArePaid
  IntentBuysOnce
  RefundBoughtNothing
  AcceptedBoughtFill
PROPERTY NeverPaysTwice
