SPECIFICATION FairSpec
CONSTANTS
  p1 = p1
  Pages = {p1}
  MaxRows = 2
  MaxMounts = 2
  MaxPolls = 1
INVARIANT AuthorizeWasMeant
PROPERTIES
  DecidedOnce
  QueueCatchesUp
