CONSTANTS
  Null = Null
  Thread = {t1, t2, t3}
  Queue = {wq}
  Recursive = TRUE
  MaxDepth = 2
SPECIFICATION FairSpec
INVARIANTS ExclusiveUnlessBarged CountMatchesHolders
PROPERTY LockReturns
CHECK_DEADLOCK FALSE
