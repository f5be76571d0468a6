CONSTANTS
  Null = Null
  t1 = t1
  t2 = t2
  t3 = t3
  Thread = {t1, t2, t3}
  Queue = {wq, rq, lq}
  Message = {a, b}
  WordSize = 16
  Uses <- TheUses
  Parts = {"queue", "condition"}
  User = {t1, t2}
  First = t1
  cond = cq
  mutex = mq
  opening = wq
  reading = rq
  locking = lq
  Caller = {t1}
  Files <- TheFiles
  Asks <- TheAsks
SPECIFICATION WaitingSpec
INVARIANTS NoneStranded CountMatchesHolders
PROPERTY ImplementsQueue
