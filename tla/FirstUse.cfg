CONSTANTS
  Null = Null
  t1 = t1
  t2 = t2
  t3 = t3
  Thread = {t1, t2, t3, t4}
  Queue = {oq, rq, lq}
  Message = {a}
  WordSize = 16
  Uses <- TheUses
  Parts = {"once", "settings"}
  User = {t1, t2}
  First = t1
  cond = cq
  mutex = mq
  opening = oq
  reading = rq
  locking = lq
  Caller = {t1, t2}
  Files <- TheFiles
  Asks <- TheAsks
SPECIFICATION FirstUseSpec
PROPERTIES WaitersReturn GetsReturn
INVARIANTS InitialisedOnce GetRight
