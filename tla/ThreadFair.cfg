CONSTANTS
  Null = Null
  Main = m
  m = m
  t1 = t1
  t2 = t2
  Thread = {m, t1, t2}
  WaitQueue = {q}
  MaxPriority = 0
  MainPriority = 0
  RequestedPriority <- AllEqual
  HeapStack = {}
  StartSuspended = {}
  Joinable = {m, t1, t2}
SPECIFICATION FairSpec
PROPERTIES ReadyRuns JoinReturns
CHECK_DEADLOCK FALSE
