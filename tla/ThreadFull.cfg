CONSTANTS
  Null = Null
  Main = m
  m = m
  t1 = t1
  t2 = t2
  Thread = {m, t1}
  WaitQueue = {q}
  MaxPriority = 1
  MainPriority = 0
  RequestedPriority <- OutOfRange
  HeapStack = {}
  StartSuspended = {}
  Joinable = {t1}
SPECIFICATION FullSpec
INVARIANTS QueuesSound DispatchedNotNull
CHECK_DEADLOCK FALSE
