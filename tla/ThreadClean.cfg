CONSTANTS
  Null = Null
  Main = m
  m = m
  t1 = t1
  t2 = t2
  Thread = {m, t1, t2}
  WaitQueue = {q, r}
  MaxPriority = 1
  MainPriority = 0
  RequestedPriority <- Requested
  HeapStack = {t1, t2}
  StartSuspended = {}
  Joinable = {m, t1, t2}
SPECIFICATION CleanSpec
INVARIANTS NoThreadLost JoinReturnsAfterExit RunsOnLiveStack NoStackLeak
PROPERTY ImplementsScheduler
CHECK_DEADLOCK FALSE
