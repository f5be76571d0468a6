CONSTANTS
  Null = Null
  Thread = {t1, t2, t3}
  Queue = {t1, t2, t3, sq}
  SendQueue = sq
SPECIFICATION FairSpec
INVARIANTS MailboxGuarded RequestsAccounted
PROPERTIES NeverOverwritten CallsReturn
CHECK_DEADLOCK FALSE
