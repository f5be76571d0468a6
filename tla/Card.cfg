SPECIFICATION CardSpec
CONSTANT MaxCount = 2
INVARIANT RequestsSynced
CHECK_DEADLOCK FALSE
