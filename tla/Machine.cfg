CONSTANTS
  Parts = {"registers", "memory", "card"}
  Thread = {t1, t2}
  Main = t1
  NoThread = NoThread
  Value = {0, 1}
  Start = 0
  MaxEvents = 2
  MaxCount = 2
  User <- TheUser
  MaxArgs = 4
  MaxHeap = 2
  Values = {"0", "1"}
  Results = {"OK", "ERROR"}
  Calls <- TheCalls
SPECIFICATION MachineSpec
CONSTRAINT Apart
INVARIANT LeavesDeselected
PROPERTIES ImplementsOwnRegisters ImplementsIosCall SelectedForData
VIEW View
CHECK_DEADLOCK FALSE
