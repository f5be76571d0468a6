---------------------------- MODULE MCThreadClient ----------------------------
EXTENDS ThreadClient, TLC
CONSTANTS m, t1, t2
\* All threads but the last have the best priority.
Requested == [t \in Thread |-> IF t = t2 THEN MaxPriority + 1 ELSE 0]
AllEqual == [t \in Thread |-> 0]
\* Every priority asked for is out of range.
OutOfRange == [t \in Thread |-> MaxPriority + 1]
=============================================================================
