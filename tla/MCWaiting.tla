------------------------------ MODULE MCWaiting ------------------------------
(* How the queue is used, what is on the drive and what is asked for.       *)
EXTENDS Waiting, TLC
CONSTANTS t1, t2, t3

Senders == {"Send", "TrySend"}
Receivers == {"Receive", "TryReceive", "Peek", "TryPeek"}

TheUses ==
  \* Three producers, and an interrupt handler that consumes and produces:
  \* the queue of requests of ios/low/Ipc.cpp, with a second slot.
  {[size |-> 2, ops |-> [t \in Thread |-> Senders],
    handlerOps |-> {"TryReceive", "TrySend"}],
  \* One sender, one receiver, each in every way.
   [size |-> 4, ops |-> [t \in Thread |->
                           IF t = t1 THEN Senders \cup {"Jam", "TryJam"}
                           ELSE IF t = t2 THEN Receivers ELSE {}],
    handlerOps |-> {}],
  \* A handler and two receivers on one slot: the replies of ios/low/Ipc.cpp.
   [size |-> 1, ops |-> [t \in Thread |->
                           IF t = t3 THEN {} ELSE Receivers],
    handlerOps |-> {"Send", "TrySend"}]}

\* Where the data of a file ends (SysConf!LookupTableOffset).
TableAt == 16384 - 82

\* A file of n entries from offset 100 on, the last at the end of the data.
Entry(type, key, low, high) ==
  [type |-> type, key |-> key, keyLength |-> 6, low |-> low, high |-> high]
Good ==
  [exists |-> TRUE, whole |-> TRUE, count |-> 3,
   offset |-> [i \in 0 .. 3 |-> CASE i = 0 -> 100 [] i = 1 -> 110
                                  [] i = 2 -> TableAt - 17
                                  [] i = 3 -> TableAt],
   table |-> [n \in {0, 1, 2} |-> IF n = 0 THEN 6 + 2 ELSE 0],
   entry |-> [o \in {100, 110, TableAt - 17} |->
                CASE o = 100 -> Entry("Byte", "a", 0, 0)
                  [] o = 110 -> Entry("BigArray", "b", 2, 1)
                  [] OTHER -> Entry("SmallArray", "c", 9, 0)],
   junk |-> Entry("None", "none", 0, 0)]

TheFiles ==
  {Good, [Good EXCEPT !.exists = FALSE], [Good EXCEPT !.whole = FALSE],
   [Good EXCEPT !.count = 9000],
   \* the last entry is too long, and a hint to the slot behind the last
   [Good EXCEPT !.entry[TableAt - 17].low = 12, !.table[2] = 6 + 6],
   \* a slot points into the header, and a hint to the wrong entry
   [Good EXCEPT !.offset[1] = 8, !.table[0] = 6 + 4]}

TheAsks ==
  {[form |-> "index", index |-> 1],
   [form |-> "number", key |-> "a", lookup |-> 0],
   [form |-> "number", key |-> "b", lookup |-> 0],
   [form |-> "data", key |-> "b", lookup |-> 2],
   [form |-> "data", key |-> "c", lookup |-> 49],
   [form |-> "data", key |-> "d", lookup |-> 2]}
=============================================================================
