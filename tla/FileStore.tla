------------------------------ MODULE FileStore ------------------------------
(***************************************************************************)
(* What the file system promises the program when nothing fails: a tree of *)
(* names that are absent, a directory or a file of units, and at most one  *)
(* open file with a position.  Clusters, sectors, windows and entries do   *)
(* not exist here.  A call that is refused (no such name, no room, in use) *)
(* changes nothing; one that runs out of room does part of its work.       *)
(***************************************************************************)
EXTENDS Integers, Sequences

CONSTANTS Paths, Versions, MaxPlace

VARIABLES
    store,   \* path -> [kind, data]
    file     \* [path, ptr] of the open file; the empty path when there is none

Absent     == [kind |-> "absent", data |-> << >>]
Directory  == [kind |-> "dir", data |-> << >>]
File(data) == [kind |-> "file", data |-> data]
Closed     == [path |-> << >>, ptr |-> 0]
Unit(v, i) == [k |-> "data", v |-> v, p |-> i - 1]

Parent(p)    == SubSeq(p, 1, Len(p) - 1)
IsBelow(p, d) == Len(p) > Len(d) /\ SubSeq(p, 1, Len(d)) = d
HasRoom(p)   == Len(p) = 1 \/ (Parent(p) \in Paths /\ store[Parent(p)] = Directory)
Empty(d)     == \A p \in Paths : IsBelow(p, d) => store[p] = Absent

Data == store[file.path].data
Size == Len(Data)

Init == /\ \A p \in Paths : store[p].kind = "file" \/ store[p] \in {Absent, Directory}
        /\ file = Closed

Open(p) ==
    /\ file = Closed /\ store[p].kind = "file"
    /\ \E ptr \in {0, Len(store[p].data)} : file' = [path |-> p, ptr |-> ptr]
    /\ UNCHANGED store

\* A new file, or an old one overwritten.
Create(p) ==
    /\ file = Closed /\ HasRoom(p) /\ store[p].kind # "dir"
    /\ file' = [path |-> p, ptr |-> 0]
    /\ store' = [store EXCEPT ![p] = File(<< >>)]

Read == /\ file # Closed
        /\ \E n \in 0 .. Size - file.ptr : file' = [file EXCEPT !.ptr = @ + n]
        /\ UNCHANGED store

Write ==
    /\ file # Closed
    /\ \E n \in 0 .. MaxPlace, v \in Versions :
         LET end == file.ptr + n
             new == IF end > Size THEN end ELSE Size
         IN  /\ store' = [store EXCEPT ![file.path] = File([i \in 1 .. new |->
                            IF i \in file.ptr + 1 .. end THEN Unit(v, i) ELSE Data[i]])]
             /\ file' = [file EXCEPT !.ptr = end]

\* Past the end the file grows; what is in the gap is not said.
Seek ==
    /\ file # Closed
    /\ file'.path = file.path
    /\ LET p == file.path
           s == store'[p].data
       IN  /\ store'[p].kind = "file"
           /\ Len(s) = IF file'.ptr > Size THEN file'.ptr ELSE Size
           /\ \A i \in 1 .. Size : s[i] = Data[i]
           /\ \A q \in Paths \ {p} : store'[q] = store[q]

Truncate ==
    /\ file # Closed
    /\ store' = [store EXCEPT ![file.path] = File(SubSeq(Data, 1, file.ptr))]
    /\ UNCHANGED file

Close == file # Closed /\ file' = Closed /\ UNCHANGED store

Unlink(p) ==
    /\ p # file.path /\ store[p] # Absent /\ (store[p] = Directory => Empty(p))
    /\ store' = [store EXCEPT ![p] = Absent]
    /\ UNCHANGED file

Mkdir(p) ==
    /\ store[p] = Absent /\ HasRoom(p)
    /\ store' = [store EXCEPT ![p] = Directory]
    /\ UNCHANGED file

Rename(old, new) ==
    /\ old # file.path /\ store[old] # Absent /\ store[new] = Absent /\ HasRoom(new)
    /\ LET In(p, d)  == p = d \/ IsBelow(p, d)
           Was(p)    == old \o SubSeq(p, Len(new) + 1, Len(p))
           Moved(p)  == new \o SubSeq(p, Len(old) + 1, Len(p))
       IN  /\ store' = [p \in Paths |-> CASE In(p, old) -> Absent
                          [] In(p, new) /\ Was(p) \in Paths -> store[Was(p)]
                          [] OTHER -> store[p]]
           /\ file' = IF IsBelow(file.path, old)
                      THEN [file EXCEPT !.path = Moved(@)] ELSE file

Next == \/ \E p \in Paths : Open(p) \/ Create(p) \/ Unlink(p) \/ Mkdir(p)
        \/ \E old, new \in Paths : Rename(old, new)
        \/ Read \/ Write \/ Seek \/ Truncate \/ Close

Spec == Init /\ [][Next]_<<store, file>>
==============================================================================
