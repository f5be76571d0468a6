------------------------------ MODULE MCFatLock ------------------------------
(***************************************************************************)
(* Volumes of fat/FatFs.cpp that are shared, and the names in a directory  *)
(* of one: a behaviour is about the locks of FatLock or about LongNames.   *)
(***************************************************************************)
EXTENDS FatLock, Sequences, TLC

\* A file on each volume.
Volumes == {"v0", "v1"}
Places == {"a", "c"}
VolumeOfPlace == [f \in Places |-> IF f = "c" THEN "v1" ELSE "v0"]

\* With an extension, in two cases, with a space and a dot at the end, with a
\* character that short names have not, with a number, with a leading dot,
\* with characters of two bytes, longer than a short name, illegal.
ThePaths == {<<"a", ".", "b">>, <<"a", "B">>, <<"a", " ", "b", ".">>, <<"a", "+", "b">>,
             <<"A", "_", "~", "1">>, <<".", "a">>, <<"k", "q", ".", "+">>,
             <<"q", "q", "q">>, <<"a", "*">>}
TheMoves == {<< <<"a", "b">>, <<"A", "b">> >>, << <<"a", " ", "b">>, <<"A", " ", "B">> >>}
TheHash(name, n) == (Len(name) + 2 * n) % 4
TheSum(fn) == Len(SelectSeq(fn, LAMBDA c : c = " "))

VARIABLES part, slots, dp, out, returned, owed
names == <<slots, dp, out, returned, owed>>

Names == INSTANCE LongNames WITH
           NSlots <- 5, Paths <- ThePaths, Moves <- TheMoves, BodyLen <- 4, ExtLen <- 1,
           PartLen <- 2, MaxLfn <- 5, LfnBuf <- 5, Counted <- 1, Tries <- 3, Base <- 2,
           Hash <- TheHash, Sum <- TheSum

FatInit == /\ part \in {"locks", "names"} /\ Init /\ Names!Init
           /\ part = "names" => SysLockVolume = "v0"

FatNext == \/ part = "locks" /\ Next /\ UNCHANGED <<part, names>>
           \/ part = "names" /\ Names!Next /\ UNCHANGED <<part, vars>>

FatSpec == FatInit /\ [][FatNext]_<<part, vars, names>>

\* Names find the objects that they were given to, whatever is created,
\* renamed, removed and listed (create_name, dir_find, dir_register,
\* dir_remove, f_readdir): see module LongNames.
ImplementsNameTable == Names!ImplementsNameTable

Symmetry == Permutations(Task)

\* The result of the last call is no part of what the next one depends on.
View == <<part, vars, slots, dp, returned, owed>>
=============================================================================
