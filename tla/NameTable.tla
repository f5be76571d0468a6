------------------------------ MODULE NameTable ------------------------------
(***************************************************************************)
(* What the names of a directory promise: objects with a long name, which  *)
(* is found in any case, and a short one.                                  *)
(***************************************************************************)
EXTENDS Naturals, Sequences, FiniteSets, TLC

CONSTANTS Paths, Moves, BodyLen, ExtLen, MaxLfn, LfnBuf, Wide,
          Trimmed(_), UpCase(_), Bytes(_), Padded(_, _), Dotted(_), dbc_1st(_)

VARIABLES objects,  \* records of a long and a short name
          listing,  \* a list has begun
          out,      \* the last call and its result
          returned, \* the short names that the list has had so far,
          owed      \* and those that it must still have
vars == <<objects, listing, out, returned, owed>>

Legal(path) == /\ Len(path) <= MaxLfn
               /\ Trimmed(path) # <<>>
               /\ \A i \in DOMAIN path : path[i] \notin {"*", "x"}

\* A name that is a short name, and which.
IsShort(name) ==
    \E n \in 1..Len(name) :
       LET body == SubSeq(name, 1, n)
           ext  == SubSeq(name, n + 2, Len(name))
       IN  /\ Len(Bytes(body)) <= BodyLen /\ Len(Bytes(ext)) <= ExtLen
           /\ n < Len(name) => name[n + 1] = "." /\ ext # <<>>
           /\ \A i \in DOMAIN name \ {n + 1} : name[i] \notin {" ", ".", "+"}
ShortOf(name) ==
    LET dots == {i \in DOMAIN name : name[i] = "."}
        n    == IF dots = {} THEN Len(name) + 1 ELSE CHOOSE i \in dots : TRUE
    IN  Padded(Bytes(UpCase(SubSeq(name, 1, n - 1))), BodyLen)
        \o Padded(Bytes(UpCase(SubSeq(name, n + 1, Len(name)))), ExtLen)

Names(path, o) ==
    LET name == Trimmed(path)
    IN  \/ UpCase(name) = UpCase(o.long)
        \/ IsShort(name) /\ ShortOf(name) = o.short

\* Made of whole characters: the bytes of one are two if the first says so.
Whole(bytes) ==
    LET starts[i \in 1 .. Len(bytes) + 1] ==
          \/ i = 1
          \/ starts[i - 1] /\ ~dbc_1st(bytes[i - 1])
          \/ i > 2 /\ starts[i - 2] /\ dbc_1st(bytes[i - 2]) /\ dbc_1st(bytes[i - 1])
    IN  starts[Len(bytes) + 1]

\* An object may be called this beside others.  The code splits a character
\* behind one that begins with the byte of deleted entries.
Called(o, path, others) ==
    /\ o.long = Trimmed(path)
    /\ \A p \in others : p.short # o.short
    /\ IsShort(o.long) => o.short = ShortOf(o.long)
    /\ Whole(SubSeq(o.short, 1, BodyLen)) \/ o.short[1] = "E5"

Result(info) == out' = [call |-> out'.call] @@ info
Done == Result([res |-> "OK"])

Same == UNCHANGED <<objects, listing, returned, owed>>
Refuse(res) == Result([res |-> res]) /\ Same

\* Without room, or with too many names that look alike.
Deny == objects # {} /\ Refuse("DENIED")

Create(path) ==
    /\ out'.call = <<"create", path>>
    /\ IF ~Legal(path) THEN Refuse("INVALID_NAME")
       ELSE IF \E o \in objects : Names(path, o) THEN Refuse("EXIST")
       ELSE \/ Deny
            \/ /\ \E o \in objects' \ objects :
                     Called(o, path, objects) /\ objects' = objects \cup {o}
               /\ Done
               /\ UNCHANGED <<listing, returned, owed>>

Forget(o) == returned' = returned \ {o.short} /\ owed' = owed \ {o.short}

\* On the object of that name.
On(path, Does(_)) ==
    IF ~Legal(path) THEN Refuse("INVALID_NAME")
    ELSE LET named == {o \in objects : Names(path, o)}
         IN  IF named = {} THEN Refuse("NO_FILE") ELSE \E o \in named : Does(o)

Unlink(path) ==
    /\ out'.call = <<"unlink", path>>
    /\ On(path, LAMBDA o : /\ objects' = objects \ {o}
                           /\ Done
                           /\ Forget(o) /\ UNCHANGED listing)

Rename(old, new) ==
    /\ out'.call = <<"rename", old, new>>
    /\ On(old, LAMBDA o :
            LET others == objects \ {o}
            IN  IF ~Legal(new) THEN Refuse("INVALID_NAME")
                ELSE IF \E p \in others : Names(new, p) THEN Refuse("EXIST")
                ELSE \/ Deny
                     \/ /\ \E n \in objects' : Called(n, new, others) /\ objects' = others \cup {n}
                        /\ Done
                        /\ Forget(o) /\ UNCHANGED listing)

Info(o, names) ==
    \E fname \in names, alt \in {<<>>, Dotted(o.short)} :
       Result([res |-> "OK", fname |-> fname, alt |-> alt])

\* The name that an object is listed under.
Shown(o) == IF Len(Bytes(o.long)) <= LfnBuf THEN Bytes(o.long) ELSE Dotted(o.short)

Stat(path) ==
    /\ out'.call = <<"stat", path>>
    /\ On(path, LAMBDA o : /\ Info(o, {Bytes(Trimmed(path)), Shown(o), Dotted(o.short)})
                           /\ Same)

Begin == /\ out'.call = <<"begin">> /\ Done
         /\ listing' = TRUE
         /\ returned' = {} /\ owed' = {o.short : o \in objects}
         /\ UNCHANGED objects

\* An object that was created after the list began may come under its short
\* name, because the list may meet it in the middle.
List == /\ out'.call = <<"list">> /\ listing
        /\ \/ \E o \in {p \in objects : p.short \notin returned} :
                 /\ Info(o, {Shown(o)} \cup (IF o.short \in owed THEN {} ELSE {Dotted(o.short)}))
                 /\ returned' = returned \cup {o.short} /\ owed' = owed \ {o.short}
           \/ /\ owed = {}
              /\ Result([res |-> "OK", fname |-> <<>>])
              /\ UNCHANGED <<returned, owed>>
        /\ UNCHANGED <<objects, listing>>

End == /\ out'.call = <<"end">> /\ Done
       /\ listing /\ listing' = FALSE
       /\ returned' = {} /\ owed' = {}
       /\ UNCHANGED objects

Init == /\ objects = {} /\ listing = FALSE
        /\ out = [call |-> <<"none">>, res |-> "OK"]
        /\ returned = {} /\ owed = {}

Next == \/ \E path \in Paths : Create(path) \/ Unlink(path) \/ Stat(path)
        \/ \E move \in Moves : Rename(move[1], move[2])
        \/ Begin \/ List \/ End

Spec == Init /\ [][Next]_vars
==============================================================================
