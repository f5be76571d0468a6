------------------------------ MODULE LongNames ------------------------------
(***************************************************************************)
(* Names in a directory of a FAT volume (src/peli/fat/FatFs.cpp): how a    *)
(* name becomes a short name and parts of a long one, how both are found   *)
(* again, and how a directory is listed while it changes.  The directory   *)
(* is a table of NSlots entries; sectors, chains and faults are in FatDir. *)
(*                                                                         *)
(* A name is a sequence of characters.  "k" and "q" have two bytes; the    *)
(* first of "k" is that of a deleted entry, and the second of both may     *)
(* also begin a character.  "x" is an invalid code.  What lfnbuf holds     *)
(* behind its end matches nothing.                                         *)
(***************************************************************************)
EXTENDS Naturals, Sequences, FiniteSets, TLC, SequencesExt, FiniteSetsExt

CONSTANTS NSlots, Paths, Moves,
          BodyLen, ExtLen,  \* 8 and 3
          PartLen,          \* 13 characters in a part of a long name
          MaxLfn, LfnBuf,   \* FF_MAX_LFN characters, FF_LFN_BUF bytes
          Counted, Tries,   \* 5 numbers before hashes, 100 in all
          Base, Hash(_, _), \* 16; the hash of a name and a number
          Sum(_)            \* sum_sfn

VARIABLES slots,    \* the directory
          dp,       \* the open DIR: Closed, the next slot, or AtEnd
          out,      \* the last call and its result
          returned, \* history: short names that f_readdir has returned since
          owed      \* the list began, and those it has not, of that time
vars == <<slots, dp, out, returned, owed>>

-----------------------------------------------------------------------------
(* Characters. *)

Capital == [a |-> "A", b |-> "B"]
ff_wtoupper(c) == IF c \in DOMAIN Capital THEN Capital[c] ELSE c
UpCase(name) == [i \in DOMAIN name |-> ff_wtoupper(name[i])]
Small(c) == CHOOSE l \in DOMAIN Capital : Capital[l] = c
IsUpper(c) == c \in {Capital[l] : l \in DOMAIN Capital}
IsLower(c) == c \in DOMAIN Capital

\* The bytes of a character in the code page.
ff_uni2oem(c) == CASE c = "k" -> <<"E5", "w">> [] c = "q" -> <<"w", "w">> [] OTHER -> <<c>>
dbc_1st(b) == b \in {"E5", "w"}
Wide == {"k", "q"}
Bytes(name) == FoldLeft(LAMBDA bs, c : bs \o ff_uni2oem(c), <<>>, name)

Without(name, cs) == SelectSeq(name, LAMBDA c : c \notin cs)

Trimmed(name) ==
    LET kept == {i \in DOMAIN name : name[i] \notin {" ", "."}}
    IN  IF kept = {} THEN <<>> ELSE SubSeq(name, 1, Max(kept))

-----------------------------------------------------------------------------
(* Short names. *)

\* The bytes that fit in a field of n; what follows the first character that
\* does not is cut.
Field(chars, n) ==
    FoldLeft(LAMBDA f, c :
               LET bs == IF c = "+" THEN <<"_">> ELSE ff_uni2oem(ff_wtoupper(c))
               IN  IF f.cut \/ Len(f.bytes) + Len(bs) > n THEN [f EXCEPT !.cut = TRUE]
                   ELSE [f EXCEPT !.bytes = @ \o bs, !.chars = @ \cup {c}],
             [bytes |-> <<>>, chars |-> {}, cut |-> FALSE], chars)

Padded(bytes, n) == [i \in 1..n |-> IF i <= Len(bytes) THEN bytes[i] ELSE " "]

Stored(fn) == IF fn[1] = "E5" THEN [fn EXCEPT ![1] = "05"] ELSE fn
Restored(fn) == IF fn[1] = "05" THEN [fn EXCEPT ![1] = "E5"] ELSE fn

Uppers(f) == \E c \in f.chars : IsUpper(c)
Lowers(f) == \E c \in f.chars : IsLower(c)

\* What a short name and two flags cannot say (NS_LFN).
NeedsLong(body, ext) ==
    \E f \in {body, ext} : Wide \cap f.chars # {} \/ (Uppers(f) /\ Lowers(f))

create_name(path) ==
    LET lfn   == Trimmed(path)
        dots  == {i \in DOMAIN lfn : lfn[i] = "."}
        dot   == IF dots = {} THEN Len(lfn) + 1 ELSE Max(dots)
        stem  == SubSeq(lfn, 1, dot - 1)
        body  == Field(Without(stem, {" ", "."}), BodyLen)
        ext   == Field(Without(SubSeq(lfn, dot + 1, Len(lfn)), {" "}), ExtLen)
        loss  == \/ body.cut \/ ext.cut
                 \/ "+" \in body.chars \cup ext.chars
                 \/ \E i \in DOMAIN lfn : lfn[i] \in {" ", "."} /\ i # dot
                 \/ Without(stem, {" "}) = <<>>
        long  == loss \/ NeedsLong(body, ext)
    IN  IF \/ \E i \in DOMAIN path : path[i] \in {"*", "x"}
           \/ Len(path) > MaxLfn \/ lfn = <<>>
        THEN [res |-> "INVALID_NAME"]
        ELSE [res |-> "OK", lfn |-> lfn, loss |-> loss, long |-> long, nolfn |-> FALSE,
              fn  |-> Stored(Padded(body.bytes, BodyLen) \o Padded(ext.bytes, ExtLen)),
              nt  |-> IF long THEN {}
                      ELSE (IF Lowers(body) THEN {"body"} ELSE {})
                           \cup (IF Lowers(ext) THEN {"ext"} ELSE {})]

Digits == <<"0", "1", "2", "3", "4", "5", "6", "7", "8", "9", "A", "B", "C", "D", "E", "F">>
RECURSIVE Number(_)
Number(n) == (IF n < Base THEN <<>> ELSE Number(n \div Base)) \o <<Digits[(n % Base) + 1]>>

\* Where a suffix that leaves i bytes goes: not behind the first byte of two,
\* as long as each of them is recognised.
RECURSIVE EndOfBody(_, _, _)
EndOfBody(fn, i, j) ==
    IF j = i \/ fn[j + 1] = " " THEN j
    ELSE IF ~dbc_1st(fn[j + 1]) THEN EndOfBody(fn, i, j + 1)
    ELSE IF j = i - 1 THEN j
    ELSE EndOfBody(fn, i, j + 2)

gen_numname(fn, lfn, n) ==
    LET suffix == <<"~">> \o Number(IF n > Counted THEN Hash(lfn, n) ELSE n)
        kept   == SubSeq(fn, 1, EndOfBody(fn, BodyLen - Len(suffix), 0))
    IN  Padded(kept \o suffix, BodyLen) \o SubSeq(fn, BodyLen + 1, BodyLen + ExtLen)

\* What f_readdir gives as alternative name.
Dotted(fn) ==
    LET ext == Without(SubSeq(fn, BodyLen + 1, BodyLen + ExtLen), {" "})
    IN  Without(SubSeq(Restored(fn), 1, BodyLen), {" "})
        \o (IF ext = <<>> THEN <<>> ELSE <<".">> \o ext)

\* The same with the cases that the flags tell.
Cased(fn, nt) ==
    LET alt == Dotted(fn)
        dot == IF \E i \in DOMAIN alt : alt[i] = "."
               THEN CHOOSE i \in DOMAIN alt : alt[i] = "." ELSE Len(alt) + 1
    IN  [i \in DOMAIN alt |->
           IF IsUpper(alt[i]) /\ (IF i < dot THEN "body" ELSE "ext") \in nt
           THEN Small(alt[i]) ELSE alt[i]]

-----------------------------------------------------------------------------
(* Entries.  The first byte tells free ones from others. *)

Unused == [et |-> "0"]
Deleted == [et |-> "E5"]
Free(e) == e.et \in {"0", "E5"}

ShortEntry(fn, nt) == [et |-> fn[1], long |-> FALSE, fn |-> fn, nt |-> nt]

\* The n-th character of a name: its end, or filler behind that.
CharAt(lfn, n) == IF n <= Len(lfn) THEN lfn[n] ELSE IF n = Len(lfn) + 1 THEN "0" ELSE "F"

put_lfn(lfn, ord, sum) ==
    [et |-> "ord", long |-> TRUE, ord |-> ord, last |-> Len(lfn) <= ord * PartLen, sum |-> sum,
     part |-> [i \in 1..PartLen |-> CharAt(lfn, (ord - 1) * PartLen + i)]]

\* The characters of a part up to its end.
Ended(e) == \E i \in 1..PartLen : e.part[i] = "0"
Used(e) == IF Ended(e) THEN CHOOSE i \in 1..PartLen : e.part[i] = "0" ELSE PartLen
Filled(e) == \A i \in Used(e) + 1 .. PartLen : e.part[i] = "F"

\* Is the entry that part of lfn?
cmp_lfn(lfn, e) ==
    /\ \A i \in 1..Used(e) : LET n == (e.ord - 1) * PartLen + i
                             IN  /\ n <= MaxLfn + 1
                                 /\ n <= Len(lfn) + 1
                                 /\ ff_wtoupper(e.part[i]) = ff_wtoupper(CharAt(lfn, n))
    /\ Filled(e)
    /\ e.last /\ ~Ended(e) => Len(lfn) <= e.ord * PartLen

\* Does the part fit in lfnbuf?
pick_lfn(e) == /\ (e.ord - 1) * PartLen + Used(e) <= MaxLfn + 1
               /\ Filled(e)
               /\ e.last /\ ~Ended(e) => e.ord * PartLen <= MaxLfn

-----------------------------------------------------------------------------
(* Walking.  A run is the parts of a long name on the way to its short one:   *)
(* the next part, the checksum, and where it began.                           *)

NoRun == [ord |-> 255, sum |-> 0, blk |-> 0]

\* The run after entry i, if Good says that its part is right.
Run(run, i, e, Good(_)) ==
    LET begun == IF e.last THEN [ord |-> e.ord, sum |-> e.sum, blk |-> i] ELSE run
    IN  [begun EXCEPT !.ord = IF e.ord = begun.ord /\ e.sum = begun.sum /\ Good(e)
                              THEN begun.ord - 1 ELSE 255]

Complete(run, e) == run.ord = 0 /\ run.sum = Sum(e.fn)

Ends(i) == i > NSlots \/ slots[i].et = "0"

RECURSIVE FindFrom(_, _, _)
FindFrom(name, i, run) ==
    LET e == slots[i]
    IN  IF Ends(i) THEN [res |-> "NO_FILE"]
        ELSE IF Free(e) THEN FindFrom(name, i + 1, NoRun)
        ELSE IF e.long
        THEN FindFrom(name, i + 1, IF name.nolfn THEN run
                                   ELSE Run(run, i, e, LAMBDA p : cmp_lfn(name.lfn, p)))
        ELSE IF Complete(run, e) \/ (~name.loss /\ e.fn = name.fn)
        THEN [res |-> "OK", at |-> i, blk |-> run.blk]
        ELSE FindFrom(name, i + 1, NoRun)
dir_find(name) == IF name.res = "OK" THEN FindFrom(name, 1, NoRun) ELSE name

\* The next object from slot i on, and the slots of its long name.
RECURSIVE dir_read(_, _)
dir_read(i, run) ==
    LET e == slots[i]
    IN  IF Ends(i) THEN [res |-> "NO_FILE"]
        ELSE IF Free(e) THEN dir_read(i + 1, [run EXCEPT !.ord = 255])
        ELSE IF e.long THEN dir_read(i + 1, Run(run, i, e, pick_lfn))
        ELSE [res |-> "OK", at |-> i, blk |-> IF Complete(run, e) THEN run.blk ELSE 0]

\* The long name that dir_read has put together from slots blk to at - 1.
Picked(blk, at) ==
    Without(FoldLeft(LAMBDA cs, i : slots[i].part \o cs, <<>>, [k \in 1 .. at - blk |-> blk + k - 1]),
            {"0", "F"})

\* The information on the object at a slot, whose long name is in lfnbuf.
get_fileinfo(found, lfn) ==
    LET e == slots[found.at]
    IN  IF found.blk # 0 /\ Len(Bytes(lfn)) <= LfnBuf
        THEN [res |-> "OK", fname |-> Bytes(lfn), alt |-> Dotted(e.fn)]
        ELSE [res |-> "OK", fname |-> Cased(e.fn, e.nt),
              alt |-> IF e.nt = {} THEN <<>> ELSE Dotted(e.fn)]

-----------------------------------------------------------------------------
(* Changing. *)

\* n free entries in a row, or none.
dir_alloc(n) ==
    LET rooms == {i \in 1 .. NSlots - n + 1 : \A k \in i .. i + n - 1 : Free(slots[k])}
    IN  IF rooms = {} THEN 0 ELSE Min(rooms)

\* The name under which the object is registered: one that is numbered, if
\* the short form has lost something.
Numbered(name) ==
    LET As(n)  == [name EXCEPT !.fn = gen_numname(name.fn, name.lfn, n), !.loss = FALSE,
                               !.nolfn = TRUE]
        free   == {n \in 1 .. Tries - 1 : dir_find(As(n)).res = "NO_FILE"}
    IN  IF ~name.loss THEN name
        ELSE IF free = {} THEN [res |-> "DENIED"]
        ELSE [name EXCEPT !.fn = As(Min(free)).fn]

dir_register(name) ==
    LET reg   == Numbered(name)
        parts == IF reg.long THEN (Len(reg.lfn) + PartLen - 1) \div PartLen ELSE 0
        at    == dir_alloc(parts + 1)
    IN  IF reg.res # "OK" THEN [res |-> reg.res, slots |-> slots]
        ELSE IF at = 0 THEN [res |-> "DENIED", slots |-> slots]
        ELSE [res |-> "OK", fn |-> reg.fn,
              slots |-> [i \in 1..NSlots |->
                           CASE i \in at .. at + parts - 1 ->
                                  put_lfn(reg.lfn, at + parts - i, Sum(reg.fn))
                             [] i = at + parts -> ShortEntry(reg.fn, reg.nt)
                             [] OTHER -> slots[i]]]

\* Mutant: the parts of the long name stay.
RemoveShort(ss, found) == [ss EXCEPT ![found.at] = Deleted]

dir_remove(ss, found) ==
    LET first == IF found.blk = 0 THEN found.at ELSE found.blk
    IN  [i \in 1..NSlots |-> IF i \in first .. found.at THEN Deleted ELSE ss[i]]

-----------------------------------------------------------------------------
(* The calls. *)

Closed == 0
AtEnd == NSlots + 1

ShortNames(ss) == {ss[i].fn : i \in {j \in 1..NSlots : ~Free(ss[j]) /\ ~ss[j].long}}

\* A call and what it returned.
Result(call, info) == out' = [call |-> call] @@ info
Done == [res |-> "OK"]

Refused(call, res) == Result(call, [res |-> res]) /\ UNCHANGED <<slots, dp, returned, owed>>

Name == [path \in Paths \cup UNION {{m[1], m[2]} : m \in Moves} |-> create_name(path)]

\* f_open with FA_CREATE_NEW, f_mkdir.
Create(path) ==
    LET call  == <<"create", path>>
        name == Name[path]
        made == dir_register(name)
    IN  IF name.res # "OK" THEN Refused(call, name.res)
        ELSE IF dir_find(name).res = "OK" THEN Refused(call, "EXIST")
        ELSE /\ slots' = made.slots
             /\ Result(call, [res |-> made.res])
             /\ UNCHANGED <<dp, returned, owed>>

Gone(fn) == returned' = returned \ {fn} /\ owed' = owed \ {fn}

Unlink(path) ==
    LET call  == <<"unlink", path>>
        found == dir_find(Name[path])
    IN  IF found.res # "OK" THEN Refused(call, found.res)
        ELSE /\ slots' = dir_remove(slots, found)
             /\ Result(call, Done)
             /\ Gone(slots[found.at].fn)
             /\ UNCHANGED dp

\* The new name may find the object itself, to change its cases.
Rename(old, new) ==
    LET call  == <<"rename", old, new>>
        found == dir_find(Name[old])
        name  == Name[new]
        other == dir_find(name)
        made  == dir_register(name)
    IN  IF found.res # "OK" THEN Refused(call, found.res)
        ELSE IF name.res # "OK" THEN Refused(call, name.res)
        ELSE IF other.res = "OK" /\ other.at # found.at THEN Refused(call, "EXIST")
        ELSE IF made.res # "OK" THEN Refused(call, made.res)
        ELSE /\ slots' = dir_remove(made.slots, found)
             /\ Result(call, Done)
             /\ Gone(slots[found.at].fn)
             /\ UNCHANGED dp

Stat(path) ==
    LET call  == <<"stat", path>>
        name  == Name[path]
        found == dir_find(name)
    IN  IF found.res # "OK" THEN Refused(call, found.res)
        ELSE /\ Result(call, get_fileinfo(found, name.lfn))
             /\ UNCHANGED <<slots, dp, returned, owed>>

\* f_opendir, and f_readdir without a place for the information.
Rewind == /\ dp' = 1
          /\ Result(<<"begin">>, Done)
          /\ returned' = {}
          /\ owed' = ShortNames(slots)
          /\ UNCHANGED slots

f_readdir ==
    LET found == dir_read(dp, NoRun)
    IN  /\ dp # Closed
        /\ IF dp = AtEnd \/ found.res # "OK"
           THEN /\ dp' = AtEnd
                /\ Result(<<"list">>, [res |-> "OK", fname |-> <<>>])
                /\ UNCHANGED <<returned, owed>>
           ELSE /\ dp' = found.at + 1
                /\ Result(<<"list">>, get_fileinfo(found, Picked(found.blk, found.at)))
                /\ returned' = returned \cup {slots[found.at].fn}
                /\ owed' = owed \ {slots[found.at].fn}
        /\ UNCHANGED slots

f_closedir == /\ dp # Closed
              /\ dp' = Closed
              /\ Result(<<"end">>, Done)
              /\ returned' = {} /\ owed' = {}
              /\ UNCHANGED slots

Init == /\ slots = [i \in 1..NSlots |-> Unused]
        /\ dp = Closed
        /\ out = [call |-> <<"none">>, res |-> "OK"]
        /\ returned = {} /\ owed = {}

Next == \/ \E path \in Paths : Create(path) \/ Unlink(path) \/ Stat(path)
        \/ \E move \in Moves : Rename(move[1], move[2])
        \/ Rewind \/ f_readdir \/ f_closedir

Spec == Init /\ [][Next]_vars

-----------------------------------------------------------------------------
(* The objects of the directory, read as the format says.  Parts of a long    *)
(* name that belong to no short one are an object of their own.               *)

PartsOf(i) ==
    LET Set(n) == /\ n < i
                  /\ \A k \in 1..n : LET e == slots[i - k]
                                     IN  /\ ~Free(e) /\ e.long
                                         /\ e.ord = k /\ e.last = (k = n)
                                         /\ e.sum = Sum(slots[i].fn)
    IN  IF \E n \in 1..NSlots : Set(n) THEN CHOOSE n \in 1..NSlots : Set(n) ELSE 0

Shorts == {i \in 1..NSlots : ~Free(slots[i]) /\ ~slots[i].long}

Objects ==
    {[long  |-> IF PartsOf(i) = 0 THEN Cased(slots[i].fn, slots[i].nt)
                ELSE Picked(i - PartsOf(i), i),
      short |-> Restored(slots[i].fn)] : i \in Shorts}
    \cup {[long |-> <<>>, short |-> <<i>>] :
           i \in {j \in 1..NSlots : /\ ~Free(slots[j]) /\ slots[j].long
                                    /\ \A k \in Shorts : j \notin k - PartsOf(k) .. k}}

Table == INSTANCE NameTable WITH objects <- Objects, listing <- dp # Closed,
           returned <- {Restored(fn) : fn \in returned}, owed <- {Restored(fn) : fn \in owed}

\* Whatever is created, renamed, removed and listed, and in whatever order:
\* a name finds the object that it was given to, in any case, and no other;
\* short names are distinct and made of whole characters; nothing is left of
\* an object that is removed; and a list has every object once, and under
\* its name, if it is there from beginning to end (create_name, dir_find,
\* dir_register, dir_remove, f_readdir).
ImplementsNameTable == Table!Spec
==============================================================================
