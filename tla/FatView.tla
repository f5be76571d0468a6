------------------------------- MODULE FatView -------------------------------
(***************************************************************************)
(* What a volume means: the objects that are found on a drive  d  from the *)
(* root directory, their chains and contents.  Written from the FAT and    *)
(* exFAT formats and not from fat/FatFs.cpp: the properties compare what   *)
(* the calls leave on the drive with it.                                   *)
(***************************************************************************)
EXTENDS FatFile, SequencesExt

NoContent == [kind |-> "absent", data |-> << >>]
IsDir     == [kind |-> "dir", data |-> << >>]
AFile(data) == [kind |-> "file", data |-> data]

\* FAT entry of c, and (exFAT) whether c is allocated in the bitmap.
Link(d, c)  == d[FatSect(c)][c]
Taken(d, c) == IF Ex THEN c \in d[MapSect] ELSE Link(d, c) # 0

\* The cluster that follows c in the chain of o; lcl is the last cluster of a
\* chain whose growing edge is not on the FAT yet (0: there is none).
Follows(d, o, lcl, c) ==
    CASE ~Ex -> Link(d, c)
      [] o.stat = 2 -> IF c = o.sclust + (o.objsize - 1) \div bcs THEN EOC ELSE c + 1
      [] o.stat = 3 /\ c - o.sclust \in 0 .. o.n_cont - 1 -> c + 1
      [] lcl # 0 /\ o.n_frag # 0 /\ c \in lcl - o.n_frag + 1 .. lcl ->
            IF c = lcl THEN EOC ELSE c + 1
      [] OTHER -> Link(d, c)

RECURSIVE Trace(_, _, _, _)
\* Extends the chain  seq  to its end; a 0 as last element marks a bad one.
Trace(d, o, lcl, seq) ==
    Given(Follows(d, o, lcl, Last(seq)), LAMBDA n :
      CASE n = EOC -> seq
        [] n \notin Clusters \/ n \in ToSet(seq) -> Append(seq, 0)
        [] OTHER -> Trace(d, o, lcl, Append(seq, n)))

ChainOf(d, o, lcl) ==
    CASE o.sclust = 0 \/ (Ex /\ o.stat = 2 /\ o.objsize = 0) -> << >>
      [] o.sclust \notin Clusters -> <<0>>
      [] OTHER -> Trace(d, o, lcl, <<o.sclust>>)

Units(d, c) == FlattenSeq([i \in 1 .. CSize |->
                  [j \in 1 .. SS |-> d[SectPlus(clst2sect(c), i - 1)][j - 1]]])

\* The contents of a chain, as far as it goes.
AllUnits(d, chain) ==
    FlattenSeq([i \in 1 .. Len(chain) |->
                  IF chain[i] = 0 THEN << >> ELSE Units(d, chain[i])])

-----------------------------------------------------------------------------
\* The slots of the directory o up to its end mark, and its objects.
Slots(d, o) ==
    Given(AllUnits(d, ChainOf(d, [o EXCEPT !.sclust = IF @ = 0 THEN RootClus ELSE @], 0)),
      LAMBDA all :
        LET ends == {i \in DOMAIN all : all[i].k = "free"}
        IN  IF ends = {} THEN all ELSE SubSeq(all, 1, Min(ends) - 1))

\* An object: its name, whether a directory, what it holds and where its
\* last slot is.
ListedSlots(s) ==
    {[name |-> s[i].name, attr |-> s[i].attr, ofs |-> i - 1,
      o |-> [NoObject EXCEPT !.sclust = s[i].clus, !.objsize = s[i].size]] :
     i \in {j \in DOMAIN s : /\ s[j].k = "sfn"
                             /\ \/ s[j].name \notin LongNames
                                \/ j > 1 /\ s[j - 1] = lfn(s[j].name)}}
ListedSets(s) ==
    {[name |-> s[i + 2].name, attr |-> s[i].attr, ofs |-> i + 1,
      o |-> [NoObject EXCEPT !.sclust = s[i + 1].clus,
                !.objsize = s[i + 1].size, !.stat = s[i + 1].stat]] :
     i \in {j \in 1 .. Len(s) - 2 :
              /\ s[j].k = "85" /\ s[j + 1].k = "C0" /\ s[j + 2].k = "C1"
              /\ EntrySet(s[j].sum) = SubSeq(s, j, j + 2)}}
Listed(d, o) == Given(Slots(d, o), LAMBDA s : IF Ex THEN ListedSets(s) ELSE ListedSlots(s))

RECURSIVE ObjectsIn(_, _, _, _)
\* The objects below the directory o of path p, depth levels down.
ObjectsIn(d, o, p, depth) ==
    Given({[path |-> Append(p, x.name), attr |-> x.attr, o |-> x.o,
            dir |-> o.sclust, ofs |-> x.ofs] : x \in Listed(d, o)}, LAMBDA here :
      LET below == {x \in here : x.attr = "dir" /\ x.o.sclust # 0}
      IN  IF depth = 0 THEN here
          ELSE here \cup UNION {ObjectsIn(d, x.o, x.path, depth - 1) : x \in below})

Root       == NoObject
Depth      == 2       \* directories below the root that a view looks into
Objects(d) == ObjectsIn(d, Root, << >>, Depth)

\* The contents of an object, which is short when its chain is.
ContentOf(d, o, lcl) ==
    Given(AllUnits(d, ChainOf(d, o, lcl)), LAMBDA all :
          SubSeq(all, 1, Smaller(o.objsize, Len(all))))

Held(d, x) == IF x.attr = "dir" THEN IsDir ELSE AFile(ContentOf(d, x.o, 0))

\* What the drive holds at a path.
OnDrive(d, path) ==
    Given({x \in Objects(d) : x.path = path}, LAMBDA at :
          IF at = {} THEN NoContent ELSE Held(d, CHOOSE x \in at : TRUE))
==============================================================================
