------------------------------ MODULE FatVolumes ------------------------------
(***************************************************************************)
(* Volumes of six clusters.  FAT32, of two slots: an empty one, one with a *)
(* fragmented file whose long name crosses a cluster of the root, and one  *)
(* with a file below one of two directories.  exFAT, of four slots: one    *)
(* whose free clusters are not in a row, and one with a directory that can *)
(* only grow apart.                                                        *)
(***************************************************************************)
EXTENDS FatView

Volume32(fat, data, free, last) ==
    [x \in {FatSect(c) : c \in 0 .. NClusters + 1} \cup {InfoSect}
            \cup {<<"data", i>> : i \in 0 .. NClusters * CSize - 1} |->
       CASE x[1] = "fat"  -> [c \in {y \in 0 .. NClusters + 1 : FatSect(y) = x} |->
                               IF c \in DOMAIN fat THEN fat[c] ELSE IF c < 2 THEN 1 ELSE 0]
         [] x[1] = "info" -> FsInfo(free, last)
         [] OTHER -> IF x[2] \in DOMAIN data THEN data[x[2]] ELSE Zeros]

Pair(u, v) == [i \in 0 .. 1 |-> IF i = 0 THEN u ELSE v]
OldPair(i)   == Pair(datum("old", i), datum("old", i + 1))
Dots(c)  == Pair(dot(c), dot(0))
EmptyVolume == Volume32(2 :> EOC, 0 :> EmptySector, NClusters - 1, 2)
OneFile == Volume32(2 :> 4 @@ 4 :> EOC @@ 3 :> EOC @@ 5 :> 7 @@ 7 :> EOC,
    0 :> Pair(sfn("d", "dir", 3, 0), lfn("a"))
    @@ 2 :> Pair(sfn("a", "file", 5, 3), Slot.free)
    @@ 1 :> Dots(3) @@ 3 :> OldPair(0) @@ 5 :> OldPair(2), 1, 7)
TwoDirs == Volume32(2 :> EOC @@ 3 :> EOC @@ 4 :> 5 @@ 5 :> EOC @@ 6 :> EOC,
    0 :> Pair(sfn("c", "dir", 3, 0), sfn("d", "dir", 4, 0)) @@ 1 :> Dots(3)
    @@ 2 :> Dots(4) @@ 3 :> Pair(lfn("a"), sfn("a", "file", 6, 1)) @@ 4 :> OldPair(0), Unknown, Unknown)
Disks32 == {EmptyVolume, OneFile, TwoDirs}

-----------------------------------------------------------------------------
VolumeEx(used, fat, data) ==
    [x \in {FatSect(c) : c \in 0 .. NClusters + 1} \cup {InfoSect, MapSect}
            \cup {<<"data", i>> : i \in 0 .. NClusters * CSize - 1} |->
       CASE x[1] = "fat"  -> [c \in {y \in 0 .. NClusters + 1 : FatSect(y) = x} |->
                               IF c \in DOMAIN fat THEN fat[c] ELSE 0]
         [] x[1] = "map"  -> used
         [] x[1] = "info" -> FsInfo(0, 0)
         [] OTHER -> IF x[2] \in DOMAIN data THEN data[x[2]] ELSE Zeros]

Entry(name, attr, clus, size) == EntrySet([attr |-> attr, stat |-> 2, clus |-> clus,
                                           size |-> size, name |-> name])
\* Slots i, i + 1 .. of a directory whose slots before the end mark are set.
Sector(set, i) == [j \in 0 .. SS - 1 |-> IF i + j < Len(set) THEN set[i + j + 1]
                                         ELSE Slot.free]
Old(i)  == [j \in 0 .. SS - 1 |-> datum("old", i + j)]
rootF == Entry("b", "file", 5, 2)
Scattered == VolumeEx({2, 3, 5}, 2 :> 3 @@ 3 :> EOC,
    0 :> Sector(rootF, 0) @@ 1 :> Sector(rootF, SS) @@ 3 :> Old(0))
OnFat == [attr |-> "file", stat |-> 0, clus |-> 5, size |-> 6, name |-> "b"]
rootD == Entry("d", "dir", 4, bcs) \o EntrySet(OnFat)
inD   == Entry("c", "file", 0, 0)
Beside == VolumeEx({2, 3, 4, 5, 7}, 2 :> 3 @@ 3 :> EOC @@ 5 :> 7 @@ 7 :> EOC,
    0 :> Sector(rootD, 0) @@ 1 :> Sector(rootD, SS) @@ 2 :> Sector(inD, 0)
    @@ 3 :> Old(0) @@ 5 :> Old(SS))
DisksEx == {Scattered, Beside}
==============================================================================
