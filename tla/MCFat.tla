-------------------------------- MODULE MCFat --------------------------------
(***************************************************************************)
(* The file system on the FAT32 volumes and on the exFAT volumes of        *)
(* FatVolumes.                                                             *)
(***************************************************************************)
EXTENDS Naturals

CONSTANTS NClusters, CSize, FatPerSect, Versions, Kinds, MaxCalls, FaultCalls, Faults
VARIABLES part, disk, vol, files, fil, calls, faults, intact, loose, kept, shown

ASSUME {NClusters, CSize, FatPerSect} \subseteq Nat \ {0}

FatNames == {<<"a">>, <<"d">>, <<"d", "a">>}
FatMoves == {<< <<"a">>, <<"d", "a">> >>, << <<"d">>, <<"c", "d">> >>}
FatPaths == FatNames \cup {<<"c">>, <<"c", "d">>, <<"c", "d", "a">>}
FatModes == {[r |-> TRUE, w |-> TRUE, how |-> "open"],
            [r |-> FALSE, w |-> TRUE, how |-> "always"]}

ExNames == {<<"b">>, <<"d">>, <<"d", "a">>}
ExMoves == {<< <<"b">>, <<"d", "a">> >>, << <<"d">>, <<"e">> >>}
ExPaths == ExNames \cup {<<"d", "c">>, <<"e">>, <<"e", "a">>, <<"e", "c">>}
ExModes == {[r |-> TRUE, w |-> TRUE, how |-> "append"],
            [r |-> TRUE, w |-> TRUE, how |-> "always"]}

\* Another boot record in the first partition, no second one, FAT32 in the third.
Partitioned == <<2, 2, 5, 0, 3>>
Volumes32 == INSTANCE FatVolumes WITH
               FsType <- "FAT32", SS <- 2, LongNames <- {"a"}, Boots <- Partitioned
Fat == INSTANCE FatFs WITH
         FsType <- "FAT32", SS <- 2, LongNames <- {"a"}, Boots <- Partitioned,
         Disks <- Volumes32!Disks32, Paths <- FatPaths, Names <- FatNames, Moves <- FatMoves,
         OpenModes <- FatModes, Lengths <- {1, 3}, Places <- {0, 3}

VolumesEx == INSTANCE FatVolumes WITH FsType <- "EXFAT", SS <- 4, LongNames <- {}, Boots <- <<1>>
XFat == INSTANCE FatFs WITH
         FsType <- "EXFAT", SS <- 4, LongNames <- {}, Boots <- <<1>>,
         Disks <- VolumesEx!DisksEx, Paths <- ExPaths, Names <- ExNames, Moves <- ExMoves,
         OpenModes <- ExModes, Lengths <- {9}, Places <- {5}

VolumesInit == \/ part = "FAT32" /\ Fat!Init
               \/ part = "EXFAT" /\ XFat!Init

VolumesNext == /\ \/ part = "FAT32" /\ Fat!Next
                  \/ part = "EXFAT" /\ XFat!Next
               /\ UNCHANGED part

VolumesSpec == VolumesInit /\ [][VolumesNext]_<<part, Fat!vars>>

\* The properties of FatFs, on the volumes of either format; see there.

\* No cluster belongs to two objects, and chains end (remove_chain, create_chain,
\* dir_register, f_open, whatever fails).
NoCrossLink == IF part = "FAT32" THEN Fat!NoCrossLink ELSE XFat!NoCrossLink

\* No cluster is lost, and the free count is right (put_fat, change_bitmap).
AllocationExact == IF part = "FAT32" THEN Fat!AllocationExact ELSE XFat!AllocationExact

\* What a call has returned OK for stays on the drive (f_sync, f_unlink, ...).
Kept == IF part = "FAT32" THEN Fat!Kept ELSE XFat!Kept

\* f_read returns what the file holds.
ReadsBack == IF part = "FAT32" THEN Fat!ReadsBack ELSE XFat!ReadsBack

\* Without a fault, every call is a step of the abstract store.
ImplementsFileStore ==
  /\ IF part = "FAT32" THEN Fat!Store!Init ELSE XFat!Store!Init
  /\ [][part = "FAT32" /\ intact' => Fat!Store!Next]_shown
  /\ [][part = "EXFAT" /\ intact' => XFat!Store!Next]_shown
==============================================================================
