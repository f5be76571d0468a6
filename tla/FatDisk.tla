------------------------------- MODULE FatDisk -------------------------------
(***************************************************************************)
(* The lowest layer of fat/FatFs.cpp: the drive behind disk_read and       *)
(* disk_write (declared in fat/IO.hpp, implemented outside the library),   *)
(* the one-sector disk access window of the volume and sync_fs.            *)
(*                                                                         *)
(* A call of the API runs under the volume lock, so it is one step.  What  *)
(* can fall inside it is a failing transfer or the loss of power, at any   *)
(* transfer: a call is a function from a record  s  to a record, where     *)
(*   disk                  what the drive holds, sector by sector          *)
(*   win, winsect, wflag   the window, the sector it shows, whether dirty  *)
(*   free_clst, last_clst, fsi_flag, fs_type     the rest of FATFS         *)
(*   files                 the table of open objects (FF_FS_LOCK entries)  *)
(*   obj, dp, fp, dirbuf   the object, directory position, file and exFAT  *)
(*                         entry set that the call works on                *)
(*   io                    transfers left until the one that fails (1: the *)
(*                         next; never, when it starts at 0)               *)
(*   power, dead           the failure is a loss of power; it has happened *)
(*   res, val              FRESULT and the cluster value last returned     *)
(***************************************************************************)
EXTENDS Integers, Sequences, FiniteSets

CONSTANTS
    FsType,      \* "FAT32" or "EXFAT"
    NClusters,   \* clusters of the volume, numbered from 2
    SS,          \* units in a sector: a unit is a directory slot or a datum
    CSize,       \* sectors in a cluster
    FatPerSect,  \* FAT entries in a sector
    Boots        \* what check_fs finds in sector 0 and, if that is a partition
                 \* table, at the start of each partition: 0 FAT, 1 exFAT, 2 another
                 \* boot record, 3 no boot record, or NoPartition

NoPartition == 5

Ex       == FsType = "EXFAT"
n_fatent == NClusters + 2
Clusters == 2 .. NClusters + 1

\* Values of a FAT entry or of a chain function beside a cluster number.
EOC     == 98
DiskErr == 99
\* 0xFFFFFFFF in free_clst and last_clst.
Unknown == 99

\* The contents of FSInfo: entry 0 is the count, entry 1 the last cluster.
FsInfo(free, last) == [i \in 0 .. 1 |-> IF i = 0 THEN free ELSE last]

NoSect   == <<"none", 0>>
FatSect(c) == <<"fat", c \div FatPerSect>>
InfoSect == <<"info", 0>>      \* FSInfo (FAT32) or the boot record (exFAT)
MapSect  == <<"map", 0>>       \* the allocation bitmap (exFAT)

\* TLC computes x once for all its uses in Op; Then goes on only after success.
Given(x, Op(_)) == Op(x)
Then(s, Op(_))  == IF s.res = "OK" THEN Op(s) ELSE s
Fail(s, r)     == [s EXCEPT !.res = r]

-----------------------------------------------------------------------------
\* One transfer: it fails when its turn has come, and every later one too
\* once the power is gone.
IoFails(s) == s.dead \/ s.io = 1
IoDone(s)  == [s EXCEPT !.io   = @ - 1,
                        !.dead = @ \/ (s.io = 1 /\ s.power)]

disk_write(s, sect, content) ==
    IF IoFails(s) THEN Fail(IoDone(s), "DISK_ERR")
                  ELSE [IoDone(s) EXCEPT !.disk[sect] = content]

\* disk_ioctl(CTRL_SYNC), and a transfer whose data the model leaves out.
disk_touch(s) == IF IoFails(s) THEN Fail(IoDone(s), "DISK_ERR") ELSE IoDone(s)

\* An error of a call that does not look at the result.
Ignore(s) == [s EXCEPT !.res = "OK"]

clst2sect(c) == <<"data", (c - 2) * CSize>>
SectPlus(sect, n) == <<sect[1], sect[2] + n>>

sync_window(s) ==
    IF ~s.wflag THEN s
    ELSE Then(disk_write(s, s.winsect, s.win),
              LAMBDA t : [t EXCEPT !.wflag = FALSE])

move_window(s, sect) ==
    IF sect = s.winsect THEN s
    ELSE Then(sync_window(s), LAMBDA t :
           IF IoFails(t)
           THEN [Fail(IoDone(t), "DISK_ERR") EXCEPT !.winsect = NoSect]
           ELSE [IoDone(t) EXCEPT !.win = t.disk[sect], !.winsect = sect])

\* FAT32 rewrites FSInfo when the allocation changed, exFAT only reads the
\* boot record for its percentage; neither looks at the result.
WriteInfo(s) == Ignore(IF Ex THEN disk_touch(s) ELSE disk_write(s, InfoSect, s.win))
SyncInfo(s) ==
    IF s.fsi_flag # 1 THEN s
    ELSE WriteInfo([s EXCEPT !.fsi_flag = 0, !.winsect = InfoSect,
                             !.win = FsInfo(s.free_clst, s.last_clst)])
sync_fs(s) == Then(sync_window(s), LAMBDA t : disk_touch(SyncInfo(t)))
==============================================================================
