------------------------------- MODULE FatLock -------------------------------
(***************************************************************************)
(* How the tasks that call fat/FatFs.cpp share its volumes: the mutex of a *)
(* volume, the system mutex that protects the table of open files, the     *)
(* table itself (FF_FS_LOCK), and the mount that a file object is tested   *)
(* against.  What a call does on the drive is in module FatFs; here it is  *)
(* the steps between which another task may come.                          *)
(*                                                                         *)
(* f_mount is not here: it must not run beside other calls ("always not    *)
(* re-entrant", Config.hpp:301).  A volume is mounted again without it     *)
(* when its drive was lost and comes back.                                 *)
(***************************************************************************)
EXTENDS Integers, FiniteSets

CONSTANTS Task, Volume,
          System,     \* the id of the system mutex, FF_VOLUMES
          Null,
          File,       \* the files: an entry's position on a volume
          VolumeOf,   \* the volume of each file
          Slots,      \* FF_FS_LOCK
          MaxMounts   \* bound on Fsid

ASSUME FatLockAssumption ==
  /\ System \notin Volume
  /\ Null \notin Task \cup Volume \cup File
  /\ VolumeOf \in [File -> Volume]
  /\ Slots \in Nat
  /\ IsFiniteSet(Task)

VARIABLES
  mutex,          \* who was given each ff_mutex
  SysLock, SysLockVolume,
  Files,          \* the table of open files
  fs,             \* fs_type and id of each volume's FATFS
  Fsid,
  noinit,         \* STA_NOINIT of each volume's drive
  obj,            \* the FIL of each task
  call,           \* the call that each task is in
  stale           \* history: a call used an object of an earlier mount

vars == <<mutex, SysLock, SysLockVolume, Files, fs, Fsid, noinit, obj, call, stale>>

locks == <<mutex, SysLock, SysLockVolume>>
mounts == <<fs, Fsid, noinit>>

Slot == 1..Slots
NoEntry == [file |-> Null, ctr |-> 0]
Writing == 256                               \* ctr of a file open for writing
NoFile == [file |-> Null, id |-> 0, lockid |-> 0, write |-> FALSE]

\* at: where the task is; op: the function it called; file: what it works on;
\* write: whether it needs the file for itself.
NoCall == [at |-> "idle", op |-> "none", file |-> Null, write |-> FALSE]

\* Every volume has been registered by f_mount, and is mounted when it is used.
Init ==
  /\ mutex = [m \in Volume \cup {System} |-> Null]
  /\ SysLock = 1
  /\ SysLockVolume \in Volume
  /\ Files = [i \in Slot |-> NoEntry]
  /\ fs = [v \in Volume |-> [type |-> FALSE, id |-> 0]]
  /\ Fsid = 0
  /\ noinit = [v \in Volume |-> TRUE]
  /\ obj = [t \in Task |-> NoFile]
  /\ call = [t \in Task |-> NoCall]
  /\ stale = FALSE

\* The volume a call works on.
Vol(t) == VolumeOf[call[t].file]

\* Whether lock_volume is asked for the system: by mount_volume, not validate.
syslock(t) == call[t].op \in {"f_open", "f_unlink"}

At(t, place) == call[t].at = place
Goto(t, place) == call' = [call EXCEPT ![t].at = place]

-----------------------------------------------------------------------------
(* lock_volume and unlock_volume.  ff_mutex_give frees the mutex, whoever  *)
(* calls it.                                                               *)

TakeVolume(t) ==
  /\ At(t, "take")
  /\ mutex[Vol(t)] = Null
  /\ mutex' = [mutex EXCEPT ![Vol(t)] = t]
  /\ Goto(t, IF syslock(t) THEN "takesys" ELSE "status")
  /\ UNCHANGED <<SysLock, SysLockVolume, Files, mounts, obj, stale>>

\* Mutant: whether the system was taken is not looked at.
TakeSystemAnyway(t) ==
  /\ At(t, "takesys")
  /\ mutex' = [mutex EXCEPT ![System] = t]
  /\ SysLockVolume' = Vol(t)
  /\ Goto(t, "mark")
  /\ UNCHANGED <<SysLock, Files, mounts, obj, stale>>

\* The order of the two assignments of lock_volume matters to unlock_volume.
TakeSystem(t) ==
  /\ At(t, "takesys")
  /\ mutex[System] = Null
  /\ mutex' = [mutex EXCEPT ![System] = t]
  /\ SysLockVolume' = Vol(t)
  /\ Goto(t, "mark")
  /\ UNCHANGED <<SysLock, Files, mounts, obj, stale>>

MarkSystem(t) ==
  /\ At(t, "mark")
  /\ SysLock' = 2
  /\ Goto(t, "mount")
  /\ UNCHANGED <<mutex, SysLockVolume, Files, mounts, obj, stale>>

\* Either mutex times out; the call returns FR_TIMEOUT.
TimesOut(t) ==
  /\ \/ At(t, "take") /\ UNCHANGED mutex
     \/ At(t, "takesys") /\ mutex' = [mutex EXCEPT ![Vol(t)] = Null]
  /\ call' = [call EXCEPT ![t] = NoCall]
  /\ UNCHANGED <<SysLock, SysLockVolume, Files, mounts, obj, stale>>

\* Mutant: whoever unlocks a volume unlocks the system.
UnlockAnySystem(t) ==
  /\ At(t, "unlock")
  /\ IF SysLock = 2
     THEN SysLock' = 1 /\ Goto(t, "givesys")
     ELSE UNCHANGED SysLock /\ Goto(t, "give")
  /\ UNCHANGED <<mutex, SysLockVolume, Files, mounts, obj, stale>>

\* Mutant: the system stays locked.
UnlockVolumeOnly(t) ==
  /\ At(t, "unlock")
  /\ Goto(t, "give")
  /\ UNCHANGED <<locks, Files, mounts, obj, stale>>

\* "Unlock system if it has been locked by this task"
UnlockSystem(t) ==
  /\ At(t, "unlock")
  /\ IF SysLock = 2 /\ SysLockVolume = Vol(t)
     THEN SysLock' = 1 /\ Goto(t, "givesys")
     ELSE UNCHANGED SysLock /\ Goto(t, "give")
  /\ UNCHANGED <<mutex, SysLockVolume, Files, mounts, obj, stale>>

GiveSystem(t) ==
  /\ At(t, "givesys")
  /\ mutex' = [mutex EXCEPT ![System] = Null]
  /\ Goto(t, "give")
  /\ UNCHANGED <<SysLock, SysLockVolume, Files, mounts, obj, stale>>

\* The end of a call, and of the f_sync that f_close begins with.
GiveVolume(t) ==
  /\ At(t, "give")
  /\ mutex' = [mutex EXCEPT ![Vol(t)] = Null]
  /\ call' = [call EXCEPT ![t] = IF @.op = "f_sync of f_close"
                                 THEN [@ EXCEPT !.op = "f_close", !.at = "validate"]
                                 ELSE NoCall]
  /\ UNCHANGED <<SysLock, SysLockVolume, Files, mounts, obj, stale>>

-----------------------------------------------------------------------------
(* The calls with a path: f_open and f_unlink.                             *)

CallPath(t) ==
  /\ At(t, "idle")
  /\ \E f \in File, w \in BOOLEAN :
       \E op \in IF w THEN {"f_open", "f_unlink"} ELSE {"f_open"} :
         /\ op = "f_open" => obj[t] = NoFile
         /\ call' = [call EXCEPT ![t] =
              [at |-> "take", op |-> op, file |-> f, write |-> w]]
  /\ UNCHANGED <<locks, Files, mounts, obj, stale>>

\* clear_share
Cleared(v) == [i \in Slot |-> IF Files[i].file # Null /\ VolumeOf[Files[i].file] = v
                              THEN NoEntry ELSE Files[i]]

\* mount_volume once it has its locks: a volume in use stays mounted while its
\* drive is initialized; otherwise it is invalid until it has been read again.
mount_volume(t) ==
  LET v == Vol(t)
  IN  /\ At(t, "mount")
      /\ IF fs[v].type /\ ~noinit[v]
         THEN /\ Goto(t, "check")
              /\ UNCHANGED mounts
         ELSE /\ fs' = [fs EXCEPT ![v].type = FALSE]
              /\ \/ Goto(t, "unlock") /\ UNCHANGED <<Fsid, noinit>>
                 \/ /\ Fsid < MaxMounts
                    /\ noinit' = [noinit EXCEPT ![v] = FALSE]
                    /\ Goto(t, "read")
                    /\ UNCHANGED Fsid
      /\ UNCHANGED <<locks, Files, obj, stale>>

\* "the filesystem object gets valid", while its id is still the former one.
SetType(t) ==
  /\ At(t, "read")
  /\ fs' = [fs EXCEPT ![Vol(t)].type = TRUE]
  /\ Goto(t, "typed")
  /\ UNCHANGED <<locks, Files, Fsid, noinit, obj, stale>>

SetId(t) ==
  /\ At(t, "typed")
  /\ Fsid' = Fsid + 1
  /\ fs' = [fs EXCEPT ![Vol(t)].id = Fsid + 1]
  /\ Files' = Cleared(Vol(t))
  /\ Goto(t, "check")
  /\ UNCHANGED <<locks, noinit, obj, stale>>

Min(S) == CHOOSE i \in S : \A j \in S : i <= j
Entries(f) == {i \in Slot : Files[i].file = f}

\* chk_share: whether t may open its file, or remove it.
chk_share(t) ==
  LET own == Entries(call[t].file)
  IN  IF own = {}
      THEN call[t].op = "f_open" => Entries(Null) # {}
      ELSE ~call[t].write /\ \A i \in own : Files[i].ctr # Writing

\* The path has been followed.  It may fail to be found, and the check to
\* allow it.
Check(t) ==
  /\ At(t, "check")
  /\ \/ chk_share(t) /\ Goto(t, "found")
     \/ Goto(t, "unlock")
  /\ UNCHANGED <<locks, Files, mounts, obj, stale>>

\* inc_share, after f_open has read or written the entry.  It returns 0, which
\* is FR_INT_ERR, when what chk_share allowed is no longer so.
inc_share(t) ==
  LET f == call[t].file
      own == Entries(f)
      fit == IF own # {} THEN own ELSE Entries(Null)
      i == Min(fit)
  IN  /\ At(t, "found") /\ call[t].op = "f_open"
      /\ IF fit = {} \/ (call[t].write /\ own # {} /\ Files[i].ctr # 0)
         THEN UNCHANGED <<Files, obj>> /\ Goto(t, "unlock")
         ELSE /\ Files' = [Files EXCEPT ![i] =
                   [file |-> f,
                    ctr |-> IF call[t].write THEN Writing
                            ELSE IF own # {} THEN @.ctr + 1 ELSE 1]]
              /\ obj' = [obj EXCEPT ![t] =
                   [file |-> f, id |-> fs[Vol(t)].id, lockid |-> i,
                    write |-> call[t].write]]
              /\ Goto(t, "opened")
      /\ UNCHANGED <<locks, mounts, stale>>

\* The drive fails before that.
OpenFails(t) ==
  /\ At(t, "found") /\ call[t].op = "f_open"
  /\ Goto(t, "unlock")
  /\ UNCHANGED <<locks, Files, mounts, obj, stale>>

\* The file is open, or its first seek has failed and f_open gives the entry
\* back.
Opened(t) ==
  /\ At(t, "opened")
  /\ Goto(t, "unlock") \/ Goto(t, "release")
  /\ UNCHANGED <<locks, Files, mounts, obj, stale>>

\* f_unlink removes the entry that it has checked.
Remove(t) ==
  /\ At(t, "found") /\ call[t].op = "f_unlink"
  /\ Goto(t, "unlock")
  /\ UNCHANGED <<locks, Files, mounts, obj, stale>>

-----------------------------------------------------------------------------
(* The calls on an open file: f_sync stands for those that read and write. *)

CallFile(t) ==
  /\ At(t, "idle") /\ obj[t] # NoFile
  /\ \E op \in {"f_sync", "f_sync of f_close"} :
       call' = [call EXCEPT ![t] =
         [at |-> "validate", op |-> op, file |-> obj[t].file, write |-> FALSE]]
  /\ UNCHANGED <<locks, Files, mounts, obj, stale>>

\* A task whose file is of no use to it any more clears the FIL.
Forget(t) ==
  /\ At(t, "idle") /\ obj[t] # NoFile
  /\ obj[t].id # fs[VolumeOf[obj[t].file]].id
  /\ obj' = [obj EXCEPT ![t] = NoFile]
  /\ UNCHANGED <<locks, Files, mounts, call, stale>>

\* Whether an object belongs to the volume as it is mounted.
Valid(o) == LET v == VolumeOf[o.file] IN fs[v].type /\ o.id = fs[v].id

\* validate tests the object before it asks for the volume,
validate(t) ==
  /\ At(t, "validate")
  /\ IF Valid(obj[t])
     THEN Goto(t, "take")
     ELSE call' = [call EXCEPT ![t] = NoCall]
  /\ UNCHANGED <<locks, Files, mounts, obj, stale>>

\* and the drive once it has it.
disk_status(t) ==
  /\ At(t, "status")
  /\ IF noinit[Vol(t)]
     THEN /\ call' = [call EXCEPT ![t].at = "unlock", ![t].op = "f_sync"]
          /\ UNCHANGED stale
     ELSE /\ Goto(t, IF call[t].op = "f_close" THEN "release" ELSE "use")
          /\ stale' = (stale \/ ~Valid(obj[t]))
  /\ UNCHANGED <<locks, Files, mounts, obj>>

\* What is done with the file; an error of the f_sync of f_close ends that too.
Use(t) ==
  /\ At(t, "use")
  /\ \/ Goto(t, "unlock")
     \/ call' = [call EXCEPT ![t].at = "unlock", ![t].op = "f_sync"]
  /\ UNCHANGED <<locks, Files, mounts, obj, stale>>

\* What dec_share leaves of a count.
Less(n) == IF n \in {0, Writing} THEN 0 ELSE n - 1

\* Mutant: the first reader that closes frees the entry.
DecShareFrees(t) ==
  LET i == obj[t].lockid
  IN  /\ At(t, "release")
      /\ Files' = [Files EXCEPT ![i].ctr = Less(@)]
      /\ Goto(t, "erase")
      /\ UNCHANGED <<locks, mounts, obj, stale>>

\* dec_share writes the count, and then the entry if none is left.  f_close does
\* so without the system mutex.
dec_share(t) ==
  LET i == obj[t].lockid
      n == Less(Files[i].ctr)
  IN  /\ At(t, "release")
      /\ Files' = [Files EXCEPT ![i].ctr = n]
      /\ Goto(t, IF n = 0 THEN "erase" ELSE "closed")
      /\ UNCHANGED <<locks, mounts, obj, stale>>

EraseEntry(t) ==
  /\ At(t, "erase")
  /\ Files' = [Files EXCEPT ![obj[t].lockid].file = Null]
  /\ Goto(t, "closed")
  /\ UNCHANGED <<locks, mounts, obj, stale>>

Closed(t) ==
  /\ At(t, "closed")
  /\ obj' = [obj EXCEPT ![t] = NoFile]
  /\ Goto(t, "unlock")
  /\ UNCHANGED <<locks, Files, mounts, stale>>

\* The medium is taken out, or the drive fails: external.
Eject(v) ==
  /\ ~noinit[v] /\ Fsid < MaxMounts
  /\ noinit' = [noinit EXCEPT ![v] = TRUE]
  /\ UNCHANGED <<locks, Files, fs, Fsid, obj, call, stale>>

-----------------------------------------------------------------------------
InCall(t) ==
  \/ TakeVolume(t) \/ TakeSystem(t) \/ MarkSystem(t)
  \/ UnlockSystem(t) \/ GiveSystem(t) \/ GiveVolume(t)
  \/ mount_volume(t) \/ SetType(t) \/ SetId(t) \/ Check(t)
  \/ inc_share(t) \/ OpenFails(t) \/ Opened(t) \/ Remove(t)
  \/ validate(t) \/ disk_status(t) \/ Use(t)
  \/ dec_share(t) \/ EraseEntry(t) \/ Closed(t)

Next ==
  \/ \E t \in Task : InCall(t) \/ TimesOut(t) \/ CallPath(t) \/ CallFile(t) \/ Forget(t)
  \/ \E v \in Volume : Eject(v)

Spec == Init /\ [][Next]_vars

-----------------------------------------------------------------------------
\* Where a task holds the mutex of its volume, and where that of the system.
HoldsSystem(t) ==
  /\ syslock(t)
  /\ call[t].at \notin {"idle", "take", "takesys", "give"}
HoldsVolume(t) ==
  \/ HoldsSystem(t)
  \/ call[t].at \in {"takesys", "give"}
  \/ ~syslock(t) /\ call[t].at \notin {"idle", "validate", "take"}

(***************************************************************************)
(* "Request/Release grant to access the volume" (FatFs.cpp:897): one task  *)
(* at a time is inside a volume, and one of all that have mounted a volume *)
(* is between lock_volume and unlock_volume.  unlock_volume guesses from   *)
(* SysLock and SysLockVolume, which others write, whether the system mutex *)
(* is its own (FatFs.cpp:934).                                             *)
(***************************************************************************)
OneInside ==
  \A t, u \in Task :
    t # u => /\ ~(HoldsSystem(t) /\ HoldsSystem(u))
             /\ HoldsVolume(t) /\ HoldsVolume(u) => Vol(t) # Vol(u)

(***************************************************************************)
(* No path through a call leaves a lock behind: a mutex that is taken is   *)
(* one that a task inside a call holds and will give back, and SysLock is  *)
(* 2 only while its volume's mutex and the system mutex have one holder    *)
(* (FatFs.cpp:901-940).                                                    *)
(***************************************************************************)
NoLockLeft ==
  /\ \A v \in Volume :
       mutex[v] # Null => \E t \in Task : mutex[v] = t /\ HoldsVolume(t) /\ Vol(t) = v
  /\ mutex[System] # Null => \E t \in Task : mutex[System] = t /\ HoldsSystem(t)
  /\ SysLock = 2 => mutex[System] # Null /\ mutex[SysLockVolume] = mutex[System]

(***************************************************************************)
(* What chk_share allowed is still allowed when the entry is written or    *)
(* removed: inc_share never refuses ("Internal error", FatFs.cpp:988), and *)
(* f_unlink does not remove a file that was opened in between, although    *)
(* f_close changes the table without the system mutex (FatFs.cpp:1033).    *)
(***************************************************************************)
CheckStillHolds == \A t \in Task : At(t, "found") => chk_share(t)

\* The tasks whose open file has slot i.
Users(i) ==
  {t \in Task : /\ obj[t].lockid = i
                /\ obj[t].id = fs[VolumeOf[obj[t].file]].id
                /\ call[t].at \notin {"erase", "closed"}}

(***************************************************************************)
(* An entry of the table counts the objects that are open on its file, a   *)
(* writer is alone, and an entry that nobody uses is blank: a closed file  *)
(* does not keep others from opening theirs (FatFs.cpp:952-1052).  Unless  *)
(* a call used an object of an earlier mount (stale, FatFs.cpp:3708).      *)
(***************************************************************************)
EntriesMatch ==
  ~stale =>
    \A i \in Slot :
      /\ \A t \in Users(i) : obj[t].file = Files[i].file
      /\ IF \E t \in Users(i) : obj[t].write
         THEN Cardinality(Users(i)) = 1 /\ Files[i].ctr = Writing
         ELSE Files[i].ctr = Cardinality(Users(i))
      /\ Files[i].ctr = 0 =>
           Files[i].file = Null \/ \E t \in Task : At(t, "erase") /\ obj[t].lockid = i

=============================================================================
