---------------------------- MODULE FatLock_proofs ----------------------------
(***************************************************************************)
(* For any number of tasks, volumes, files and table entries: one task at  *)
(* a time is inside a volume, and no lock is left behind.  The invariant   *)
(* (LockInv) says which mutex belongs to whom at every place of a call,    *)
(* and that SysLock and SysLockVolume, which unlock_volume asks, tell      *)
(* exactly that.                                                           *)
(*                                                                         *)
(* On that rest two more, about the table of open files: what chk_share    *)
(* allowed holds until it is used (CheckInv), and an entry counts the      *)
(* files that are open (ShareInv, with fewer tasks than Writing).          *)
(***************************************************************************)
EXTENDS FatLock, FiniteSetTheorems, WellFoundedInduction, TLAPS

\* The places of a call with a path, of a call on a file, and of both.
PathPlaces ==
  {"takesys", "mark", "mount", "read", "typed", "check", "found", "opened", "givesys"}
FilePlaces == {"validate", "status", "use"}
BothPlaces == {"idle", "take", "release", "erase", "closed", "unlock", "give"}

\* Where a call has its locks and neither takes nor gives one.
Inside ==
  {"mount", "read", "typed", "check", "found", "opened", "release", "erase",
   "closed", "status", "use", "unlock"}

Ops == {"none", "f_open", "f_unlink", "f_sync", "f_sync of f_close", "f_close"}
Calls == [at : PathPlaces \cup FilePlaces \cup BothPlaces, op : Ops,
          file : File \cup {Null}, write : BOOLEAN]

LockTypes ==
  /\ mutex \in [Volume \cup {System} -> Task \cup {Null}]
  /\ SysLock \in {1, 2}
  /\ SysLockVolume \in Volume
  /\ call \in [Task -> Calls]
  /\ obj = [t \in Task |-> obj[t]]

\* A FIL is blank or names a file.
FileOK(t) == obj[t] = NoFile \/ obj[t].file \in File

\* What is so of a task t.
CallOK(t) ==
  /\ ~At(t, "idle") => call[t].file \in File
  /\ call[t].at \in PathPlaces => syslock(t)
  /\ call[t].at \in FilePlaces => ~syslock(t)
  /\ FileOK(t)

OwnsLocks(t) ==
  /\ HoldsVolume(t) => mutex[Vol(t)] = t
  /\ HoldsSystem(t) => mutex[System] = t
  /\ HoldsSystem(t) => SysLockVolume = Vol(t)
  /\ HoldsSystem(t) /\ call[t].at \notin {"mark", "givesys"} => SysLock = 2

\* What is so of a mutex that is taken.
VolumeOwned(v) ==
  mutex[v] # Null => HoldsVolume(mutex[v]) /\ Vol(mutex[v]) = v
SystemOwned == mutex[System] # Null => HoldsSystem(mutex[System])
MarkOwned ==
  SysLock = 2 => /\ mutex[System] # Null
                 /\ call[mutex[System]].at \notin {"mark", "givesys"}

LockInv ==
  /\ LockTypes
  /\ \A t \in Task : CallOK(t) /\ OwnsLocks(t)
  /\ \A v \in Volume : VolumeOwned(v)
  /\ SystemOwned /\ MarkOwned

-----------------------------------------------------------------------------
LEMMA LockInit == Init => LockInv
<1> SUFFICES ASSUME Init PROVE LockInv
  OBVIOUS
<1>1. \A t \in Task : call[t] = NoCall
  BY DEF Init
<1>2. LockTypes
  BY FatLockAssumption
  DEF Init, LockTypes, Calls, NoCall, NoFile, Ops, PathPlaces, FilePlaces, BothPlaces
<1>3. \A t \in Task : CallOK(t)
  BY <1>1 DEF Init, CallOK, FileOK, At, NoCall, PathPlaces, FilePlaces
<1>4. \A t \in Task : OwnsLocks(t)
  BY <1>1 DEF OwnsLocks, HoldsVolume, HoldsSystem, syslock, NoCall
<1>5. (\A v \in Volume : VolumeOwned(v)) /\ SystemOwned /\ MarkOwned
  BY DEF Init, VolumeOwned, SystemOwned, MarkOwned
<1>6. QED BY <1>2, <1>3, <1>4, <1>5 DEF LockInv

\* t holds what it held, for the same volume.
SameHolds(t) ==
  /\ HoldsSystem(t)' <=> HoldsSystem(t)
  /\ HoldsVolume(t)' <=> HoldsVolume(t)
  /\ HoldsVolume(t) => Vol(t)' = Vol(t)
  /\ call'[t].at \in {"mark", "givesys"} <=> call[t].at \in {"mark", "givesys"}

LEMMA SystemNeedsVolume == \A t : HoldsSystem(t) => HoldsVolume(t)
BY DEF HoldsVolume

\* A step of t that touches no lock keeps the invariant.
LEMMA LocksUntouched ==
  ASSUME LockInv, NEW t \in Task, NEW c \in Calls,
         call' = [call EXCEPT ![t] = c], UNCHANGED locks,
         obj' = [u \in Task |-> obj'[u]], \A u \in Task : CallOK(u)', SameHolds(t)
  PROVE  LockInv'
<1>1. LockTypes /\ call'[t] = c /\ \A u \in Task \ {t} : call'[u] = call[u]
  BY DEF LockInv, LockTypes
<1>2. LockTypes'
  BY <1>1 DEF LockTypes, locks
<1>3. \A u \in Task \ {t} :
        /\ HoldsSystem(u)' <=> HoldsSystem(u)
        /\ HoldsVolume(u)' <=> HoldsVolume(u)
        /\ Vol(u)' = Vol(u)
        /\ call'[u] = call[u]
  BY <1>1 DEF HoldsSystem, HoldsVolume, syslock, Vol
<1>4. \A u \in Task :
        /\ HoldsSystem(u)' <=> HoldsSystem(u)
        /\ HoldsVolume(u)' <=> HoldsVolume(u)
        /\ HoldsVolume(u) => Vol(u)' = Vol(u)
        /\ call'[u].at \in {"mark", "givesys"} <=> call[u].at \in {"mark", "givesys"}
  BY <1>3 DEF SameHolds
<1>5. \A u \in Task : OwnsLocks(u)'
  BY <1>4, SystemNeedsVolume DEF LockInv, OwnsLocks, locks
<1>6. \A v \in Volume : VolumeOwned(v)'
  BY <1>1, <1>4 DEF LockInv, LockTypes, VolumeOwned, locks
<1>7. SystemOwned' /\ MarkOwned'
  BY <1>1, <1>4 DEF LockInv, LockTypes, SystemOwned, MarkOwned, locks
<1>8. QED BY <1>2, <1>5, <1>6, <1>7 DEF LockInv

\* Most steps go from one place inside a call to another.
LEMMA Onward ==
  ASSUME LockInv, NEW t \in Task, NEW p \in Inside, At(t, p), NEW q \in Inside,
         Goto(t, q), UNCHANGED locks,
         q \in PathPlaces => syslock(t), q \in FilePlaces => ~syslock(t),
         obj' = [u \in Task |-> obj'[u]], \A u \in Task : FileOK(u)'
  PROVE  LockInv'
<1> DEFINE c == [call[t] EXCEPT !.at = q]
<1>1. LockTypes /\ call[t] \in Calls /\ CallOK(t)
  BY DEF LockInv, LockTypes
<1>2. c \in Calls /\ call' = [call EXCEPT ![t] = c]
  BY <1>1 DEF Calls, Goto, Inside, PathPlaces, FilePlaces, BothPlaces
<1>3. /\ call'[t].at = q /\ call'[t].op = call[t].op /\ call'[t].file = call[t].file
      /\ \A u \in Task \ {t} : call'[u] = call[u]
  BY <1>1, <1>2 DEF LockTypes, Calls
<1>4. SameHolds(t)
  BY <1>3 DEF SameHolds, HoldsSystem, HoldsVolume, syslock, Vol, At, Inside
<1>5. CallOK(t)'
  BY <1>1, <1>3 DEF CallOK, syslock, At, Inside
<1>6. \A u \in Task \ {t} : CallOK(u)'
  BY <1>3 DEF LockInv, CallOK, syslock, At
<1>7. QED BY <1>2, <1>4, <1>5, <1>6, LocksUntouched

\* And most of those leave the FIL alone.
LEMMA OnwardSameFile ==
  ASSUME LockInv, NEW t \in Task, NEW p \in Inside, At(t, p), NEW q \in Inside,
         Goto(t, q), UNCHANGED locks, UNCHANGED obj,
         q \in PathPlaces => syslock(t), q \in FilePlaces => ~syslock(t)
  PROVE  LockInv'
<1>1. obj' = [u \in Task |-> obj'[u]] /\ \A u \in Task : FileOK(u)'
  BY DEF LockInv, LockTypes, CallOK, FileOK
<1>2. QED BY <1>1, Onward

LEMMA MountSteps ==
  ASSUME LockInv, NEW t \in Task, mount_volume(t) \/ SetType(t) \/ SetId(t) \/ Check(t)
  PROVE  LockInv'
<1> USE DEF mounts
<1>1. CallOK(t)
  BY DEF LockInv
<1>2. CASE mount_volume(t)
  <2>1. /\ At(t, "mount") /\ UNCHANGED <<locks, obj>>
        /\ Goto(t, "check") \/ Goto(t, "unlock") \/ Goto(t, "read")
    BY <1>2 DEF mount_volume
  <2>2. syslock(t)
    BY <1>1, <2>1 DEF CallOK, At, PathPlaces
  <2>3. QED BY <2>1, <2>2, OnwardSameFile DEF Inside, FilePlaces
<1>3. CASE SetType(t)
  <2>1. syslock(t)
    BY <1>1, <1>3 DEF CallOK, SetType, At, PathPlaces
  <2>2. QED BY <1>3, <2>1, OnwardSameFile DEF SetType, Inside, FilePlaces
<1>4. CASE SetId(t)
  <2>1. syslock(t)
    BY <1>1, <1>4 DEF CallOK, SetId, At, PathPlaces
  <2>2. QED BY <1>4, <2>1, OnwardSameFile DEF SetId, Inside, FilePlaces
<1>5. CASE Check(t)
  <2>1. syslock(t)
    BY <1>1, <1>5 DEF CallOK, Check, At, PathPlaces
  <2>2. QED BY <1>5, <2>1, OnwardSameFile DEF Check, Inside, FilePlaces
<1>6. QED BY <1>2, <1>3, <1>4, <1>5

LEMMA OpenSteps ==
  ASSUME LockInv, NEW t \in Task, OpenFails(t) \/ Opened(t) \/ Remove(t) \/ inc_share(t)
  PROVE  LockInv'
<1> USE DEF mounts
<1>1. CallOK(t) /\ LockTypes
  BY DEF LockInv
<1>2. CASE OpenFails(t) \/ Opened(t) \/ Remove(t)
  BY <1>2, OnwardSameFile
  DEF OpenFails, Opened, Remove, Inside, PathPlaces, FilePlaces
<1>3. CASE inc_share(t)
  <2>1. At(t, "found") /\ UNCHANGED locks
    BY <1>3 DEF inc_share
  <2>2. syslock(t) /\ call[t].file \in File
    BY <1>1, <2>1 DEF CallOK, At, PathPlaces
  <2>3. CASE UNCHANGED obj /\ Goto(t, "unlock")
    BY <2>1, <2>2, <2>3, OnwardSameFile DEF Inside, PathPlaces, FilePlaces
  <2>4. CASE ~(UNCHANGED obj /\ Goto(t, "unlock"))
    <3>1. PICK i : obj' = [obj EXCEPT ![t] =
                     [file |-> call[t].file, id |-> fs[Vol(t)].id, lockid |-> i,
                      write |-> call[t].write]]
      BY <1>3, <2>4 DEF inc_share
    <3>2. Goto(t, "opened")
      BY <1>3, <2>4 DEF inc_share
    <3>3. obj' = [u \in Task |-> obj'[u]] /\ \A u \in Task : FileOK(u)'
      BY <1>1, <2>2, <3>1 DEF LockInv, LockTypes, CallOK, FileOK
    <3>4. QED BY <2>1, <2>2, <3>2, <3>3, Onward DEF Inside, FilePlaces
  <2>5. QED BY <2>3, <2>4
<1>4. QED BY <1>2, <1>3

LEMMA CloseSteps ==
  ASSUME LockInv, NEW t \in Task, dec_share(t) \/ EraseEntry(t) \/ Closed(t)
  PROVE  LockInv'
<1> USE DEF mounts
<1>1. CASE dec_share(t) \/ EraseEntry(t)
  <2>1. PICK p \in {"release", "erase"}, q \in {"erase", "closed"} :
          At(t, p) /\ Goto(t, q) /\ UNCHANGED <<locks, obj>>
    BY <1>1 DEF dec_share, EraseEntry
  <2>2. QED BY <2>1, OnwardSameFile DEF Inside, PathPlaces, FilePlaces
<1>2. CASE Closed(t)
  <2>1. obj' = [u \in Task |-> obj'[u]] /\ \A u \in Task : FileOK(u)'
    BY <1>2 DEF Closed, LockInv, LockTypes, CallOK, FileOK
  <2>2. QED BY <1>2, <2>1, Onward DEF Closed, Inside, PathPlaces, FilePlaces
<1>3. QED BY <1>1, <1>2

\* A call on a file ends early by calling itself f_sync.
LEMMA UseSteps ==
  ASSUME LockInv, NEW t \in Task, disk_status(t) \/ Use(t)
  PROVE  LockInv'
<1> USE DEF mounts
<1> DEFINE c == [call[t] EXCEPT !.at = "unlock", !.op = "f_sync"]
<1>1. /\ LockTypes /\ call[t] \in Calls /\ CallOK(t)
      /\ call[t].at \in {"status", "use"} /\ UNCHANGED <<locks, obj>>
  BY DEF LockInv, LockTypes, disk_status, Use, At
<1>2. CASE \E q \in {"release", "use", "unlock"} : Goto(t, q)
  <2>1. PICK q \in {"release", "use", "unlock"} : Goto(t, q)
    BY <1>2
  <2>2. At(t, call[t].at) /\ call[t].at \in Inside /\ q \in Inside
    BY <1>1 DEF At, Inside
  <2>3. ~syslock(t) /\ q \notin PathPlaces
    BY <1>1 DEF CallOK, PathPlaces, FilePlaces
  <2>4. QED BY <1>1, <2>1, <2>2, <2>3, OnwardSameFile
<1>3. CASE call' = [call EXCEPT ![t] = c]
  <2>1. ~syslock(t)
    BY <1>1 DEF CallOK, FilePlaces
  <2>2. c \in Calls
    BY <1>1 DEF Calls, Ops, PathPlaces, FilePlaces, BothPlaces
  <2>3. /\ call'[t].at = "unlock" /\ call'[t].op = "f_sync" /\ call'[t].file = call[t].file
        /\ \A u \in Task \ {t} : call'[u] = call[u]
    BY <1>1, <1>3 DEF LockTypes, Calls
  <2>4. SameHolds(t)
    BY <1>1, <2>1, <2>3 DEF SameHolds, HoldsSystem, HoldsVolume, syslock, Vol
  <2>5. CallOK(t)'
    BY <1>1, <2>3 DEF CallOK, FileOK, syslock, At, PathPlaces, FilePlaces
  <2>6. \A u \in Task \ {t} : CallOK(u)'
    BY <1>1, <2>3 DEF LockInv, CallOK, FileOK, syslock, At
  <2>7. obj' = [u \in Task |-> obj'[u]]
    BY <1>1 DEF LockTypes
  <2>8. QED BY <1>1, <1>3, <2>2, <2>4, <2>5, <2>6, <2>7, LocksUntouched
<1>4. (\E q \in {"release", "use", "unlock"} : Goto(t, q)) \/ call' = [call EXCEPT ![t] = c]
  BY <1>1 DEF disk_status, Use, Goto, LockTypes
<1>5. QED BY <1>2, <1>3, <1>4

\* Before its first lock a task holds nothing.
LEMMA OuterStep ==
  ASSUME LockInv, NEW t \in Task, call[t].at \in {"idle", "validate", "take"},
         NEW c \in Calls, call' = [call EXCEPT ![t] = c], UNCHANGED <<locks, obj>>,
         c.at \in {"idle", "validate", "take"}, c.at = "idle" \/ c.file \in File,
         c.at = "validate" => c.op \notin {"f_open", "f_unlink"}
  PROVE  LockInv'
<1>1. LockTypes
  BY DEF LockInv
<1>2. call'[t] = c /\ \A u \in Task \ {t} : call'[u] = call[u]
  BY <1>1 DEF LockTypes
<1>3. SameHolds(t)
  <2>1. call[t].at = "validate" => ~syslock(t)
    BY DEF LockInv, CallOK, FilePlaces
  <2>2. ~HoldsSystem(t) /\ ~HoldsVolume(t) /\ ~HoldsSystem(t)' /\ ~HoldsVolume(t)'
    BY <1>2, <2>1 DEF HoldsSystem, HoldsVolume, syslock
  <2>3. QED BY <1>2, <2>2 DEF SameHolds
<1>4. CallOK(t)'
  BY <1>2 DEF LockInv, CallOK, FileOK, syslock, At, PathPlaces, FilePlaces
<1>5. \A u \in Task \ {t} : CallOK(u)'
  BY <1>2 DEF LockInv, CallOK, FileOK, syslock, At
<1>6. obj' = [u \in Task |-> obj'[u]]
  BY <1>1 DEF LockTypes
<1>7. QED BY <1>2, <1>3, <1>4, <1>5, <1>6, LocksUntouched

LEMMA CallSteps ==
  ASSUME LockInv, NEW t \in Task, CallPath(t) \/ CallFile(t) \/ validate(t)
  PROVE  LockInv'
<1> USE DEF mounts
<1>1. LockTypes /\ CallOK(t) /\ call[t] \in Calls
  BY DEF LockInv, LockTypes
<1>2. CASE CallPath(t)
  <2>1. PICK f \in File, w \in BOOLEAN, op \in {"f_open", "f_unlink"} :
          call' = [call EXCEPT ![t] = [at |-> "take", op |-> op, file |-> f, write |-> w]]
    BY <1>2 DEF CallPath
  <2>2. At(t, "idle") /\ UNCHANGED <<locks, obj>>
    BY <1>2 DEF CallPath
  <2>3. [at |-> "take", op |-> op, file |-> f, write |-> w] \in Calls
    BY DEF Calls, Ops, BothPlaces
  <2>4. QED BY <2>1, <2>2, <2>3, OuterStep DEF At
<1>3. CASE CallFile(t)
  <2>1. PICK op \in {"f_sync", "f_sync of f_close"} :
          call' = [call EXCEPT ![t] =
            [at |-> "validate", op |-> op, file |-> obj[t].file, write |-> FALSE]]
    BY <1>3 DEF CallFile
  <2>2. At(t, "idle") /\ UNCHANGED <<locks, obj>> /\ obj[t].file \in File
    BY <1>1, <1>3 DEF CallFile, CallOK, FileOK
  <2>3. [at |-> "validate", op |-> op, file |-> obj[t].file, write |-> FALSE] \in Calls
    BY <2>2 DEF Calls, Ops, FilePlaces
  <2>4. QED BY <2>1, <2>2, <2>3, OuterStep DEF At
<1>4. CASE validate(t)
  <2>1. At(t, "validate") /\ UNCHANGED <<locks, obj>>
    BY <1>4 DEF validate
  <2>2. CASE call' = [call EXCEPT ![t] = NoCall]
    <3>1. NoCall \in Calls /\ NoCall.at = "idle"
      BY DEF Calls, NoCall, Ops, BothPlaces
    <3>2. QED BY <2>1, <2>2, <3>1, OuterStep DEF At
  <2>3. CASE Goto(t, "take")
    <3>1. call' = [call EXCEPT ![t] = [call[t] EXCEPT !.at = "take"]]
      BY <1>1, <2>3 DEF Goto, LockTypes
    <3>2. /\ [call[t] EXCEPT !.at = "take"] \in Calls
          /\ [call[t] EXCEPT !.at = "take"].at = "take"
          /\ [call[t] EXCEPT !.at = "take"].file = call[t].file
      BY <1>1 DEF Calls, BothPlaces
    <3>3. call[t].file \in File
      BY <1>1, <2>1 DEF CallOK, At
    <3>4. QED BY <2>1, <3>1, <3>2, <3>3, OuterStep DEF At
  <2>4. QED BY <1>4, <2>2, <2>3 DEF validate
<1>5. QED BY <1>2, <1>3, <1>4

\* Steps in which no task moves.
LEMMA CallsUntouched ==
  ASSUME LockInv, UNCHANGED <<locks, call>>,
         obj' = [u \in Task |-> obj'[u]], \A u \in Task : FileOK(u)'
  PROVE  LockInv'
<1>1. \A u \in Task : CallOK(u)'
  BY DEF LockInv, CallOK, syslock, At
<1>2. \A u \in Task : OwnsLocks(u)'
  BY DEF LockInv, OwnsLocks, HoldsVolume, HoldsSystem, syslock, Vol, locks
<1>3. /\ \A v \in Volume : VolumeOwned(v)'
      /\ SystemOwned' /\ MarkOwned' /\ LockTypes'
  BY DEF LockInv, LockTypes, VolumeOwned, SystemOwned, MarkOwned, HoldsVolume,
         HoldsSystem, syslock, Vol, locks
<1>4. QED BY <1>1, <1>2, <1>3 DEF LockInv

LEMMA StillSteps ==
  ASSUME LockInv,
         (\E t \in Task : Forget(t)) \/ (\E v \in Volume : Eject(v)) \/ UNCHANGED vars
  PROVE  LockInv'
<1>1. CASE \E t \in Task : Forget(t)
  <2>1. obj' = [u \in Task |-> obj'[u]] /\ \A u \in Task : FileOK(u)'
    BY <1>1 DEF Forget, LockInv, LockTypes, CallOK, FileOK
  <2>2. QED BY <1>1, <2>1, CallsUntouched DEF Forget
<1>2. CASE (\E v \in Volume : Eject(v)) \/ UNCHANGED vars
  <2>1. UNCHANGED <<locks, call, obj>>
    BY <1>2 DEF Eject, vars, locks
  <2>2. obj' = [u \in Task |-> obj'[u]] /\ \A u \in Task : FileOK(u)'
    BY <2>1 DEF LockInv, LockTypes, CallOK, FileOK
  <2>3. QED BY <2>1, <2>2, CallsUntouched
<1>3. QED BY <1>1, <1>2

-----------------------------------------------------------------------------
(* The steps that take and give the mutexes.                               *)

\* Every other task stays as it is.
LEMMA Others ==
  ASSUME LockInv, NEW t \in Task, NEW c, call' = [call EXCEPT ![t] = c], UNCHANGED obj
  PROVE  /\ call'[t] = c
         /\ obj' = [u \in Task |-> obj'[u]]
         /\ \A u \in Task : FileOK(u)'
         /\ \A u \in Task \ {t} :
              /\ call'[u] = call[u] /\ CallOK(u)'
              /\ HoldsSystem(u)' <=> HoldsSystem(u)
              /\ HoldsVolume(u)' <=> HoldsVolume(u)
              /\ Vol(u)' = Vol(u)
BY DEF LockInv, LockTypes, CallOK, FileOK, syslock, At, HoldsSystem, HoldsVolume, Vol

LEMMA TakeVolumeStep ==
  ASSUME LockInv, NEW t \in Task, TakeVolume(t)
  PROVE  LockInv'
<1> DEFINE q == IF syslock(t) THEN "takesys" ELSE "status"
<1> DEFINE c == [call[t] EXCEPT !.at = q]
<1>1. /\ LockTypes /\ call[t] \in Calls /\ CallOK(t) /\ At(t, "take")
      /\ mutex[Vol(t)] = Null /\ mutex' = [mutex EXCEPT ![Vol(t)] = t]
      /\ UNCHANGED <<SysLock, SysLockVolume, obj>>
  BY DEF LockInv, LockTypes, TakeVolume, mounts
<1>2. call' = [call EXCEPT ![t] = c] /\ c \in Calls
  BY <1>1 DEF TakeVolume, Goto, LockTypes, Calls, PathPlaces, FilePlaces, BothPlaces
<1>3. c.at = q /\ c.op = call[t].op /\ c.file = call[t].file
  BY <1>1 DEF Calls
<1>4. Vol(t) \in Volume /\ Vol(t) # System /\ Null \notin Task
  BY <1>1, FatLockAssumption DEF CallOK, At, Vol
<1> HIDE DEF c
<1>5. call'[t] = c /\ Vol(t)' = Vol(t) /\ (syslock(t)' <=> syslock(t))
  BY <1>2, <1>3, Others, <1>1 DEF Vol, syslock
<1>6. HoldsVolume(t)' /\ ~HoldsSystem(t)'
  BY <1>3, <1>5 DEF HoldsVolume, HoldsSystem
<1>7. ~HoldsVolume(t) /\ ~HoldsSystem(t)
  BY <1>1 DEF HoldsVolume, HoldsSystem, At
<1>8. CallOK(t)'
  BY <1>1, <1>2, <1>3, <1>5, Others DEF CallOK, At, PathPlaces, FilePlaces
<1>9. \A u \in Task \ {t} :
        /\ call'[u] = call[u] /\ CallOK(u)' /\ Vol(u)' = Vol(u)
        /\ HoldsSystem(u)' <=> HoldsSystem(u)
        /\ HoldsVolume(u)' <=> HoldsVolume(u)
  BY <1>1, <1>2, Others
<1>10. \A u \in Task : OwnsLocks(u)'
  <2>1. OwnsLocks(t)'
    BY <1>1, <1>4, <1>5, <1>6 DEF OwnsLocks, LockTypes
  <2>2. ASSUME NEW u \in Task \ {t} PROVE OwnsLocks(u)'
    <3>1. HoldsVolume(u) => mutex[Vol(u)] = u /\ Vol(u) # Vol(t)
      BY <1>1, <1>4 DEF LockInv, OwnsLocks
    <3>2. HoldsVolume(u) => mutex'[Vol(u)] = u
      BY <1>1, <3>1 DEF LockTypes
    <3>3. mutex'[System] = mutex[System]
      BY <1>1, <1>4 DEF LockTypes
    <3>4. QED BY <1>1, <1>9, <3>2, <3>3 DEF LockInv, OwnsLocks
  <2>3. QED BY <2>1, <2>2
<1>11. \A v \in Volume : VolumeOwned(v)'
  BY <1>1, <1>4, <1>5, <1>6, <1>7, <1>9 DEF LockInv, LockTypes, VolumeOwned
<1>12. SystemOwned' /\ MarkOwned'
  <2>1. mutex'[System] = mutex[System] /\ mutex[System] # t
    BY <1>1, <1>4, <1>7 DEF LockInv, LockTypes, SystemOwned
  <2>2. QED BY <1>1, <1>9, <2>1 DEF LockInv, LockTypes, SystemOwned, MarkOwned
<1>13. LockTypes'
  BY <1>1, <1>2, Others DEF LockTypes
<1>14. QED BY <1>8, <1>9, <1>10, <1>11, <1>12, <1>13 DEF LockInv

LEMMA TakeSystemStep ==
  ASSUME LockInv, NEW t \in Task, TakeSystem(t)
  PROVE  LockInv'
<1> DEFINE c == [call[t] EXCEPT !.at = "mark"]
<1>1. /\ LockTypes /\ call[t] \in Calls /\ CallOK(t) /\ At(t, "takesys")
      /\ mutex[System] = Null /\ mutex' = [mutex EXCEPT ![System] = t]
      /\ SysLockVolume' = Vol(t) /\ UNCHANGED <<SysLock, obj>>
  BY DEF LockInv, LockTypes, TakeSystem, mounts
<1>2. call' = [call EXCEPT ![t] = c] /\ c \in Calls
  BY <1>1 DEF TakeSystem, Goto, LockTypes, Calls, PathPlaces
<1>3. c.at = "mark" /\ c.op = call[t].op /\ c.file = call[t].file
  BY <1>1 DEF Calls
<1>4. Vol(t) \in Volume /\ System \notin Volume /\ Null \notin Task
  BY <1>1, FatLockAssumption DEF CallOK, At, Vol
<1> HIDE DEF c
<1>5. call'[t] = c /\ Vol(t)' = Vol(t) /\ syslock(t)' /\ syslock(t)
  BY <1>2, <1>3, Others, <1>1 DEF Vol, syslock, CallOK, At, PathPlaces
<1>6. HoldsVolume(t)' /\ HoldsSystem(t)' /\ HoldsVolume(t)
  BY <1>1, <1>3, <1>5 DEF HoldsVolume, HoldsSystem, At
<1>7. CallOK(t)'
  BY <1>1, <1>2, <1>3, <1>5, Others DEF CallOK, At, PathPlaces, FilePlaces
<1>8. \A u \in Task \ {t} :
        /\ call'[u] = call[u] /\ CallOK(u)' /\ Vol(u)' = Vol(u)
        /\ ~HoldsSystem(u) /\ ~HoldsSystem(u)'
        /\ HoldsVolume(u)' <=> HoldsVolume(u)
  BY <1>1, <1>2, <1>4, Others DEF LockInv, OwnsLocks
<1>9. mutex'[System] = t /\ \A v \in Volume : mutex'[v] = mutex[v]
  BY <1>1, <1>4 DEF LockTypes
<1>10. SysLock = 1
  BY <1>1 DEF LockInv, LockTypes, MarkOwned
<1>11. \A u \in Task : HoldsVolume(u) => Vol(u) \in Volume
  BY FatLockAssumption DEF LockInv, CallOK, At, Vol, HoldsVolume, HoldsSystem
<1>12. \A u \in Task : OwnsLocks(u)'
  <2>1. OwnsLocks(t)'
    BY <1>1, <1>3, <1>4, <1>5, <1>6, <1>9 DEF LockInv, OwnsLocks
  <2>2. \A u \in Task \ {t} : OwnsLocks(u)'
    BY <1>8, <1>9, <1>11 DEF LockInv, OwnsLocks
  <2>3. QED BY <2>1, <2>2
<1>13. \A v \in Volume : VolumeOwned(v)'
  BY <1>1, <1>5, <1>6, <1>8, <1>9 DEF LockInv, LockTypes, VolumeOwned
<1>14. SystemOwned' /\ MarkOwned' /\ LockTypes'
  BY <1>1, <1>2, <1>4, <1>6, <1>9, <1>10, Others DEF LockTypes, SystemOwned, MarkOwned
<1>15. QED BY <1>7, <1>8, <1>12, <1>13, <1>14 DEF LockInv

LEMMA MarkSystemStep ==
  ASSUME LockInv, NEW t \in Task, MarkSystem(t)
  PROVE  LockInv'
<1> DEFINE c == [call[t] EXCEPT !.at = "mount"]
<1>1. /\ LockTypes /\ call[t] \in Calls /\ CallOK(t) /\ OwnsLocks(t) /\ At(t, "mark")
      /\ SysLock' = 2 /\ UNCHANGED <<mutex, SysLockVolume, obj>>
  BY DEF LockInv, LockTypes, MarkSystem, mounts
<1>2. call' = [call EXCEPT ![t] = c] /\ c \in Calls
  BY <1>1 DEF MarkSystem, Goto, LockTypes, Calls, PathPlaces
<1>3. c.at = "mount" /\ c.op = call[t].op /\ c.file = call[t].file
  BY <1>1 DEF Calls
<1> HIDE DEF c
<1>4. call'[t] = c /\ Vol(t)' = Vol(t) /\ syslock(t)' /\ syslock(t)
  BY <1>2, <1>3, Others, <1>1 DEF Vol, syslock, CallOK, At, PathPlaces
<1>5. HoldsVolume(t)' /\ HoldsSystem(t)' /\ HoldsVolume(t) /\ HoldsSystem(t)
  BY <1>1, <1>3, <1>4 DEF HoldsVolume, HoldsSystem, At
<1>6. CallOK(t)'
  BY <1>1, <1>2, <1>3, <1>4, Others DEF CallOK, At, PathPlaces, FilePlaces
<1>7. \A u \in Task \ {t} :
        /\ call'[u] = call[u] /\ CallOK(u)' /\ Vol(u)' = Vol(u)
        /\ HoldsSystem(u)' <=> HoldsSystem(u)
        /\ HoldsVolume(u)' <=> HoldsVolume(u)
  BY <1>1, <1>2, Others
<1>8. mutex[System] = t /\ t # Null
  BY <1>1, <1>5, FatLockAssumption DEF OwnsLocks
<1>9. \A u \in Task : OwnsLocks(u)'
  BY <1>1, <1>4, <1>5, <1>7 DEF LockInv, OwnsLocks
<1>10. \A v \in Volume : VolumeOwned(v)'
  BY <1>1, <1>4, <1>5, <1>7 DEF LockInv, LockTypes, VolumeOwned
<1>11. SystemOwned' /\ MarkOwned' /\ LockTypes'
  BY <1>1, <1>2, <1>3, <1>4, <1>5, <1>8, Others DEF LockTypes, SystemOwned, MarkOwned
<1>12. QED BY <1>6, <1>7, <1>9, <1>10, <1>11 DEF LockInv

\* A task that gives the mutex of its volume, and not the system's.
LEMMA GivesVolume ==
  ASSUME LockInv, NEW t \in Task, NEW c \in Calls, HoldsVolume(t), ~HoldsSystem(t),
         call' = [call EXCEPT ![t] = c], c.at \in {"idle", "validate"},
         c.at = "validate" => c.op = "f_close" /\ c.file \in File,
         mutex' = [mutex EXCEPT ![Vol(t)] = Null],
         UNCHANGED <<SysLock, SysLockVolume, obj>>
  PROVE  LockInv'
<1>1. LockTypes /\ CallOK(t) /\ mutex[Vol(t)] = t
  BY DEF LockInv, OwnsLocks
<1>2. Vol(t) \in Volume /\ System \notin Volume /\ Null \notin Task
  BY <1>1, FatLockAssumption DEF CallOK, At, Vol, HoldsVolume, HoldsSystem
<1>3. call'[t] = c /\ FileOK(t)'
  BY Others
<1>4. ~HoldsVolume(t)' /\ ~HoldsSystem(t)' /\ CallOK(t)'
  BY <1>3 DEF HoldsVolume, HoldsSystem, syslock, CallOK, At, PathPlaces, FilePlaces
<1>5. \A u \in Task \ {t} :
        /\ call'[u] = call[u] /\ CallOK(u)' /\ Vol(u)' = Vol(u)
        /\ HoldsSystem(u)' <=> HoldsSystem(u)
        /\ HoldsVolume(u)' <=> HoldsVolume(u)
  BY Others
<1>6. /\ mutex'[System] = mutex[System] /\ mutex'[Vol(t)] = Null
      /\ \A v \in Volume \ {Vol(t)} : mutex'[v] = mutex[v]
  BY <1>1, <1>2 DEF LockTypes
<1>7. \A u \in Task \ {t} : HoldsVolume(u) => Vol(u) \in Volume \ {Vol(t)}
  BY <1>1, FatLockAssumption
  DEF LockInv, CallOK, OwnsLocks, At, Vol, HoldsVolume, HoldsSystem
<1>8. \A u \in Task : OwnsLocks(u)'
  BY <1>4, <1>5, <1>6, <1>7 DEF LockInv, OwnsLocks
<1>9. \A v \in Volume : mutex[v] = t => v = Vol(t)
  BY <1>2 DEF LockInv, VolumeOwned
<1>10. \A v \in Volume : VolumeOwned(v)'
  BY <1>1, <1>5, <1>6, <1>9 DEF LockInv, LockTypes, VolumeOwned
<1>11. mutex[System] # t
  BY <1>2 DEF LockInv, SystemOwned
<1>12. SystemOwned' /\ MarkOwned' /\ LockTypes'
  <2>1. SystemOwned'
    BY <1>1, <1>2, <1>5, <1>6, <1>11 DEF LockInv, LockTypes, SystemOwned
  <2>2. MarkOwned'
    BY <1>1, <1>2, <1>5, <1>6, <1>11 DEF LockInv, LockTypes, MarkOwned
  <2>3. LockTypes'
    BY <1>1, Others DEF LockTypes
  <2>4. QED BY <2>1, <2>2, <2>3
<1>13. QED BY <1>4, <1>5, <1>8, <1>10, <1>12 DEF LockInv

LEMMA TimesOutStep ==
  ASSUME LockInv, NEW t \in Task, TimesOut(t)
  PROVE  LockInv'
<1> USE DEF mounts, locks
<1>1. NoCall \in Calls /\ NoCall.at = "idle"
  BY DEF Calls, NoCall, Ops, BothPlaces
<1>2. CASE At(t, "take") /\ UNCHANGED mutex
  BY <1>1, <1>2, OuterStep DEF TimesOut, At
<1>3. CASE At(t, "takesys") /\ mutex' = [mutex EXCEPT ![Vol(t)] = Null]
  <2>1. HoldsVolume(t) /\ ~HoldsSystem(t)
    BY <1>3 DEF HoldsVolume, HoldsSystem, At
  <2>2. QED BY <1>1, <1>3, <2>1, GivesVolume DEF TimesOut
<1>4. QED BY <1>2, <1>3 DEF TimesOut

LEMMA GiveVolumeStep ==
  ASSUME LockInv, NEW t \in Task, GiveVolume(t)
  PROVE  LockInv'
<1> USE DEF mounts, locks
<1>1. LockTypes /\ CallOK(t) /\ call[t] \in Calls /\ At(t, "give")
  BY DEF LockInv, LockTypes, GiveVolume
<1>2. HoldsVolume(t) /\ ~HoldsSystem(t) /\ call[t].file \in File
  BY <1>1 DEF HoldsVolume, HoldsSystem, At, CallOK
<1> DEFINE again == [call[t] EXCEPT !.op = "f_close", !.at = "validate"]
<1>3. again \in Calls /\ again.at = "validate" /\ again.op = "f_close" /\ again.file = call[t].file
  BY <1>1 DEF Calls, Ops, FilePlaces
<1>4. NoCall \in Calls /\ NoCall.at = "idle"
  BY DEF Calls, NoCall, Ops, BothPlaces
<1>5. call' = [call EXCEPT ![t] = again] \/ call' = [call EXCEPT ![t] = NoCall]
  BY <1>1 DEF GiveVolume, LockTypes
<1> HIDE DEF again
<1>6. QED BY <1>2, <1>3, <1>4, <1>5, GivesVolume DEF GiveVolume

\* SysLock and SysLockVolume name the task that asks only if it has the system.
LEMMA MarkTells ==
  ASSUME LockInv, NEW t \in Task, At(t, "unlock")
  PROVE  SysLock = 2 /\ SysLockVolume = Vol(t) <=> syslock(t)
<1>1. LockTypes /\ CallOK(t) /\ OwnsLocks(t) /\ HoldsVolume(t) /\ mutex[Vol(t)] = t
  BY DEF LockInv, OwnsLocks, At, HoldsVolume, HoldsSystem
<1>2. ASSUME syslock(t) PROVE SysLock = 2 /\ SysLockVolume = Vol(t)
  BY <1>1, <1>2 DEF OwnsLocks, HoldsSystem, At
<1>3. ASSUME SysLock = 2, SysLockVolume = Vol(t) PROVE syslock(t)
  <2> DEFINE u == mutex[System]
  <2>1. u # Null /\ HoldsSystem(u)
    BY <1>3 DEF LockInv, MarkOwned, SystemOwned
  <2>2. u \in Task
    BY <1>1, <2>1 DEF LockTypes
  <2>3. SysLockVolume = Vol(u) /\ mutex[Vol(u)] = u
    BY <2>1, <2>2, SystemNeedsVolume DEF LockInv, OwnsLocks
  <2>4. u = t
    BY <1>1, <1>3, <2>3
  <2>5. QED BY <2>1, <2>4 DEF HoldsSystem
<1>4. QED BY <1>2, <1>3

LEMMA UnlockSystemStep ==
  ASSUME LockInv, NEW t \in Task, UnlockSystem(t)
  PROVE  LockInv'
<1>1. /\ LockTypes /\ call[t] \in Calls /\ CallOK(t) /\ At(t, "unlock")
      /\ UNCHANGED <<mutex, SysLockVolume, obj>>
      /\ OwnsLocks(t) /\ HoldsVolume(t)
  BY DEF LockInv, LockTypes, UnlockSystem, mounts, At, HoldsVolume, HoldsSystem
<1>2. CASE ~syslock(t)
  <2> DEFINE c == [call[t] EXCEPT !.at = "give"]
  <2>1. call' = [call EXCEPT ![t] = c] /\ c \in Calls /\ UNCHANGED locks
    BY <1>1, <1>2, MarkTells DEF UnlockSystem, Goto, LockTypes, Calls, BothPlaces, locks
  <2>2. c.at = "give" /\ c.op = call[t].op /\ c.file = call[t].file
    BY <1>1 DEF Calls
  <2> HIDE DEF c
  <2>3. call'[t] = c /\ \A u \in Task \ {t} : CallOK(u)'
    BY <1>1, <2>1, Others
  <2>4. SameHolds(t)
    BY <1>1, <1>2, <2>2, <2>3 DEF SameHolds, HoldsSystem, HoldsVolume, syslock, Vol, At
  <2>5. CallOK(t)'
    BY <1>1, <2>1, <2>2, <2>3, Others DEF CallOK, At, PathPlaces, FilePlaces
  <2>6. QED BY <1>1, <2>1, <2>3, <2>4, <2>5, LocksUntouched, Others
<1>3. CASE syslock(t)
  <2> DEFINE c == [call[t] EXCEPT !.at = "givesys"]
  <2>1. call' = [call EXCEPT ![t] = c] /\ c \in Calls /\ SysLock' = 1
    BY <1>1, <1>3, MarkTells DEF UnlockSystem, Goto, LockTypes, Calls, PathPlaces
  <2>2. c.at = "givesys" /\ c.op = call[t].op /\ c.file = call[t].file
    BY <1>1 DEF Calls
  <2> HIDE DEF c
  <2>3. call'[t] = c /\ Vol(t)' = Vol(t) /\ syslock(t)'
    BY <1>1, <1>3, <2>1, <2>2, Others DEF Vol, syslock
  <2>4. HoldsVolume(t)' /\ HoldsSystem(t)' /\ HoldsSystem(t)
    BY <1>1, <1>3, <2>2, <2>3 DEF HoldsVolume, HoldsSystem, At
  <2>5. CallOK(t)'
    BY <1>1, <2>1, <2>2, <2>3, Others DEF CallOK, At, PathPlaces, FilePlaces
  <2>6. mutex[System] = t /\ SysLockVolume = Vol(t)
    BY <1>1, <2>4 DEF OwnsLocks
  <2>7. \A u \in Task \ {t} :
          /\ call'[u] = call[u] /\ CallOK(u)' /\ Vol(u)' = Vol(u)
          /\ ~HoldsSystem(u) /\ ~HoldsSystem(u)'
          /\ HoldsVolume(u)' <=> HoldsVolume(u)
    BY <1>1, <2>1, <2>6, Others DEF LockInv, OwnsLocks
  <2>8. OwnsLocks(t)'
    BY <1>1, <2>2, <2>3, <2>4, <2>6 DEF OwnsLocks
  <2>9. \A u \in Task \ {t} : OwnsLocks(u)'
    BY <1>1, <2>7 DEF LockInv, OwnsLocks
  <2>10. \A v \in Volume : VolumeOwned(v)'
    BY <1>1, <2>3, <2>4, <2>7 DEF LockInv, LockTypes, VolumeOwned
  <2>11. SystemOwned' /\ MarkOwned' /\ LockTypes'
    <3>1. SystemOwned' /\ MarkOwned'
      BY <1>1, <2>1, <2>4, <2>6 DEF SystemOwned, MarkOwned
    <3>2. LockTypes'
      BY <1>1, <2>1, Others DEF LockTypes
    <3>3. QED BY <3>1, <3>2
  <2>12. QED BY <2>5, <2>7, <2>8, <2>9, <2>10, <2>11 DEF LockInv
<1>4. QED BY <1>2, <1>3

LEMMA GiveSystemStep ==
  ASSUME LockInv, NEW t \in Task, GiveSystem(t)
  PROVE  LockInv'
<1> DEFINE c == [call[t] EXCEPT !.at = "give"]
<1>1. /\ LockTypes /\ call[t] \in Calls /\ CallOK(t) /\ OwnsLocks(t) /\ At(t, "givesys")
      /\ mutex' = [mutex EXCEPT ![System] = Null]
      /\ UNCHANGED <<SysLock, SysLockVolume, obj>>
  BY DEF LockInv, LockTypes, GiveSystem, mounts
<1>2. call' = [call EXCEPT ![t] = c] /\ c \in Calls
  BY <1>1 DEF GiveSystem, Goto, LockTypes, Calls, BothPlaces
<1>3. c.at = "give" /\ c.op = call[t].op /\ c.file = call[t].file
  BY <1>1 DEF Calls
<1> HIDE DEF c
<1>4. call'[t] = c /\ Vol(t)' = Vol(t)
  BY <1>1, <1>2, <1>3, Others DEF Vol
<1>5. HoldsVolume(t)' /\ ~HoldsSystem(t)' /\ HoldsSystem(t) /\ HoldsVolume(t)
  BY <1>1, <1>3, <1>4 DEF HoldsVolume, HoldsSystem, At, CallOK, PathPlaces
<1>6. CallOK(t)'
  BY <1>1, <1>2, <1>3, <1>4, Others DEF CallOK, At, PathPlaces, FilePlaces
<1>7. mutex[System] = t /\ t # Null /\ System \notin Volume
  BY <1>1, <1>5, FatLockAssumption DEF OwnsLocks
<1>8. \A u \in Task \ {t} :
        /\ call'[u] = call[u] /\ CallOK(u)' /\ Vol(u)' = Vol(u)
        /\ ~HoldsSystem(u) /\ ~HoldsSystem(u)'
        /\ HoldsVolume(u)' <=> HoldsVolume(u)
  BY <1>1, <1>2, <1>7, Others DEF LockInv, OwnsLocks
<1>9. mutex'[System] = Null /\ \A v \in Volume : mutex'[v] = mutex[v]
  BY <1>1, <1>7 DEF LockTypes
<1>10. \A u \in Task : HoldsVolume(u) => Vol(u) \in Volume
  BY FatLockAssumption DEF LockInv, CallOK, At, Vol, HoldsVolume, HoldsSystem
<1>11. \A u \in Task : OwnsLocks(u)'
  BY <1>4, <1>5, <1>8, <1>9, <1>10 DEF LockInv, OwnsLocks
<1>12. \A v \in Volume : VolumeOwned(v)'
  BY <1>1, <1>4, <1>5, <1>8, <1>9 DEF LockInv, LockTypes, VolumeOwned
<1>13. SysLock' # 2
  BY <1>1, <1>7 DEF LockInv, MarkOwned, At
<1>14. SystemOwned' /\ MarkOwned'
  BY <1>9, <1>13 DEF SystemOwned, MarkOwned
<1>15. LockTypes'
  BY <1>1, <1>2, Others DEF LockTypes
<1>16. QED BY <1>6, <1>8, <1>11, <1>12, <1>14, <1>15 DEF LockInv

-----------------------------------------------------------------------------
LEMMA LockStep == LockInv /\ [Next]_vars => LockInv'
<1> SUFFICES ASSUME LockInv, [Next]_vars PROVE LockInv'
  OBVIOUS
<1>1. CASE \E t \in Task : InCall(t)
  <2>1. PICK t \in Task : InCall(t)
    BY <1>1
  <2>2. QED
    BY <2>1, TakeVolumeStep, TakeSystemStep, MarkSystemStep, UnlockSystemStep,
       GiveSystemStep, GiveVolumeStep, MountSteps, OpenSteps, CallSteps, UseSteps,
       CloseSteps DEF InCall
<1>2. CASE \E t \in Task : TimesOut(t) \/ CallPath(t) \/ CallFile(t)
  BY <1>2, TimesOutStep, CallSteps
<1>3. CASE (\E t \in Task : Forget(t)) \/ (\E v \in Volume : Eject(v)) \/ UNCHANGED vars
  BY <1>3, StillSteps
<1>4. QED BY <1>1, <1>2, <1>3 DEF Next

LEMMA LockInvariant == Spec => []LockInv
BY LockInit, LockStep, PTL DEF Spec

(***************************************************************************)
(* Two tasks are never inside one volume, and never both between           *)
(* lock_volume and unlock_volume of calls with a path, on any volumes:     *)
(* what the comment of FatFs.cpp:897 promises of lock_volume, for any      *)
(* number of tasks, volumes and files.                                     *)
(***************************************************************************)
THEOREM FatLockExclusive == Spec => []OneInside
<1>1. LockInv => OneInside
  BY DEF LockInv, OwnsLocks, OneInside
<1>2. QED BY LockInvariant, <1>1, PTL

(***************************************************************************)
(* Every mutex that is taken is held by a task inside a call, and SysLock  *)
(* is 2 only for the holder of both (FatFs.cpp:901-940).                   *)
(***************************************************************************)
THEOREM FatLockGivenBack == Spec => []NoLockLeft
<1>1. ASSUME LockInv PROVE NoLockLeft
  <2>1. LockTypes /\ System \notin Volume
    BY <1>1, FatLockAssumption DEF LockInv
  <2>2. \A v \in Volume :
          mutex[v] # Null => \E t \in Task : mutex[v] = t /\ HoldsVolume(t) /\ Vol(t) = v
    BY <1>1, <2>1 DEF LockInv, VolumeOwned, LockTypes
  <2>3. mutex[System] # Null => \E t \in Task : mutex[System] = t /\ HoldsSystem(t)
    BY <1>1, <2>1 DEF LockInv, SystemOwned, LockTypes
  <2>4. SysLock = 2 => mutex[System] # Null /\ mutex[SysLockVolume] = mutex[System]
    BY <1>1, <2>3, SystemNeedsVolume DEF LockInv, MarkOwned, OwnsLocks
  <2>5. QED BY <2>2, <2>3, <2>4 DEF NoLockLeft
<1>2. QED BY LockInvariant, <1>1, PTL

-----------------------------------------------------------------------------
(***************************************************************************)
(* The table of open files.  Beside what its entries are, ShareInv says    *)
(* what a task may rely on at each place: its FIL is of the volume that it *)
(* holds, and while it closes an entry the entry is its own.               *)
(***************************************************************************)

Entry == [file : File \cup {Null}, ctr : 0..Writing]
Open  == [file : File, id : Nat, lockid : Slot, write : BOOLEAN]

ShareTypes ==
  /\ Files \in [Slot -> Entry]
  /\ Fsid \in Nat
  /\ fs \in [Volume -> [type : BOOLEAN, id : Nat]]
  /\ obj \in [Task -> {NoFile} \cup Open]
  /\ stale \in BOOLEAN

\* An id is no greater than the last that was given.
IdsOK ==
  /\ \A v \in Volume : fs[v].id <= Fsid
  /\ \A t \in Task : obj[t].id <= Fsid

Opening ==
  {"take", "takesys", "mark", "mount", "read", "typed", "check", "found"}
Using == {"validate", "take", "status", "use"}
Holding == {"opened", "release", "erase", "closed"}

\* The FIL of a task in a call: the file of the call, blank until it is open,
\* and of the volume as it is mounted.
FilOK(t) ==
  /\ call[t].op = "f_sync of f_close" => call[t].at \in Using \cup {"unlock", "give"}
  /\ ~syslock(t) /\ (call[t].at \in Using \/ call[t].op = "f_sync of f_close") =>
       obj[t].file = call[t].file
  /\ call[t].op = "f_open" /\ call[t].at \in Opening => obj[t] = NoFile
  /\ call[t].at \in Holding =>
       /\ obj[t].file = call[t].file
       /\ ~stale => obj[t].id = fs[Vol(t)].id

\* An entry, as EntriesMatch has it.
EntryOK(i) ==
  /\ \A t \in Users(i) : obj[t].file = Files[i].file
  /\ IF \E t \in Users(i) : obj[t].write
     THEN Cardinality(Users(i)) = 1 /\ Files[i].ctr = Writing
     ELSE Files[i].ctr = Cardinality(Users(i))
  /\ Files[i].ctr = 0 =>
       Files[i].file = Null \/ \E t \in Task : At(t, "erase") /\ obj[t].lockid = i

\* The entry that a task is about to erase.
EraseOK(t) ==
  At(t, "erase") => Files[obj[t].lockid] = [file |-> obj[t].file, ctr |-> 0]

\* What does not depend on how many tasks there are.
CheckInv ==
  /\ ShareTypes /\ IdsOK
  /\ \A t \in Task : FilOK(t) /\ (At(t, "found") => chk_share(t))

ShareInv ==
  ~stale => /\ \A i \in Slot : EntryOK(i)
            /\ \A t \in Task : EraseOK(t)

\* The least of a set of slots.
LEMMA MinOfSlots ==
  ASSUME NEW S \in SUBSET Slot, S # {}
  PROVE  Min(S) \in S
<1> DEFINE Lt == {p \in Nat \X Nat : p[1] < p[2]}
<1>1. S \subseteq Nat
  BY FatLockAssumption DEF Slot
<1>2. \E x \in S : \A y \in S : ~(<<y, x>> \in OpToRel(<, Nat))
  BY <1>1, NatLessThanWellFounded, WFMin
<1>3. Lt = OpToRel(<, Nat)
  BY Zenon DEF OpToRel
<1>4. \E x \in S : \A y \in S : ~(<<y, x>> \in Lt)
  BY <1>2, <1>3, Zenon
<1>5. PICK x \in S : \A y \in S : ~(<<y, x>> \in Lt)
  BY <1>4
<1>6. ASSUME NEW y \in S PROVE x <= y
  <2>1. x \in Nat /\ y \in Nat
    BY <1>1
  <2>2. y < x => <<y, x>> \in Lt
    BY <2>1
  <2>3. QED BY <1>5, <2>1, <2>2
<1>7. QED BY <1>6 DEF Min

\* Two tasks do not hold one volume, nor both the system.
LEMMA Alone ==
  ASSUME LockInv, NEW t \in Task, NEW u \in Task, t # u
  PROVE  /\ ~(HoldsSystem(t) /\ HoldsSystem(u))
         /\ HoldsVolume(t) /\ HoldsVolume(u) => Vol(t) # Vol(u)
  BY DEF LockInv, OwnsLocks

\* A slot that is used is used by a FIL that is open.
LEMMA UserOpen ==
  ASSUME ShareTypes, NEW i \in Slot, NEW t \in Users(i)
  PROVE  t \in Task /\ obj[t] \in Open /\ obj[t].lockid = i
<1>1. t \in Task /\ obj[t].lockid = i BY DEF Users
<1>2. obj[t] # NoFile
  BY <1>1, FatLockAssumption DEF Slot, NoFile
<1> QED BY <1>1, <1>2 DEF ShareTypes

LEMMA UsersFinite ==
  ASSUME NEW i \in Slot
  PROVE  /\ IsFiniteSet(Users(i)) /\ Cardinality(Users(i)) \in Nat
         /\ Cardinality(Users(i)) <= Cardinality(Task)
<1>1. Users(i) \in SUBSET Task BY DEF Users
<1> QED BY <1>1, FS_Subset, FS_CardinalityType, FatLockAssumption


\* What a step leaves of the FIL of a task that does not move.
LEMMA OtherFil ==
  ASSUME NEW u \in Task, FilOK(u), call'[u] = call[u], obj'[u] = obj[u],
         stale => stale',
         call[u].at \in Holding => fs'[Vol(u)].id = fs[Vol(u)].id
  PROVE  FilOK(u)'
BY DEF FilOK, At, syslock, Vol

\* A step of t that leaves the table, the files and the mounts as they are.
Quiet(t) ==
  /\ \E c \in Calls :
       /\ call' = [call EXCEPT ![t] = c]
       /\ call[t].at \notin {"erase", "closed"} /\ c.at \notin {"erase", "closed"}
  /\ UNCHANGED <<Files, Fsid, obj>>
  /\ fs' \in [Volume -> [type : BOOLEAN, id : Nat]]
  /\ \A v \in Volume : fs'[v].id = fs[v].id
  /\ stale' \in BOOLEAN /\ (stale => stale')

LEMMA QuietCheck ==
  ASSUME LockInv, CheckInv, NEW t \in Task, Quiet(t), FilOK(t)',
         At(t, "found")' => chk_share(t)'
  PROVE  CheckInv'
<1>1. \A u \in Task \ {t} : call'[u] = call[u] /\ obj'[u] = obj[u]
  BY DEF Quiet, LockInv, LockTypes
<1>2. ASSUME NEW u \in Task \ {t} PROVE FilOK(u)'
  <2>1. call[u].at \in Holding => Vol(u) \in Volume
    BY FatLockAssumption DEF LockInv, CallOK, Vol, Holding, At
  <2>2. QED BY <1>1, <2>1, OtherFil DEF Quiet, CheckInv
<1>3. ASSUME NEW u \in Task \ {t}, At(u, "found")' PROVE chk_share(u)'
  <2>1. chk_share(u)
    BY <1>1, <1>3 DEF CheckInv, At
  <2>2. QED BY <1>1, <2>1 DEF chk_share, Entries, Quiet
<1>4. ShareTypes' /\ IdsOK'
  BY DEF Quiet, CheckInv, ShareTypes, IdsOK
<1>5. QED BY <1>2, <1>3, <1>4 DEF CheckInv

LEMMA QuietShare ==
  ASSUME LockInv, CheckInv, ShareInv, NEW t \in Task, Quiet(t)
  PROVE  ShareInv'
<1> SUFFICES ASSUME ~stale' PROVE ShareInv'
  BY DEF ShareInv
<1>1. ~stale /\ UNCHANGED <<Files, obj>>
  BY DEF Quiet
<1>2. \A u \in Task : /\ At(u, "erase")' <=> At(u, "erase")
                      /\ call'[u].at \in {"erase", "closed"} <=> call[u].at \in {"erase", "closed"}
  BY DEF Quiet, At, LockInv, LockTypes
<1>3. ASSUME NEW i \in Slot PROVE Users(i)' = Users(i)
  <2>1. ASSUME NEW u \in Task, obj[u].lockid = i PROVE VolumeOf[obj[u].file] \in Volume
    BY <2>1, FatLockAssumption DEF CheckInv, ShareTypes, NoFile, Slot, Open
  <2>2. QED BY <1>1, <1>2, <2>1 DEF Users, Quiet
<1>4. ASSUME NEW i \in Slot PROVE EntryOK(i)'
  <2>1. EntryOK(i)
    BY <1>1 DEF ShareInv
  <2>2. QED BY <1>1, <1>2, <1>3, <2>1 DEF EntryOK
<1>5. ASSUME NEW u \in Task PROVE EraseOK(u)'
  BY <1>1, <1>2 DEF ShareInv, EraseOK
<1>6. QED BY <1>4, <1>5 DEF ShareInv

\* Most quiet steps go from one place to another.
LEMMA GoOn ==
  ASSUME LockInv, CheckInv, NEW t \in Task,
         NEW p \in Inside \cup {"validate", "take", "takesys", "mark", "givesys", "give"},
         NEW q \in Inside \cup {"validate", "take", "takesys", "mark", "givesys", "give"},
         At(t, p), Goto(t, q), p \notin {"erase", "closed"}, q \notin {"erase", "closed"},
         q \in Using => p \in Using,
         q \in Opening /\ syslock(t) => p \in Opening, q \in Holding => p \in Holding,
         q = "found" => chk_share(t),
         p \in PathPlaces \/ syslock(t) \/ q \in Using \cup {"unlock", "give"},
         UNCHANGED <<Files, Fsid, obj, stale>>,
         fs' \in [Volume -> [type : BOOLEAN, id : Nat]],
         \A v \in Volume : fs'[v].id = fs[v].id
  PROVE  Quiet(t) /\ CheckInv'
<1> DEFINE c == [call[t] EXCEPT !.at = q]
<1>1. call[t] \in Calls /\ CallOK(t) /\ FilOK(t)
  BY DEF LockInv, LockTypes, CheckInv
<1>2. call' = [call EXCEPT ![t] = c] /\ c \in Calls
  BY <1>1 DEF Goto, LockInv, LockTypes, Calls, Inside, PathPlaces, FilePlaces, BothPlaces
<1>3. /\ c.at = q /\ c.op = call[t].op /\ c.file = call[t].file /\ c.write = call[t].write
  BY <1>1 DEF Calls
<1> HIDE DEF c
<1>4. call'[t] = c
  BY <1>2 DEF LockInv, LockTypes
<1>5. Quiet(t)
  BY <1>2, <1>3 DEF Quiet, At, CheckInv, ShareTypes
<1>6. FilOK(t)'
  <2>1. p \in Holding => Vol(t) \in Volume
    BY <1>1, FatLockAssumption DEF CallOK, Vol, Holding, At
  <2>2. p \in PathPlaces => syslock(t)
    BY <1>1 DEF CallOK, At
  <2>3. QED BY <1>1, <1>3, <1>4, <2>1, <2>2 DEF FilOK, At, syslock, Vol
<1>7. At(t, "found")' => chk_share(t)'
  BY <1>3, <1>4 DEF chk_share, Entries, At
<1>8. QED BY <1>5, <1>6, <1>7, QuietCheck

-----------------------------------------------------------------------------
(* The quiet steps.                                                        *)

LEMMA QuietLocks ==
  ASSUME LockInv, CheckInv, NEW t \in Task,
         \/ TakeVolume(t) \/ TakeSystem(t) \/ MarkSystem(t)
         \/ UnlockSystem(t) \/ GiveSystem(t)
  PROVE  Quiet(t) /\ CheckInv'
<1> USE DEF mounts
<1>1. UNCHANGED <<Files, Fsid, obj, stale, fs>> /\ ShareTypes
  BY DEF TakeVolume, TakeSystem, MarkSystem, UnlockSystem, GiveSystem, CheckInv
<1>2. fs' \in [Volume -> [type : BOOLEAN, id : Nat]]
  BY <1>1 DEF ShareTypes
<1>3. CASE TakeVolume(t)
  <2>1. PICK q \in {"takesys", "status"} : Goto(t, q) /\ (q = "status" <=> ~syslock(t))
    BY <1>3 DEF TakeVolume
  <2>2. At(t, "take")
    BY <1>3 DEF TakeVolume
  <2>3. QED BY <1>1, <1>2, <2>1, <2>2, GoOn DEF Inside, Using, Opening, Holding, PathPlaces
<1>4. CASE TakeSystem(t)
  BY <1>1, <1>2, <1>4, GoOn DEF TakeSystem, Inside, Using, Opening, Holding, PathPlaces
<1>5. CASE MarkSystem(t)
  BY <1>1, <1>2, <1>5, GoOn DEF MarkSystem, Inside, Using, Opening, Holding, PathPlaces
<1>6. CASE UnlockSystem(t)
  <2>1. PICK q \in {"givesys", "give"} : Goto(t, q) /\ (q = "givesys" => syslock(t))
    BY <1>6, MarkTells DEF UnlockSystem
  <2>2. At(t, "unlock")
    BY <1>6 DEF UnlockSystem
  <2>3. QED BY <1>1, <1>2, <2>1, <2>2, GoOn DEF Inside, Using, Opening, Holding, PathPlaces
<1>7. CASE GiveSystem(t)
  BY <1>1, <1>2, <1>7, GoOn DEF GiveSystem, Inside, Using, Opening, Holding, PathPlaces
<1>8. QED BY <1>3, <1>4, <1>5, <1>6, <1>7

LEMMA QuietOpens ==
  ASSUME LockInv, CheckInv, NEW t \in Task,
         \/ mount_volume(t) \/ SetType(t) \/ Check(t)
         \/ OpenFails(t) \/ Opened(t) \/ Remove(t)
  PROVE  Quiet(t) /\ CheckInv'
<1> USE DEF mounts, locks
<1>1. ShareTypes /\ UNCHANGED <<Files, Fsid, obj, stale>>
  BY DEF CheckInv, mount_volume, SetType, Check, OpenFails, Opened, Remove
<1>2. /\ fs' \in [Volume -> [type : BOOLEAN, id : Nat]]
      /\ \A v \in Volume : fs'[v].id = fs[v].id
  <2>1. \/ UNCHANGED fs
        \/ \E b \in BOOLEAN : fs' = [fs EXCEPT ![Vol(t)].type = b]
    BY DEF mount_volume, SetType, Check, OpenFails, Opened, Remove
  <2>2. QED BY <1>1, <2>1 DEF ShareTypes
<1>3. CASE mount_volume(t)
  <2>1. PICK q \in {"check", "unlock", "read"} : Goto(t, q)
    BY <1>3 DEF mount_volume
  <2>2. At(t, "mount")
    BY <1>3 DEF mount_volume
  <2>3. QED BY <1>1, <1>2, <2>1, <2>2, GoOn DEF Inside, Using, Opening, Holding, PathPlaces
<1>4. CASE SetType(t)
  BY <1>1, <1>2, <1>4, GoOn DEF SetType, Inside, Using, Opening, Holding, PathPlaces
<1>5. CASE Check(t)
  <2>1. PICK q \in {"found", "unlock"} : Goto(t, q) /\ (q = "found" => chk_share(t))
    BY <1>5 DEF Check
  <2>2. At(t, "check")
    BY <1>5 DEF Check
  <2>3. QED BY <1>1, <1>2, <2>1, <2>2, GoOn DEF Inside, Using, Opening, Holding, PathPlaces
<1>6. CASE OpenFails(t) \/ Remove(t)
  BY <1>1, <1>2, <1>6, GoOn
  DEF OpenFails, Remove, Inside, Using, Opening, Holding, PathPlaces
<1>7. CASE Opened(t)
  <2>1. PICK q \in {"unlock", "release"} : Goto(t, q)
    BY <1>7 DEF Opened
  <2>2. At(t, "opened")
    BY <1>7 DEF Opened
  <2>3. QED BY <1>1, <1>2, <2>1, <2>2, GoOn DEF Inside, Using, Opening, Holding, PathPlaces
<1>8. QED BY <1>3, <1>4, <1>5, <1>6, <1>7

\* A quiet step that changes more of the call than the place.
LEMMA CallChanges ==
  ASSUME LockInv, CheckInv, NEW t \in Task, NEW c \in Calls,
         call' = [call EXCEPT ![t] = c],
         call[t].at \notin {"erase", "closed"},
         c.at \notin {"erase", "closed", "found"},
         UNCHANGED <<Files, Fsid, obj, fs>>,
         stale' \in BOOLEAN, stale => stale', FilOK(t)'
  PROVE  Quiet(t) /\ CheckInv'
<1>1. Quiet(t)
  BY DEF Quiet, CheckInv, ShareTypes
<1>2. ~At(t, "found")'
  BY DEF At, LockInv, LockTypes
<1>3. QED BY <1>1, <1>2, QuietCheck

\* The call ends.
LEMMA CallEnds ==
  ASSUME LockInv, CheckInv, NEW t \in Task, call' = [call EXCEPT ![t] = NoCall],
         call[t].at \notin {"erase", "closed"},
         UNCHANGED <<Files, Fsid, obj, fs, stale>>
  PROVE  Quiet(t) /\ CheckInv'
<1>1. NoCall \in Calls /\ NoCall.at = "idle" /\ NoCall.op = "none"
  BY DEF Calls, NoCall, Ops, BothPlaces
<1>2. call'[t] = NoCall
  BY DEF LockInv, LockTypes
<1>3. FilOK(t)'
  BY <1>1, <1>2 DEF FilOK, At, Using, Holding
<1>4. QED BY <1>1, <1>3, CallChanges DEF CheckInv, ShareTypes

LEMMA QuietCalls ==
  ASSUME LockInv, CheckInv, NEW t \in Task,
         GiveVolume(t) \/ TimesOut(t) \/ CallPath(t) \/ CallFile(t) \/ validate(t)
  PROVE  Quiet(t) /\ CheckInv'
<1> USE DEF mounts, locks
<1>1. /\ CallOK(t) /\ FilOK(t) /\ call[t] \in Calls /\ LockTypes /\ ShareTypes
      /\ UNCHANGED <<Files, Fsid, obj, fs, stale>>
  BY DEF LockInv, LockTypes, CheckInv, GiveVolume, TimesOut, CallPath, CallFile, validate
<1>2. CASE GiveVolume(t)
  <2> DEFINE c == [call[t] EXCEPT !.op = "f_close", !.at = "validate"]
  <2>1. At(t, "give")
    BY <1>2 DEF GiveVolume
  <2>2. CASE call[t].op = "f_sync of f_close"
    <3>1. call' = [call EXCEPT ![t] = c] /\ c \in Calls
      BY <1>1, <1>2, <2>2 DEF GiveVolume, LockTypes, Calls, Ops, FilePlaces
    <3>2. c.at = "validate" /\ c.op = "f_close" /\ c.file = call[t].file
      BY <1>1 DEF Calls
    <3> HIDE DEF c
    <3>3. call'[t] = c
      BY <1>1, <3>1 DEF LockTypes
    <3>4. FilOK(t)'
      BY <1>1, <2>2, <3>2, <3>3 DEF FilOK, syslock, Using, Holding
    <3>5. QED BY <1>1, <2>1, <3>1, <3>2, <3>4, CallChanges DEF At, ShareTypes
  <2>3. CASE call[t].op # "f_sync of f_close"
    <3>1. call' = [call EXCEPT ![t] = NoCall]
      BY <1>1, <1>2, <2>3 DEF GiveVolume, LockTypes
    <3>2. QED BY <1>1, <2>1, <3>1, CallEnds DEF At
  <2>4. QED BY <2>2, <2>3
<1>3. CASE TimesOut(t)
  BY <1>1, <1>3, CallEnds DEF TimesOut, At
<1>4. CASE CallPath(t)
  <2>1. PICK f \in File, w \in BOOLEAN, op \in {"f_open", "f_unlink"} :
          /\ op = "f_open" => obj[t] = NoFile
          /\ call' = [call EXCEPT ![t] = [at |-> "take", op |-> op, file |-> f, write |-> w]]
    BY <1>4 DEF CallPath
  <2> DEFINE c == [at |-> "take", op |-> op, file |-> f, write |-> w]
  <2>2. c \in Calls /\ c.at = "take" /\ c.op = op
    BY DEF Calls, Ops, BothPlaces
  <2>3. At(t, "idle") /\ call'[t] = c
    BY <1>1, <1>4, <2>1 DEF CallPath, LockTypes
  <2>4. FilOK(t)'
    BY <1>1, <2>1, <2>2, <2>3 DEF FilOK, syslock, Holding
  <2>5. QED BY <1>1, <2>1, <2>2, <2>3, <2>4, CallChanges DEF At, ShareTypes
<1>5. CASE CallFile(t)
  <2>1. PICK op \in {"f_sync", "f_sync of f_close"} :
          call' = [call EXCEPT ![t] =
            [at |-> "validate", op |-> op, file |-> obj[t].file, write |-> FALSE]]
    BY <1>5 DEF CallFile
  <2> DEFINE c == [at |-> "validate", op |-> op, file |-> obj[t].file, write |-> FALSE]
  <2>2. c \in Calls /\ c.at = "validate" /\ c.op = op /\ c.file = obj[t].file
    BY <1>1, <1>5 DEF CallFile, CallOK, FileOK, Calls, Ops, FilePlaces
  <2>3. At(t, "idle") /\ call'[t] = c
    BY <1>1, <1>5, <2>1 DEF CallFile, LockTypes
  <2>4. FilOK(t)'
    BY <1>1, <2>2, <2>3 DEF FilOK, syslock, Using, Holding
  <2>5. QED BY <1>1, <2>1, <2>2, <2>3, <2>4, CallChanges DEF At, ShareTypes
<1>6. CASE validate(t)
  <2>1. At(t, "validate")
    BY <1>6 DEF validate
  <2>2. CASE Goto(t, "take")
    <3>1. fs' \in [Volume -> [type : BOOLEAN, id : Nat]]
      BY <1>1 DEF ShareTypes
    <3>2. QED BY <1>1, <2>1, <2>2, <3>1, GoOn DEF Inside, Using, Holding, Opening, CallOK, FilePlaces, At
  <2>3. CASE call' = [call EXCEPT ![t] = NoCall]
    BY <1>1, <2>1, <2>3, CallEnds DEF At
  <2>4. QED BY <1>6, <2>2, <2>3 DEF validate
<1>7. QED BY <1>2, <1>3, <1>4, <1>5, <1>6

LEMMA QuietUse ==
  ASSUME LockInv, CheckInv, NEW t \in Task, disk_status(t) \/ Use(t)
  PROVE  Quiet(t) /\ CheckInv'
<1> USE DEF mounts, locks
<1> DEFINE End == [call[t] EXCEPT !.at = "unlock", !.op = "f_sync"]
<1>1. /\ CallOK(t) /\ FilOK(t) /\ call[t] \in Calls /\ LockTypes /\ ShareTypes
      /\ UNCHANGED <<Files, Fsid, obj, fs>>
      /\ call[t].at \in {"status", "use"} /\ ~syslock(t)
      /\ stale' \in BOOLEAN /\ (stale => stale')
  BY DEF LockInv, LockTypes, CheckInv, ShareTypes, CallOK, FilePlaces, disk_status, Use, At
<1>2. ASSUME call' = [call EXCEPT ![t] = End] PROVE Quiet(t) /\ CheckInv'
  <2>1. End \in Calls /\ End.at = "unlock" /\ End.op = "f_sync"
    BY <1>1 DEF Calls, Ops, BothPlaces
  <2> HIDE DEF End
  <2>2. call'[t] = End
    BY <1>1, <1>2 DEF LockTypes
  <2>3. FilOK(t)'
    BY <2>1, <2>2 DEF FilOK, Using, Holding
  <2>4. QED BY <1>1, <1>2, <2>1, <2>3, CallChanges DEF ShareTypes
<1>3. ASSUME NEW q \in {"use", "unlock", "release"}, Goto(t, q),
             q = "release" => call[t].op = "f_close",
             q = "release" /\ ~stale' => obj[t].id = fs[Vol(t)].id,
             q # "unlock" => call[t].at = "status"
      PROVE  Quiet(t) /\ CheckInv'
  <2> DEFINE c == [call[t] EXCEPT !.at = q]
  <2>1. call' = [call EXCEPT ![t] = c] /\ c \in Calls
    BY <1>1, <1>3 DEF Goto, LockTypes, Calls, FilePlaces, BothPlaces
  <2>2. c.at = q /\ c.op = call[t].op /\ c.file = call[t].file
    BY <1>1 DEF Calls
  <2> HIDE DEF c
  <2>3. call'[t] = c
    BY <1>1, <2>1 DEF LockTypes
  <2>4. FilOK(t)'
    BY <1>1, <1>3, <2>2, <2>3 DEF FilOK, syslock, Vol, Using, Holding
  <2>5. QED BY <1>1, <2>1, <2>2, <2>4, CallChanges DEF ShareTypes
<1>4. CASE disk_status(t)
  <2>1. At(t, "status")
    BY <1>4 DEF disk_status
  <2>2. CASE noinit[Vol(t)]
    BY <1>1, <1>2, <1>4, <2>2 DEF disk_status, LockTypes
  <2>3. CASE ~noinit[Vol(t)]
    <3>1. PICK q \in {"use", "release"} :
            Goto(t, q) /\ (q = "release" => call[t].op = "f_close")
      BY <1>4, <2>3 DEF disk_status
    <3>2. ~stale' => obj[t].id = fs[VolumeOf[obj[t].file]].id
      BY <1>4, <2>3 DEF disk_status, Valid
    <3>3. obj[t].file = call[t].file
      BY <1>1, <2>1 DEF FilOK, At, Using
    <3>4. QED BY <1>3, <2>1, <3>1, <3>2, <3>3 DEF Vol, At
  <2>4. QED BY <2>2, <2>3
<1>5. CASE Use(t)
  BY <1>1, <1>2, <1>3, <1>5 DEF Use, LockTypes
<1>6. QED BY <1>4, <1>5

-----------------------------------------------------------------------------
(* The steps that change the table or a FIL keep CheckInv.                 *)

\* t writes entry i for its file, as inc_share does.
Entered(t, i, n) ==
  /\ Files' = [Files EXCEPT ![i] = [file |-> call[t].file, ctr |-> n]]
  /\ obj' = [obj EXCEPT ![t] = [file |-> call[t].file, id |-> fs[Vol(t)].id,
                                lockid |-> i, write |-> call[t].write]]
  /\ \/ Files[i].file = Null /\ n = IF call[t].write THEN Writing ELSE 1
     \/ Files[i].file = call[t].file /\ ~call[t].write /\ n = Files[i].ctr + 1

\* What chk_share has allowed is all that inc_share needs.
LEMMA IncShareEnters ==
  ASSUME LockInv, CheckInv, NEW t \in Task, inc_share(t)
  PROVE  \/ Quiet(t) /\ CheckInv'
         \/ Goto(t, "opened") /\ \E i \in Slot, n \in 1..Writing : Entered(t, i, n)
<1> USE DEF mounts, locks
<1> DEFINE own == Entries(call[t].file)
           fit == IF own # {} THEN own ELSE Entries(Null)
           i == Min(fit)
           n == IF call[t].write THEN Writing ELSE IF own # {} THEN Files[i].ctr + 1 ELSE 1
<1>1. /\ At(t, "found") /\ chk_share(t) /\ ShareTypes /\ call[t].op = "f_open"
      /\ UNCHANGED <<Fsid, fs, stale>>
  BY DEF inc_share, CheckInv
<1>2. CASE UNCHANGED <<Files, obj>> /\ Goto(t, "unlock")
  <2>1. fs' \in [Volume -> [type : BOOLEAN, id : Nat]]
    BY <1>1 DEF ShareTypes
  <2>2. QED BY <1>1, <1>2, <2>1, GoOn DEF Inside, Using, Opening, Holding
<1>3. CASE ~(UNCHANGED <<Files, obj>> /\ Goto(t, "unlock"))
  <2>1. fit # {} /\ fit \in SUBSET Slot
    BY <1>3 DEF inc_share, Entries
  <2>2. i \in fit
    BY <2>1, MinOfSlots
  <2>3. /\ Files' = [Files EXCEPT ![i] = [file |-> call[t].file, ctr |-> n]]
        /\ obj' = [obj EXCEPT ![t] = [file |-> call[t].file, id |-> fs[Vol(t)].id,
                                      lockid |-> i, write |-> call[t].write]]
        /\ Goto(t, "opened")
    BY <1>3, <2>1, <2>2 DEF inc_share, ShareTypes, Entry
  <2>4. CASE own # {}
    <3>1. i \in Slot /\ Files[i].file = call[t].file /\ ~call[t].write /\ Files[i].ctr # Writing
      BY <1>1, <2>2, <2>4 DEF chk_share, Entries
    <3>2. Files[i].ctr \in 0..Writing
      BY <1>1, <3>1 DEF ShareTypes, Entry
    <3>3. n = Files[i].ctr + 1 /\ n \in 1..Writing
      BY <2>4, <3>1, <3>2 DEF Writing
    <3>4. QED BY <2>3, <3>1, <3>3 DEF Entered
  <2>5. CASE own = {}
    <3>1. i \in Slot /\ Files[i].file = Null
      BY <2>2, <2>5 DEF Entries
    <3>2. n = (IF call[t].write THEN Writing ELSE 1) /\ n \in 1..Writing
      BY <2>5 DEF Writing
    <3>3. QED BY <2>3, <3>1, <3>2 DEF Entered
  <2>6. QED BY <2>4, <2>5
<1>4. QED BY <1>2, <1>3

LEMMA EnteredCheck ==
  ASSUME LockInv, CheckInv, NEW t \in Task, At(t, "found"), Goto(t, "opened"),
         NEW i \in Slot, NEW n \in 1..Writing, Entered(t, i, n),
         UNCHANGED <<Fsid, fs, stale>>
  PROVE  CheckInv'
<1> DEFINE o == [file |-> call[t].file, id |-> fs[Vol(t)].id, lockid |-> i,
                 write |-> call[t].write]
<1>1. /\ CallOK(t) /\ call[t] \in Calls /\ LockTypes /\ ShareTypes /\ IdsOK
      /\ call[t].file \in File /\ Vol(t) \in Volume /\ syslock(t)
  BY FatLockAssumption DEF LockInv, LockTypes, CheckInv, CallOK, At, Vol, PathPlaces
<1>2. o \in Open /\ o.id <= Fsid
  BY <1>1 DEF Open, ShareTypes, IdsOK, Calls
<1>3. /\ obj' = [obj EXCEPT ![t] = o]
      /\ Files' = [Files EXCEPT ![i] = [file |-> call[t].file, ctr |-> n]]
  BY DEF Entered
<1>4. o.file = call[t].file /\ o.id = fs[Vol(t)].id
  OBVIOUS
<1> HIDE DEF o
<1>5. ShareTypes' /\ IdsOK'
  BY <1>1, <1>2, <1>3 DEF ShareTypes, IdsOK, Entry
<1>6. /\ obj'[t] = o /\ call'[t].at = "opened" /\ call'[t].file = call[t].file
      /\ syslock(t)' /\ Vol(t)' = Vol(t)
      /\ \A u \in Task \ {t} : call'[u] = call[u] /\ obj'[u] = obj[u]
  BY <1>1, <1>3 DEF Goto, LockTypes, ShareTypes, Calls, syslock, Vol
<1>7. FilOK(t)'
  BY <1>1, <1>4, <1>6 DEF FilOK, syslock, Opening
<1>8. \A u \in Task \ {t} : FilOK(u)'
  BY <1>6, OtherFil DEF CheckInv
<1>9. ASSUME NEW u \in Task PROVE ~At(u, "found")'
  <2>1. u # t /\ At(u, "found") => HoldsSystem(u) /\ HoldsSystem(t)
    BY DEF LockInv, CallOK, PathPlaces, HoldsSystem, At
  <2>2. QED BY <1>6, <2>1, Alone DEF At
<1>10. QED BY <1>5, <1>7, <1>8, <1>9 DEF CheckInv

LEMMA SetIdCheck ==
  ASSUME LockInv, CheckInv, NEW t \in Task, SetId(t)
  PROVE  CheckInv'
<1>1. /\ At(t, "typed") /\ Goto(t, "check") /\ Fsid' = Fsid + 1
      /\ fs' = [fs EXCEPT ![Vol(t)].id = Fsid + 1]
      /\ Files' = Cleared(Vol(t)) /\ UNCHANGED <<obj, stale>>
  BY DEF SetId
<1>2. /\ CallOK(t) /\ FilOK(t) /\ call[t] \in Calls /\ LockTypes /\ ShareTypes /\ IdsOK
      /\ Vol(t) \in Volume /\ syslock(t)
  BY <1>1, FatLockAssumption
  DEF LockInv, LockTypes, CheckInv, CallOK, At, Vol, PathPlaces
<1>3. /\ fs' \in [Volume -> [type : BOOLEAN, id : Nat]]
      /\ fs'[Vol(t)].id = Fsid + 1
      /\ \A v \in Volume \ {Vol(t)} : fs'[v].id = fs[v].id
  BY <1>1, <1>2 DEF ShareTypes
<1>4. Files' \in [Slot -> Entry]
  BY <1>1, <1>2 DEF Cleared, NoEntry, Entry, ShareTypes, Writing
<1>5. ShareTypes' /\ IdsOK'
  BY <1>1, <1>2, <1>3, <1>4 DEF ShareTypes, IdsOK, NoFile, Open
<1>6. /\ call'[t].at = "check" /\ call'[t].op = call[t].op /\ syslock(t)'
      /\ \A u \in Task \ {t} : call'[u] = call[u]
  BY <1>1, <1>2 DEF Goto, LockTypes, Calls, syslock
<1>7. FilOK(t)'
  BY <1>1, <1>2, <1>6 DEF FilOK, At, syslock, Opening, Holding
<1>8. ASSUME NEW u \in Task \ {t} PROVE FilOK(u)'
  <2>1. call[u].at \in Holding => HoldsVolume(u) /\ Vol(u) \in Volume
    BY FatLockAssumption
    DEF LockInv, CallOK, HoldsVolume, HoldsSystem, Holding, At, Vol
  <2>2. HoldsVolume(t)
    BY <1>1, <1>2 DEF HoldsVolume, HoldsSystem, At
  <2>3. call[u].at \in Holding => fs'[Vol(u)].id = fs[Vol(u)].id
    BY <1>3, <2>1, <2>2, Alone
  <2>4. QED BY <1>1, <1>6, <2>3, OtherFil DEF CheckInv
<1>9. ASSUME NEW u \in Task PROVE ~At(u, "found")'
  <2>1. u # t /\ At(u, "found") => HoldsSystem(u) /\ HoldsSystem(t)
    BY <1>1, <1>2 DEF LockInv, CallOK, PathPlaces, HoldsSystem, At
  <2>2. QED BY <1>6, <2>1, Alone DEF At
<1>10. QED BY <1>5, <1>7, <1>8, <1>9 DEF CheckInv

\* The entry that a task in f_close or at the end of a failed f_open gives back.
LEMMA OwnSlot ==
  ASSUME LockInv, CheckInv, NEW t \in Task, call[t].at \in Holding
  PROVE  /\ obj[t] \in Open /\ obj[t].lockid \in Slot
         /\ obj[t].file = call[t].file /\ obj[t].file \in File
         /\ Vol(t) \in Volume /\ HoldsVolume(t)
         /\ ~stale => obj[t].id = fs[Vol(t)].id
<1>1. call[t].file \in File
  BY DEF LockInv, CallOK, Holding, At
<1>2. obj[t].file = call[t].file /\ (~stale => obj[t].id = fs[Vol(t)].id)
  BY DEF CheckInv, FilOK
<1>3. obj[t] \in Open
  BY <1>1, <1>2, FatLockAssumption DEF CheckInv, ShareTypes, NoFile
<1>4. HoldsVolume(t)
  BY DEF HoldsVolume, HoldsSystem, Holding
<1>5. QED BY <1>1, <1>2, <1>3, <1>4, FatLockAssumption DEF Open, Vol

LEMMA CloseCheck ==
  ASSUME LockInv, CheckInv, NEW t \in Task, dec_share(t) \/ EraseEntry(t)
  PROVE  CheckInv'
<1> USE DEF mounts, locks
<1> DEFINE l == obj[t].lockid
<1>1. PICK p \in {"release", "erase"}, q \in {"erase", "closed"} :
        At(t, p) /\ Goto(t, q) /\ UNCHANGED <<Fsid, fs, obj, stale>>
  BY DEF dec_share, EraseEntry
<1>2. /\ CallOK(t) /\ FilOK(t) /\ call[t] \in Calls /\ LockTypes /\ ShareTypes /\ IdsOK
      /\ l \in Slot
  BY <1>1, OwnSlot DEF LockInv, LockTypes, CheckInv, At, Holding
<1>3. /\ Files' \in [Slot -> Entry]
      /\ \A j \in Slot : /\ Files'[j].file = Files[j].file \/ Files'[j].file = Null
                         /\ Files'[j].ctr = Files[j].ctr \/ Files'[j].ctr # Writing
  <2>1. CASE dec_share(t)
    <3>1. Files[l] \in Entry /\ Less(Files[l].ctr) \in 0..Writing /\ Less(Files[l].ctr) # Writing
      BY <1>2 DEF ShareTypes, Entry, Less, Writing
    <3>2. Files' = [Files EXCEPT ![l].ctr = Less(Files[l].ctr)]
      BY <1>2, <2>1 DEF dec_share, ShareTypes, Entry
    <3>3. QED BY <1>2, <3>1, <3>2 DEF ShareTypes, Entry
  <2>2. CASE EraseEntry(t)
    BY <1>2, <2>2 DEF EraseEntry, ShareTypes, Entry
  <2>3. QED BY <2>1, <2>2
<1>4. /\ call'[t].at = q /\ call'[t].op = call[t].op /\ call'[t].file = call[t].file
      /\ \A u \in Task \ {t} : call'[u] = call[u]
  BY <1>1, <1>2 DEF Goto, LockTypes, Calls
<1>5. ShareTypes' /\ IdsOK'
  BY <1>1, <1>2, <1>3 DEF ShareTypes, IdsOK
<1>6. FilOK(t)'
  BY <1>1, <1>2, <1>4 DEF FilOK, At, syslock, Vol, Using, Opening, Holding
<1>7. \A u \in Task \ {t} : FilOK(u)'
  BY <1>1, <1>4, OtherFil DEF CheckInv
<1>8. ASSUME NEW u \in Task, At(u, "found")' PROVE chk_share(u)'
  <2>1. u # t /\ call'[u] = call[u] /\ chk_share(u) /\ call[u].file \in File
    BY <1>1, <1>4, <1>8 DEF CheckInv, At, LockInv, CallOK
  <2>2. call[u].file # Null
    BY <2>1, FatLockAssumption
  <2>3. QED BY <1>3, <2>1, <2>2 DEF chk_share, Entries
<1>9. QED BY <1>5, <1>6, <1>7, <1>8 DEF CheckInv

LEMMA BlankCheck ==
  ASSUME LockInv, CheckInv, NEW t \in Task, Closed(t) \/ Forget(t)
  PROVE  CheckInv'
<1> USE DEF mounts, locks
<1>1. /\ obj' = [obj EXCEPT ![t] = NoFile] /\ UNCHANGED <<Files, Fsid, fs, stale>>
      /\ UNCHANGED call \/ (At(t, "closed") /\ Goto(t, "unlock"))
  BY DEF Closed, Forget
<1>2. /\ CallOK(t) /\ FilOK(t) /\ call[t] \in Calls /\ LockTypes /\ ShareTypes /\ IdsOK
  BY DEF LockInv, LockTypes, CheckInv
<1>3. ShareTypes' /\ IdsOK'
  BY <1>1, <1>2 DEF ShareTypes, IdsOK, NoFile
<1>4. /\ obj'[t] = NoFile
      /\ \A u \in Task \ {t} : call'[u] = call[u] /\ obj'[u] = obj[u]
  BY <1>1, <1>2 DEF Goto, LockTypes, ShareTypes
<1>5. \A u \in Task \ {t} : FilOK(u)'
  BY <1>1, <1>4, OtherFil DEF CheckInv
<1>6. FilOK(t)' /\ ~At(t, "found")'
  <2>1. CASE At(t, "closed") /\ Goto(t, "unlock")
    <3>1. call'[t].at = "unlock" /\ call'[t].op = call[t].op
      BY <1>2, <2>1 DEF Goto, LockTypes, Calls
    <3>2. call[t].op # "f_sync of f_close"
      BY <1>2, <2>1 DEF FilOK, At, Using
    <3>3. QED BY <1>4, <3>1, <3>2 DEF FilOK, At, Using, Opening, Holding
  <2>2. CASE Forget(t)
    <3>1. At(t, "idle") /\ UNCHANGED call
      BY <2>2 DEF Forget
    <3>2. QED BY <1>2, <1>4, <3>1 DEF FilOK, At, Using, Opening, Holding
  <2>3. QED BY <2>1, <2>2 DEF Closed
<1>7. ASSUME NEW u \in Task, At(u, "found")' PROVE chk_share(u)'
  BY <1>1, <1>4, <1>6, <1>7 DEF CheckInv, At, chk_share, Entries
<1>8. QED BY <1>3, <1>5, <1>6, <1>7 DEF CheckInv

-----------------------------------------------------------------------------
(* And the entries match the files that are open.                          *)

\* Who erases an entry works on the entry's file, and holds its volume.
LEMMA Eraser ==
  ASSUME LockInv, CheckInv, ShareInv, ~stale, NEW u \in Task, At(u, "erase")
  PROVE  /\ obj[u].lockid \in Slot /\ HoldsVolume(u)
         /\ Files[obj[u].lockid].ctr = 0
         /\ Files[obj[u].lockid].file = call[u].file
         /\ call[u].file \in File
<1>1. obj[u].lockid \in Slot /\ obj[u].file = call[u].file /\ obj[u].file \in File
      /\ HoldsVolume(u)
  BY OwnSlot DEF At, Holding
<1>2. Files[obj[u].lockid] = [file |-> obj[u].file, ctr |-> 0]
  BY DEF ShareInv, EraseOK
<1>3. QED BY <1>1, <1>2

\* A task that holds the volume of an entry is the only one that may be erasing it.
LEMMA EraserElsewhere ==
  ASSUME LockInv, CheckInv, ShareInv, ~stale, NEW t \in Task, HoldsVolume(t),
         NEW i \in Slot, Files[i].file \in {Null, call[t].file},
         NEW u \in Task \ {t}, At(u, "erase")
  PROVE  obj[u].lockid # i
<1>1. /\ HoldsVolume(u) /\ Files[obj[u].lockid].file = call[u].file
      /\ call[u].file \in File
  BY Eraser
<1>2. call[u].file # call[t].file
  BY <1>1, Alone DEF Vol
<1>3. QED BY <1>1, <1>2, FatLockAssumption

\* The users of an entry that changes hands.
LEMMA EntryKept ==
  ASSUME NEW i \in Slot, EntryOK(i), Users(i)' = Users(i), Files'[i] = Files[i],
         \A u \in Users(i) : obj'[u] = obj[u],
         \A u \in Task : At(u, "erase") /\ obj[u].lockid = i =>
                           At(u, "erase")' /\ obj'[u].lockid = i
  PROVE  EntryOK(i)'
BY DEF EntryOK

LEMMA EnteredShare ==
  ASSUME LockInv, CheckInv, ShareInv, NEW t \in Task, call[t].op = "f_open",
         At(t, "found"), Goto(t, "opened"),
         NEW i \in Slot, NEW n \in 1..Writing, Entered(t, i, n),
         UNCHANGED <<Fsid, fs, stale>>, ~stale
  PROVE  ShareInv'
<1> DEFINE o == [file |-> call[t].file, id |-> fs[Vol(t)].id, lockid |-> i,
                 write |-> call[t].write]
<1>1. /\ CallOK(t) /\ FilOK(t) /\ call[t] \in Calls /\ LockTypes /\ ShareTypes
      /\ call[t].file \in File /\ HoldsVolume(t) /\ obj[t] = NoFile
  BY DEF LockInv, LockTypes, CheckInv, CallOK, FilOK, At, PathPlaces, Opening,
         HoldsVolume, HoldsSystem
<1>2. /\ obj' = [obj EXCEPT ![t] = o]
      /\ Files' = [Files EXCEPT ![i] = [file |-> call[t].file, ctr |-> n]]
  BY DEF Entered
<1>3. /\ o.file = call[t].file /\ o.id = fs[VolumeOf[o.file]].id /\ o.lockid = i
      /\ o.write = call[t].write
  BY DEF Vol
<1> HIDE DEF o
<1>4. /\ obj'[t] = o /\ call'[t].at = "opened"
      /\ \A u \in Task \ {t} : call'[u] = call[u] /\ obj'[u] = obj[u]
      /\ Files'[i].file = call[t].file /\ Files'[i].ctr = n
      /\ \A j \in Slot \ {i} : Files'[j] = Files[j]
  BY <1>1, <1>2 DEF Goto, LockTypes, ShareTypes, Calls
<1>5. \A j \in Slot : Users(j) \subseteq Task \ {t}
  BY <1>1, FatLockAssumption DEF Users, NoFile, Slot
<1>6. Users(i)' = Users(i) \cup {t}
  BY <1>3, <1>4, <1>5 DEF Users
<1>7. \A j \in Slot \ {i} : Users(j)' = Users(j)
  BY <1>3, <1>4, <1>5 DEF Users
<1>8. Files[i].file \in {Null, call[t].file}
  BY DEF Entered
<1>9. ASSUME NEW j \in Slot \ {i} PROVE EntryOK(j)'
  <2>1. EntryOK(j) /\ \A u \in Users(j) : obj'[u] = obj[u]
    BY <1>4, <1>5 DEF ShareInv
  <2>2. ASSUME NEW u \in Task, At(u, "erase")
        PROVE  At(u, "erase")' /\ obj'[u] = obj[u]
    BY <1>4, <2>2 DEF At
  <2>3. QED BY <1>4, <1>7, <2>1, <2>2, EntryKept
<1>10. EntryOK(i)'
  <2>1. EntryOK(i) /\ IsFiniteSet(Users(i)) /\ Cardinality(Users(i)) \in Nat
    BY UsersFinite DEF ShareInv
  <2>2. Cardinality(Users(i) \cup {t}) = Cardinality(Users(i)) + 1
    BY <1>5, <2>1, FS_AddElement
  <2>3. CASE Files[i].file = Null /\ n = IF call[t].write THEN Writing ELSE 1
    <3>1. ASSUME NEW u \in Users(i) PROVE FALSE
      BY <2>1, <2>3, UserOpen, FatLockAssumption DEF EntryOK, CheckInv, Open
    <3>2. Users(i)' = {t} /\ Cardinality({t}) = 1
      BY <1>6, <3>1, FS_Singleton
    <3>3. QED BY <1>3, <1>4, <2>3, <3>2 DEF EntryOK, Writing
  <2>4. CASE Files[i].file = call[t].file /\ ~call[t].write /\ n = Files[i].ctr + 1
    <3>1. Files[i].ctr # Writing
      BY <2>4 DEF Writing
    <3>2. /\ \A u \in Users(i) : ~obj[u].write
          /\ Files[i].ctr = Cardinality(Users(i))
      BY <2>1, <3>1 DEF EntryOK
    <3>3. \A u \in Users(i)' : ~obj'[u].write /\ obj'[u].file = call[t].file
      BY <1>3, <1>4, <1>5, <1>6, <2>1, <2>4, <3>2 DEF EntryOK
    <3>4. Files'[i].ctr = Cardinality(Users(i)') /\ Files'[i].ctr # 0
      BY <1>4, <1>6, <2>2, <2>4, <3>2
    <3>5. QED BY <1>4, <3>3, <3>4 DEF EntryOK
  <2>5. QED BY <2>3, <2>4 DEF Entered
<1>11. ASSUME NEW u \in Task PROVE EraseOK(u)'
  <2>1. At(u, "erase")' => u # t /\ At(u, "erase")
    BY <1>4 DEF At
  <2>2. At(u, "erase")' => obj[u].lockid \in Slot \ {i}
    BY <1>1, <1>8, <2>1, Eraser, EraserElsewhere
  <2>3. QED BY <1>4, <2>1, <2>2 DEF ShareInv, EraseOK
<1>12. QED BY <1>9, <1>10, <1>11 DEF ShareInv

LEMMA SetIdShare ==
  ASSUME LockInv, CheckInv, ShareInv, NEW t \in Task, SetId(t), ~stale
  PROVE  ShareInv'
<1> DEFINE v == Vol(t)
<1>1. /\ At(t, "typed") /\ Goto(t, "check") /\ Fsid' = Fsid + 1
      /\ fs' = [fs EXCEPT ![v].id = Fsid + 1]
      /\ Files' = Cleared(v) /\ UNCHANGED <<obj, stale>>
  BY DEF SetId
<1>2. /\ CallOK(t) /\ call[t] \in Calls /\ LockTypes /\ ShareTypes /\ IdsOK
      /\ v \in Volume /\ HoldsVolume(t)
  BY <1>1, FatLockAssumption
  DEF LockInv, LockTypes, CheckInv, CallOK, At, Vol, PathPlaces, HoldsVolume, HoldsSystem
<1>3. /\ fs'[v].id = Fsid + 1
      /\ \A w \in Volume \ {v} : fs'[w].id = fs[w].id
  BY <1>1, <1>2 DEF ShareTypes
<1>4. /\ call'[t].at = "check"
      /\ \A u \in Task \ {t} : call'[u] = call[u]
  BY <1>1, <1>2 DEF Goto, LockTypes, Calls
<1>5. ASSUME NEW j \in Slot PROVE \A u \in Users(j) : obj[u].file = Files[j].file
  BY <1>5 DEF ShareInv, EntryOK
<1>6. ASSUME NEW j \in Slot PROVE Users(j)' = {u \in Users(j) : VolumeOf[obj[u].file] # v}
  <2>1. ASSUME NEW u \in Task, obj[u].lockid = j
        PROVE  VolumeOf[obj[u].file] \in Volume /\ obj[u].id <= Fsid /\ obj[u].id \in Nat
    BY <1>2, <2>1, FatLockAssumption DEF ShareTypes, IdsOK, NoFile, Slot, Open
  <2>2. \A u \in Task : call'[u].at \in {"erase", "closed"} <=> call[u].at \in {"erase", "closed"}
    BY <1>1, <1>4 DEF At
  <2>3. Fsid \in Nat
    BY <1>2 DEF ShareTypes
  <2>4. ASSUME NEW u \in Task, obj[u].lockid = j
        PROVE  obj[u].id = fs'[VolumeOf[obj[u].file]].id <=>
                 obj[u].id = fs[VolumeOf[obj[u].file]].id /\ VolumeOf[obj[u].file] # v
    <3>1. CASE VolumeOf[obj[u].file] = v
      BY <1>3, <2>1, <2>3, <2>4, <3>1
    <3>2. CASE VolumeOf[obj[u].file] # v
      BY <1>3, <2>1, <2>4, <3>2
    <3>3. QED BY <3>1, <3>2
  <2>5. QED BY <1>1, <2>2, <2>4 DEF Users
<1>7. ASSUME NEW j \in Slot, Files[j].file # Null, VolumeOf[Files[j].file] = v
      PROVE  EntryOK(j)'
  <2>1. Users(j)' = {}
    BY <1>5, <1>6, <1>7
  <2>2. Files'[j] = NoEntry
    BY <1>1, <1>7 DEF Cleared
  <2>3. QED BY <2>1, <2>2, FS_EmptySet DEF EntryOK, NoEntry
<1>8. ASSUME NEW j \in Slot, ~(Files[j].file # Null /\ VolumeOf[Files[j].file] = v)
      PROVE  EntryOK(j)' /\ Files'[j] = Files[j]
  <2>1. Files'[j] = Files[j]
    BY <1>1, <1>8 DEF Cleared
  <2>2. ASSUME NEW u \in Users(j) PROVE VolumeOf[obj[u].file] # v
    <3>1. obj[u].file = Files[j].file /\ obj[u].file \in File
      BY <1>5, UserOpen DEF CheckInv, Open
    <3>2. QED BY <1>8, <3>1, FatLockAssumption
  <2>3. Users(j)' = Users(j)
    BY <1>6, <2>2
  <2>4. QED BY <1>1, <1>4, <2>1, <2>3, EntryKept DEF ShareInv, At
<1>9. ASSUME NEW u \in Task PROVE EraseOK(u)'
  <2>1. SUFFICES ASSUME At(u, "erase")' PROVE EraseOK(u)'
    BY DEF EraseOK
  <2>2. u # t /\ At(u, "erase")
    BY <1>4, <2>1 DEF At
  <2>3. /\ HoldsVolume(u) /\ obj[u].lockid \in Slot
        /\ Files[obj[u].lockid].file = call[u].file
    BY <2>2, Eraser
  <2>4. VolumeOf[Files[obj[u].lockid].file] # v
    BY <1>2, <2>2, <2>3, Alone DEF Vol
  <2>5. Files'[obj[u].lockid] = Files[obj[u].lockid]
    BY <1>8, <2>3, <2>4
  <2>6. QED BY <1>1, <2>2, <2>5 DEF ShareInv, EraseOK
<1>10. QED BY <1>7, <1>8, <1>9 DEF ShareInv

\* Needs that no more files are open than a count can tell from a writer.
LEMMA DecShare ==
  ASSUME Cardinality(Task) < Writing,
         LockInv, CheckInv, ShareInv, NEW t \in Task, dec_share(t), ~stale
  PROVE  ShareInv'
<1> USE DEF mounts, locks
<1>0. PICK i : i = obj[t].lockid
  OBVIOUS
<1> DEFINE n == Less(Files[i].ctr)
           q == IF n = 0 THEN "erase" ELSE "closed"
<1>1. /\ At(t, "release") /\ Goto(t, q) /\ UNCHANGED <<fs, obj, stale>>
      /\ Files' = [Files EXCEPT ![i].ctr = n]
  BY <1>0 DEF dec_share
<1>2. /\ call[t] \in Calls /\ LockTypes /\ ShareTypes /\ HoldsVolume(t)
      /\ i \in Slot /\ obj[t].file = call[t].file /\ call[t].file \in File
      /\ obj[t].id = fs[VolumeOf[obj[t].file]].id
  BY <1>0, <1>1, OwnSlot DEF LockInv, LockTypes, CheckInv, At, Holding, Vol
<1>3. t \in Users(i) /\ \A j \in Slot \ {i} : t \notin Users(j)
  BY <1>0, <1>1, <1>2 DEF Users, At
<1>4. EntryOK(i) /\ Files[i].file = call[t].file
  BY <1>2, <1>3 DEF ShareInv, EntryOK
<1>5. /\ call'[t].at = q
      /\ \A u \in Task \ {t} : call'[u] = call[u]
      /\ Files'[i].ctr = n /\ Files'[i].file = Files[i].file
      /\ \A j \in Slot \ {i} : Files'[j] = Files[j]
      /\ Files'[i] = [file |-> Files[i].file, ctr |-> n]
  BY <1>1, <1>2 DEF Goto, LockTypes, ShareTypes, Calls, Entry
<1>6. Users(i)' = Users(i) \ {t}
  BY <1>1, <1>3, <1>5 DEF Users
<1>7. \A j \in Slot \ {i} : Users(j)' = Users(j)
  BY <1>1, <1>3, <1>5 DEF Users
<1>8. ASSUME NEW j \in Slot \ {i} PROVE EntryOK(j)'
  BY <1>1, <1>5, <1>7, EntryKept DEF ShareInv, At
<1>9. /\ IsFiniteSet(Users(i)) /\ Cardinality(Users(i)) \in Nat
      /\ Cardinality(Users(i)) < Writing /\ Cardinality(Users(i) \ {t}) = Cardinality(Users(i)) - 1
  <2>1. /\ IsFiniteSet(Users(i)) /\ Cardinality(Users(i)) \in Nat
        /\ Cardinality(Users(i)) <= Cardinality(Task)
    BY <1>2, UsersFinite
  <2>2. Cardinality(Task) \in Nat
    BY FS_CardinalityType, FatLockAssumption
  <2>3. Cardinality(Users(i) \ {t}) = Cardinality(Users(i)) - 1
    BY <1>3, <2>1, FS_RemoveElement
  <2>4. QED BY <2>1, <2>2, <2>3 DEF Writing
<1>10. n = Cardinality(Users(i)') /\ \A u \in Users(i)' : ~obj[u].write
  <2>1. CASE \E u \in Users(i) : obj[u].write
    <3>1. Cardinality(Users(i)) = 1 /\ Files[i].ctr = Writing
      BY <1>4, <2>1 DEF EntryOK
    <3>2. Cardinality(Users(i) \ {t}) = 0 /\ IsFiniteSet(Users(i) \ {t})
      BY <1>9, <3>1, FS_RemoveElement
    <3>3. Users(i) \ {t} = {}
      BY <3>2, FS_EmptySet
    <3>4. QED BY <1>6, <3>1, <3>2, <3>3 DEF Less
  <2>2. CASE ~\E u \in Users(i) : obj[u].write
    <3>1. Files[i].ctr = Cardinality(Users(i)) /\ Files[i].ctr # Writing
      BY <1>4, <1>9, <2>2 DEF EntryOK
    <3>2. Cardinality(Users(i)) # 0
      BY <1>3, <1>9, FS_EmptySet
    <3>3. QED BY <1>6, <1>9, <2>2, <3>1, <3>2 DEF Less
  <2>3. QED BY <2>1, <2>2
<1>11. EntryOK(i)'
  <2>1. \A u \in Users(i)' : obj[u].file = Files[i].file
    BY <1>4, <1>6 DEF EntryOK
  <2>2. n = 0 => At(t, "erase")'
    BY <1>5 DEF At
  <2>3. QED BY <1>0, <1>1, <1>5, <1>10, <2>1, <2>2 DEF EntryOK
<1>12. ASSUME NEW u \in Task PROVE EraseOK(u)'
  <2>1. CASE u = t
    BY <1>0, <1>1, <1>2, <1>4, <1>5, <2>1 DEF EraseOK, At
  <2>2. CASE u # t
    <3>1. At(u, "erase")' => At(u, "erase")
      BY <1>5, <2>2 DEF At
    <3>2. At(u, "erase")' => obj[u].lockid \in Slot \ {i}
      BY <1>2, <1>4, <2>2, <3>1, Eraser, EraserElsewhere
    <3>3. QED BY <1>1, <1>5, <3>1, <3>2 DEF ShareInv, EraseOK
  <2>3. QED BY <2>1, <2>2
<1>13. QED BY <1>8, <1>11, <1>12 DEF ShareInv

LEMMA EraseShare ==
  ASSUME LockInv, CheckInv, ShareInv, NEW t \in Task, EraseEntry(t), ~stale
  PROVE  ShareInv'
<1> USE DEF mounts, locks
<1>0. PICK i : i = obj[t].lockid
  OBVIOUS
<1>1. /\ At(t, "erase") /\ Goto(t, "closed") /\ UNCHANGED <<fs, obj, stale>>
      /\ Files' = [Files EXCEPT ![i].file = Null]
  BY <1>0 DEF EraseEntry
<1>2. /\ call[t] \in Calls /\ LockTypes /\ ShareTypes /\ HoldsVolume(t)
      /\ i \in Slot /\ Files[i].ctr = 0 /\ Files[i].file = call[t].file
  BY <1>0, <1>1, Eraser DEF LockInv, LockTypes, CheckInv
<1>3. /\ call'[t].at = "closed"
      /\ \A u \in Task \ {t} : call'[u] = call[u]
      /\ Files'[i].ctr = 0 /\ Files'[i].file = Null
      /\ \A j \in Slot \ {i} : Files'[j] = Files[j]
  BY <1>1, <1>2 DEF Goto, LockTypes, ShareTypes, Calls, Entry
<1>4. ASSUME NEW j \in Slot PROVE Users(j)' = Users(j) /\ t \notin Users(j)
  BY <1>1, <1>3 DEF Users, At
<1>5. ASSUME NEW j \in Slot \ {i} PROVE EntryOK(j)'
  <2>1. ASSUME NEW u \in Task, At(u, "erase"), obj[u].lockid = j PROVE At(u, "erase")'
    BY <1>0, <1>3, <2>1 DEF At
  <2>2. QED BY <1>1, <1>3, <1>4, <2>1, EntryKept DEF ShareInv
<1>6. EntryOK(i)'
  <2>1. EntryOK(i) /\ IsFiniteSet(Users(i))
    BY <1>2, UsersFinite DEF ShareInv
  <2>2. Cardinality(Users(i)) = 0
    BY <1>2, <2>1 DEF EntryOK, Writing
  <2>3. Users(i)' = {}
    BY <1>2, <1>4, <2>1, <2>2, FS_EmptySet
  <2>4. QED BY <1>3, <2>3, FS_EmptySet DEF EntryOK
<1>7. ASSUME NEW u \in Task PROVE EraseOK(u)'
  <2>1. At(u, "erase")' => u # t /\ At(u, "erase")
    BY <1>3 DEF At
  <2>2. At(u, "erase")' => obj[u].lockid \in Slot \ {i}
    BY <1>2, <2>1, Eraser, EraserElsewhere
  <2>3. QED BY <1>1, <1>3, <2>1, <2>2 DEF ShareInv, EraseOK
<1>8. QED BY <1>5, <1>6, <1>7 DEF ShareInv

LEMMA BlankShare ==
  ASSUME LockInv, CheckInv, ShareInv, NEW t \in Task, Closed(t) \/ Forget(t), ~stale
  PROVE  ShareInv'
<1> USE DEF mounts, locks
<1>1. /\ obj' = [obj EXCEPT ![t] = NoFile] /\ UNCHANGED <<Files, fs, stale>>
      /\ \/ At(t, "closed") /\ Goto(t, "unlock")
         \/ /\ At(t, "idle") /\ UNCHANGED call
            /\ obj[t].id # fs[VolumeOf[obj[t].file]].id
  BY DEF Closed, Forget
<1>2. call[t] \in Calls /\ LockTypes /\ ShareTypes
  BY DEF LockInv, LockTypes, CheckInv
<1>3. /\ obj'[t] = NoFile /\ call'[t].at \in {"unlock", "idle"}
      /\ \A u \in Task \ {t} : call'[u] = call[u] /\ obj'[u] = obj[u]
  BY <1>1, <1>2 DEF Goto, LockTypes, ShareTypes, Calls, At
<1>4. ASSUME NEW j \in Slot PROVE Users(j)' = Users(j) /\ t \notin Users(j)
  BY <1>1, <1>3, FatLockAssumption DEF Users, At, NoFile, Slot
<1>5. ASSUME NEW u \in Task, At(u, "erase") \/ At(u, "erase")'
      PROVE  u # t /\ call'[u] = call[u] /\ obj'[u] = obj[u]
  BY <1>1, <1>3, <1>5 DEF At
<1>6. ASSUME NEW j \in Slot PROVE EntryOK(j)'
  BY <1>1, <1>3, <1>4, <1>5, EntryKept DEF ShareInv, At
<1>7. ASSUME NEW u \in Task PROVE EraseOK(u)'
  BY <1>1, <1>5 DEF ShareInv, EraseOK, At
<1>8. QED BY <1>6, <1>7 DEF ShareInv

-----------------------------------------------------------------------------
LEMMA TableInit == Init => CheckInv /\ ShareInv
<1> SUFFICES ASSUME Init PROVE CheckInv /\ ShareInv
  OBVIOUS
<1>1. /\ \A t \in Task : call[t] = NoCall /\ obj[t] = NoFile
      /\ \A i \in Slot : Files[i] = NoEntry
  BY DEF Init
<1>2. ShareTypes /\ IdsOK
  <2>1. Files \in [Slot -> Entry]
    BY DEF Init, Entry, NoEntry, Writing
  <2>2. obj \in [Task -> {NoFile} \cup Open] /\ stale \in BOOLEAN /\ Fsid = 0
    BY DEF Init
  <2>3. fs \in [Volume -> [type : BOOLEAN, id : Nat]] /\ \A v \in Volume : fs[v].id = 0
    BY DEF Init
  <2>4. \A t \in Task : obj[t].id = 0
    BY <1>1 DEF NoFile
  <2>5. QED BY <2>1, <2>2, <2>3, <2>4 DEF ShareTypes, IdsOK
<1>3. ASSUME NEW t \in Task PROVE FilOK(t) /\ ~At(t, "found") /\ EraseOK(t)
  <2>1. call[t].at = "idle" /\ call[t].op = "none"
    BY <1>1 DEF NoCall
  <2>2. QED BY <2>1 DEF FilOK, EraseOK, At, Using, Opening, Holding
<1>4. \A i \in Slot : Users(i) = {}
  BY <1>1, FatLockAssumption DEF Users, NoFile, Slot
<1>5. \A i \in Slot : EntryOK(i)
  BY <1>1, <1>4, FS_EmptySet DEF EntryOK, NoEntry
<1>6. QED BY <1>2, <1>3, <1>5 DEF CheckInv, ShareInv

\* A task either does not touch the table, or takes one of the steps that do.
LEMMA StepKinds ==
  ASSUME LockInv, CheckInv, NEW t \in Task,
         InCall(t) \/ TimesOut(t) \/ CallPath(t) \/ CallFile(t) \/ Forget(t)
  PROVE  \/ Quiet(t) /\ CheckInv'
         \/ inc_share(t) \/ SetId(t) \/ dec_share(t) \/ EraseEntry(t) \/ Closed(t) \/ Forget(t)
BY QuietLocks, QuietOpens, QuietCalls, QuietUse DEF InCall

LEMMA CheckStep == LockInv /\ CheckInv /\ [Next]_vars => CheckInv'
<1> SUFFICES ASSUME LockInv, CheckInv, [Next]_vars PROVE CheckInv'
  OBVIOUS
<1>1. ASSUME NEW t \in Task,
             InCall(t) \/ TimesOut(t) \/ CallPath(t) \/ CallFile(t) \/ Forget(t)
      PROVE  CheckInv'
  <2>1. CASE inc_share(t)
    <3>1. At(t, "found") /\ UNCHANGED <<Fsid, fs, stale>>
      BY <2>1 DEF inc_share, mounts
    <3>2. QED BY <2>1, <3>1, IncShareEnters, EnteredCheck
  <2>2. QED BY <1>1, <2>1, StepKinds, SetIdCheck, CloseCheck, BlankCheck
<1>2. CASE (\E v \in Volume : Eject(v)) \/ UNCHANGED vars
  <2>1. UNCHANGED <<Files, fs, Fsid, obj, call, stale>>
    BY <1>2 DEF Eject, vars
  <2>2. ShareTypes' /\ IdsOK'
    BY <2>1 DEF CheckInv, ShareTypes, IdsOK
  <2>3. \A u \in Task : FilOK(u)' /\ (At(u, "found")' => chk_share(u)')
    BY <2>1 DEF CheckInv, FilOK, At, syslock, Vol, chk_share, Entries
  <2>4. QED BY <2>2, <2>3 DEF CheckInv
<1>3. QED BY <1>1, <1>2 DEF Next

LEMMA ShareStep ==
  ASSUME Cardinality(Task) < Writing
  PROVE  LockInv /\ CheckInv /\ ShareInv /\ [Next]_vars => ShareInv'
<1> SUFFICES ASSUME LockInv, CheckInv, ShareInv, [Next]_vars PROVE ShareInv'
  OBVIOUS
<1>1. ASSUME NEW t \in Task,
             InCall(t) \/ TimesOut(t) \/ CallPath(t) \/ CallFile(t) \/ Forget(t)
      PROVE  ShareInv'
  <2>1. CASE Quiet(t)
    BY <2>1, QuietShare
  <2>2. CASE ~Quiet(t)
    <3>1. \/ inc_share(t) \/ SetId(t) \/ dec_share(t) \/ EraseEntry(t) \/ Closed(t) \/ Forget(t)
      BY <1>1, <2>2, StepKinds
    <3>2. stale' = stale
      BY <3>1 DEF inc_share, SetId, dec_share, EraseEntry, Closed, Forget
    <3>3. CASE stale
      BY <3>2, <3>3 DEF ShareInv
    <3>4. CASE ~stale /\ inc_share(t)
      <4>1. call[t].op = "f_open" /\ At(t, "found") /\ UNCHANGED <<Fsid, fs, stale>>
        BY <3>4 DEF inc_share, mounts
      <4>2. QED BY <2>2, <3>4, <4>1, IncShareEnters, EnteredShare
    <3>5. QED BY <3>1, <3>3, <3>4, SetIdShare, DecShare, EraseShare, BlankShare
  <2>3. QED BY <2>1, <2>2
<1>2. CASE (\E v \in Volume : Eject(v)) \/ UNCHANGED vars
  <2>1. UNCHANGED <<Files, fs, obj, call, stale>>
    BY <1>2 DEF Eject, vars
  <2>2. \A i \in Slot : Users(i)' = Users(i)
    BY <2>1 DEF Users
  <2>3. \A i \in Slot : EntryOK(i) => EntryOK(i)'
    BY <2>1, <2>2 DEF EntryOK, At
  <2>4. \A u \in Task : EraseOK(u) => EraseOK(u)'
    BY <2>1 DEF EraseOK, At
  <2>5. QED BY <2>1, <2>3, <2>4 DEF ShareInv
<1>3. QED BY <1>1, <1>2 DEF Next

LEMMA CheckInvariant == Spec => []CheckInv
<1>1. LockInv /\ CheckInv /\ [Next]_vars => LockInv' /\ CheckInv'
  BY LockStep, CheckStep
<1>2. QED BY LockInit, TableInit, <1>1, PTL DEF Spec

(***************************************************************************)
(* What chk_share allowed still holds when inc_share or f_unlink acts on   *)
(* it, whatever the other tasks do in between: f_close may change the      *)
(* table then, without the system mutex, and so may a call that uses an    *)
(* object of an earlier mount, but neither adds a user to an entry         *)
(* (FatFs.cpp:988, 1033).                                                  *)
(***************************************************************************)
THEOREM CheckAlwaysHolds == Spec => []CheckStillHolds
<1>1. CheckInv => CheckStillHolds
  BY DEF CheckInv, CheckStillHolds
<1>2. QED BY CheckInvariant, <1>1, PTL

(***************************************************************************)
(* The table counts the open files, with fewer tasks than the 256 that     *)
(* stand for a writer ("0x01..0xFF: read mode open count, 0x100: write     *)
(* mode", FatFs.cpp:294): a 256th reader would make the entry a writer's,  *)
(* which the first of them to close would free.                            *)
(***************************************************************************)
THEOREM EntriesAlwaysMatch ==
  ASSUME Cardinality(Task) < Writing
  PROVE  Spec => []EntriesMatch
<1>1. LockInv /\ CheckInv /\ ShareInv /\ [Next]_vars => LockInv' /\ CheckInv' /\ ShareInv'
  BY LockStep, CheckStep, ShareStep
<1>2. ShareInv => EntriesMatch
  BY DEF ShareInv, EntriesMatch, EntryOK
<1>3. QED BY LockInit, TableInit, <1>1, <1>2, PTL DEF Spec

=============================================================================
