-------------------------------- MODULE FatFs --------------------------------
(***************************************************************************)
(* fat/FatFs.cpp as a state machine: the calls on names (f_unlink,         *)
(* f_mkdir, f_rename, f_stat, f_getfree, f_mount) beside those of FatFile  *)
(* on a file, each one step, from the volumes in the constant Disks and    *)
(* with one file object, fil.  In Faults calls a transfer fails or the     *)
(* power goes, at any transfer; after a loss of power the program starts   *)
(* again with what the drive holds.                                        *)
(***************************************************************************)
EXTENDS FatView

CONSTANTS
    Disks,           \* what the drive may hold at first
    Paths,           \* the paths that are watched
    Names,           \* those of them that the calls are given
    Moves,           \* the pairs of paths that f_rename is given
    OpenModes,       \* the modes that f_open is given
    Versions,        \* what distinguishes two writes of the same place
    Lengths,         \* how much is read or written at once
    Places,          \* where f_lseek goes
    Kinds,           \* of faults: "error" and "power"
    MaxCalls,        \* calls in a run without a fault
    FaultCalls,      \* calls in a run with one
    Faults           \* calls that meet one

VARIABLES
    disk,     \* sector -> contents
    vol,      \* the FATFS object: window and allocation information
    files,    \* Files[], the table of open objects
    fil,      \* the FIL object of the program, or NoFile
    calls,    \* calls so far
    faults,   \* faults so far
    intact,   \* no fault so far, and no volume mounted again with work unsaved
    loose,    \* history: an entry on the drive names clusters not its own, or a
              \* directory has one that was never cleared: "no", "yes", or
              \* "risk" when it will if the memory is lost
    kept,     \* history: path -> what the drive must hold there, or Anything
    shown     \* the tree and the open file as the program sees them

vars == <<disk, vol, files, fil, calls, faults, intact, loose, kept, shown>>

NoDir == [dptr |-> 0, clust |-> 0, sect |-> NoSect, blk_ofs |-> NoOfs,
          attr |-> "file", seq |-> ""]

\* The record that a call starts with.
Load(io, power) ==
    [disk |-> disk, win |-> vol.win, winsect |-> vol.winsect, wflag |-> vol.wflag,
     free_clst |-> vol.free_clst, last_clst |-> vol.last_clst,
     fsi_flag |-> vol.fsi_flag, fs_type |-> vol.fs_type, files |-> files, fp |-> fil,
     obj |-> NoObject, dp |-> NoDir, dirbuf |-> NoEntry, io |-> io, power |-> power,
     dead |-> FALSE, res |-> "OK", val |-> 0, data |-> << >>, nsect |-> NoSect,
     junk |-> NoObject, stray |-> FALSE]

\* What a call may find in an object of its own that it did not initialise,
\* and (stray) whether it has gone by it.
Junk == {NoObject} \cup
        IF Ex THEN {[NoObject EXCEPT !.sclust = 2, !.objsize = NClusters * bcs,
                                     !.n_frag = 1]} ELSE {}

-----------------------------------------------------------------------------
\* The directory obj holds nothing: then the call goes on where s was.  Its
\* n_frag is not initialised.
IfEmpty(s, obj) ==
    LET o == [obj EXCEPT !.n_frag = s.junk.n_frag]
        at == [s EXCEPT !.obj = o, !.stray = Ex /\ obj.stat # 2 /\ s.junk.n_frag # 0]
    IN  Given(Then(dir_sdi(at, 0), dir_read), LAMBDA t :
          [t EXCEPT !.obj = s.obj, !.dp = s.dp, !.dirbuf = s.dirbuf,
             !.res = CASE t.res = "OK" -> "DENIED" [] t.res = "NO_FILE" -> "OK"
                       [] OTHER -> t.res])

f_unlink(s, path) ==
    Then(Located(s, path, 2), LAMBDA a :
      LET obj == IF Ex THEN init_alloc_info(a, FALSE).obj
                 ELSE [NoObject EXCEPT !.sclust = ld_clust(ThisSlot(a))]
      IN  Then(Then(Then(IF a.dp.attr = "dir" THEN IfEmpty(a, obj) ELSE a, dir_remove),
                    LAMBDA t : IF obj.sclust = 0 THEN t
                               ELSE remove_chain([t EXCEPT !.obj = obj], obj.sclust, 0)),
               sync_fs))

\* The object ID that f_mkdir makes the new chain with is not initialised;
\* create_chain sets its status on exFAT, and remove_chain reads the rest.
DotEntries(s, dcl, parent) ==
    IF Ex THEN s ELSE [s EXCEPT !.win[0] = dot(dcl), !.win[1] = dot(parent), !.wflag = TRUE]
DirEntry(s, name, dcl) ==
    IF Ex THEN store_xdir([s EXCEPT !.dirbuf = [attr |-> "dir", stat |-> 2,
                             clus |-> dcl, size |-> bcs, name |-> name]])
    ELSE SetSlot(s, sfn(name, "dir", dcl, 0))

\* A directory of the name in the place a, in the new cluster m.val.
MakeDir(m, a, name) ==
    Given(Then(Then(dir_clear(m, m.val), LAMBDA t : DotEntries(t, m.val, a.obj.sclust)),
               LAMBDA t : dir_register([t EXCEPT !.obj = a.obj, !.dp = a.dp], name)),
      LAMBDA b :
        IF b.res = "OK" THEN Then(DirEntry(b, name, m.val), sync_fs)
        ELSE [remove_chain([Ignore(b) EXCEPT !.stray = Ex,
                              !.obj = [b.junk EXCEPT !.stat = 2]], m.val, 0)
              EXCEPT !.res = b.res])

f_mkdir(s, path) ==
    Given(Then(mount_volume(s), LAMBDA t : follow_path(t, path)), LAMBDA a :
      CASE a.res = "OK" -> Fail(a, "EXIST")
        [] a.res # "NO_FILE" -> a
        [] OTHER ->
             Given(create_chain([Ignore(a) EXCEPT !.obj = NoObject], 0), LAMBDA m :
               CASE m.val = 0 -> Fail(m, "DENIED")
                 [] ChainResult(m.val) # "OK" -> Fail(m, ChainResult(m.val))
                 [] OTHER -> MakeDir(m, a, path[Len(path)])))

\* A directory that moves to another parent has its ".." corrected.
Reparent(s, clus, parent) ==
    Then(move_window(s, clst2sect(clus)), LAMBDA t :
         IF t.win[1].k = "dot" THEN [t EXCEPT !.win[1] = st_clust(@, parent), !.wflag = TRUE]
         ELSE t)

\* The new entry of the object that was at a; FAT32: a directory that changes
\* its parent has its ".." corrected.
MovedEntry(b, a, name) ==
    LET was == ThisSlot(a)
        entry == [was EXCEPT !.name = name]
    IN  CASE Ex -> store_xdir([b EXCEPT !.dirbuf = [a.dirbuf EXCEPT !.name = name]])
          [] was.attr # "dir" \/ a.obj.sclust = b.obj.sclust -> SetSlot(b, entry)
          [] was.clus \notin Clusters -> Fail(SetSlot(b, entry), "INT_ERR")
          [] OTHER -> Reparent(SetSlot(b, entry), was.clus, b.obj.sclust)

Move(a, n, name) ==
    Then(Then(Then(dir_register(Ignore(n), name), LAMBDA b : MovedEntry(b, a, name)),
              LAMBDA t : dir_remove([t EXCEPT !.obj = a.obj, !.dp = a.dp])), sync_fs)

f_rename(s, old, new) ==
    Then(Located(s, old, 2), LAMBDA a :
    Given(follow_path(a, new), LAMBDA n :
      LET same == n.obj.sclust = a.obj.sclust /\ n.dp.dptr = a.dp.dptr
      IN  CASE n.res = "OK" /\ ~same -> Fail(n, "EXIST")
            [] n.res \notin {"OK", "NO_FILE"} -> n
            [] OTHER -> Move(a, n, new[Len(new)])))

f_stat(s, path) == Then(mount_volume(s), LAMBDA t : follow_path(t, path))

RECURSIVE CountFree(_, _, _)
\* Counts from the first FAT sector that holds entry c, n free so far.
CountFree(s, c, n) ==
    IF c >= n_fatent THEN Value(s, n)
    ELSE Then(move_window(s, FatSect(c)), LAMBDA t :
              CountFree(t, c + FatPerSect,
                        n + Cardinality({x \in DOMAIN t.win : x < n_fatent /\ t.win[x] = 0})))

f_getfree(s) ==
    LET Known(t) == [t EXCEPT !.free_clst = t.val,
                              !.fsi_flag = IF @ % 2 = 0 THEN @ + 1 ELSE @]
    IN  Then(mount_volume(s), LAMBDA t :
          IF t.free_clst <= n_fatent - 2 THEN Value(t, t.free_clst)
          ELSE Then(IF Ex THEN Then(move_window(t, MapSect), LAMBDA u :
                                    Value(u, Cardinality(Clusters \ u.win)))
                    ELSE CountFree(t, 0, 0), Known))

\* f_mount of the volume object again, mounted at once or by the next call:
\* what the window holds is given up, and the open objects are.
f_mount(s, now) ==
    LET t == [s EXCEPT !.fs_type = 0, !.files = NoFiles, !.fp = NoFile]
    IN  IF now THEN mount_volume(t) ELSE t

-----------------------------------------------------------------------------
(***************************************************************************)
(* What the volume holds as the program sees it: the drive under the       *)
(* window, and the open file's own idea of its size and chain.             *)
(***************************************************************************)
Seen(s) == IF s.wflag THEN [s.disk EXCEPT ![s.winsect] = s.win] ELSE s.disk

IsOpen(s, x) == /\ s.fp # NoFile
                /\ x.dir = s.files[s.fp.lockid].clu
                /\ x.ofs = s.files[s.fp.lockid].ofs

SeenObjects(s) == {IF IsOpen(s, x) THEN [x EXCEPT !.o = s.fp.obj] ELSE x :
                   x \in Objects(Seen(s))}

Edge(s, x) == IF IsOpen(s, x) THEN s.fp.clust ELSE 0

SeenContent(s, x) ==
    IF x.attr = "dir" THEN IsDir
    ELSE AFile(ContentOf(IF IsOpen(s, x) /\ s.fp.dirty
                         THEN [Seen(s) EXCEPT ![s.fp.sect] = s.fp.buf] ELSE Seen(s),
                         x.o, Edge(s, x)))

\* The tree, and the open file at the place where it is now: a directory above
\* it may have been renamed.
Shown(s) ==
    Given(SeenObjects(s), LAMBDA objects :
      LET open  == {x \in objects : IsOpen(s, x)}
          At(p) == {x \in objects : x.path = p}
          file  == CASE s.fp = NoFile -> << >>
                     [] open = {}     -> <<"lost">>
                     [] OTHER         -> (CHOOSE x \in open : TRUE).path
      IN  [store |-> [p \in Paths |-> IF At(p) = {} THEN NoContent
                         ELSE SeenContent(s, CHOOSE x \in At(p) : TRUE)],
           file  |-> [path |-> file, ptr |-> IF s.fp = NoFile THEN 0 ELSE s.fp.fptr]])

OpenPath == shown.file.path

\* dir_next links a directory's new cluster before dir_clear has cleared it and
\* (exFAT) before dir_register has ended the chain: a fault in between leaves
\* what the cluster held before as slots, or a chain without an end.
HalfGrown(d) ==
    \E o \in {[Root EXCEPT !.sclust = RootClus]}
             \cup {x.o : x \in {y \in Objects(d) : y.attr = "dir"}} :
       Given(ChainOf(d, o, 0), LAMBDA chain :
          \/ 0 \in ToSet(chain)
          \/ \E slot \in ToSet(AllUnits(d, chain)) : slot.k \in {"zero", "data"})

-----------------------------------------------------------------------------
(***************************************************************************)
(* The steps.                                                              *)
(***************************************************************************)
Anything == [kind |-> "anything", data |-> << >>]

Init == /\ disk \in Disks
        /\ vol = Unmounted
        /\ files = NoFiles
        /\ fil = NoFile
        /\ calls = 0
        /\ faults = 0
        /\ intact = TRUE
        /\ loose = "no"
        /\ kept = [p \in Paths |-> OnDrive(disk, p)]
        /\ shown = Shown(Load(0, FALSE))

\* A loss of power takes everything but what the drive holds.
Lose(s)  == Unmounted @@ [s EXCEPT !.files = NoFiles, !.fp = NoFile]
After(s) ==
    Given(IF s.dead THEN Lose(s) ELSE s, LAMBDA t :
      /\ disk' = t.disk
      /\ vol' = [win |-> t.win, winsect |-> t.winsect, wflag |-> t.wflag,
                 free_clst |-> t.free_clst, last_clst |-> t.last_clst,
                 fsi_flag |-> t.fsi_flag, fs_type |-> t.fs_type]
      /\ files' = t.files
      /\ fil' = t.fp
      /\ shown' = Shown(t))

CallBound == IF faults = 0 THEN MaxCalls ELSE FaultCalls
Broken(s) == s.res \in {"DISK_ERR", "INT_ERR"}
Lost(l, gone) == IF gone /\ l = "risk" THEN "yes" ELSE l

\* A call that meets no fault, or one at any of its transfers; Keeps is what
\* its result says of the drive, Loosens whether it leaves an entry loose.
Call(Op(_), Keeps(_), Loosens(_)) ==
    /\ calls < CallBound
    /\ calls' = calls + 1
    /\ LET clean == Op(Load(0, FALSE))
           Take(s) == /\ After(s)
                      /\ kept' = Keeps(s)
                      /\ loose' = IF s.stray \/ (Broken(s) /\ HalfGrown(IF s.dead THEN s.disk
                                                                      ELSE Seen(s)))
                                  THEN "yes" ELSE Lost(Loosens(s), s.dead)
       IN  \/ Take(clean) /\ intact' = (intact /\ ~clean.stray) /\ UNCHANGED faults
           \/ /\ faults < Faults /\ calls < FaultCalls
              /\ faults' = faults + 1
              /\ intact' = FALSE
              /\ \E io \in 1 .. 0 - clean.io, kind \in Kinds :
                    Take(Op(Load(io, kind = "power")))

\* What is kept when a call on the paths in set ends in s.
Keep(s, set, new) ==
    CASE s.res = "OK" -> [p \in Paths |-> IF p \in set THEN new ELSE kept[p]]
      [] Broken(s)    -> [p \in Paths |-> IF p \in set THEN Anything ELSE kept[p]]
      [] OTHER        -> kept
KeepAll(s) == kept
KeepNone(s) == [p \in Paths |-> IF p = OpenPath /\ fil.w THEN Anything ELSE kept[p]]

\* f_truncate to nothing frees the clusters that the entry on the drive names
\* until the file is saved: then the entry is loose if the memory is lost.
Same(s)     == loose
CutOff(s)   == IF fil.fptr = 0 /\ loose = "no" THEN "risk" ELSE loose
Mended(s)   == IF s.res = "OK" /\ fil.modified /\ loose = "risk" THEN "no" ELSE loose
BrokenOff(s) == IF Broken(s) THEN "yes" ELSE loose

Open ==
    /\ fil = NoFile
    /\ \E p \in Names, m \in OpenModes :
         LET makes == m.how = "always" \/ (m.how # "existing" /\ kept[p].kind # "file")
         IN  Call(LAMBDA s : f_open(s, p, m),
                  LAMBDA s : IF makes THEN Keep(s, {p}, Anything) ELSE kept, Same)

Read     == /\ fil # NoFile
            /\ \E n \in Lengths : Call(LAMBDA s : f_read(s, n), KeepAll, Same)
Write    == /\ fil # NoFile
            /\ \E n \in Lengths, v \in Versions :
                 Call(LAMBDA s : f_write(s, n, v), KeepNone, Same)
Seek     == /\ fil # NoFile
            /\ \E n \in Places : Call(LAMBDA s : f_lseek(s, n), KeepNone, Same)
Truncate == fil # NoFile /\ Call(f_truncate, KeepNone, CutOff)

\* The promise of f_sync and f_close: what the program sees is on the drive.
\* A call that finds nothing to save promises nothing new.
Saved(s) == IF fil.modified /\ fil.err = "OK" /\ OpenPath \in Paths
            THEN Keep(s, {OpenPath}, shown.store[OpenPath]) ELSE kept
Sync     == fil # NoFile /\ Call(f_sync, Saved, Mended)
Close    == fil # NoFile /\ Call(f_close, Saved, Mended)

Unlink == \E p \in Names, j \in Junk :
             Call(LAMBDA s : f_unlink([s EXCEPT !.junk = j], p),
                                LAMBDA s : Keep(s, {p}, NoContent), Same)
Mkdir  == \E p \in Names, j \in Junk :
             Call(LAMBDA s : f_mkdir([s EXCEPT !.junk = j], p),
                                LAMBDA s : Keep(s, {p}, IsDir), Same)

\* A rename takes everything below the old path with it.  One that is broken
\* off may leave the object under both names.
Under(p, q) == Len(p) >= Len(q) /\ SubSeq(p, 1, Len(q)) = q
Renamed(s, old, new) ==
    LET Was(p) == old \o SubSeq(p, Len(new) + 1, Len(p))
    IN  CASE s.res = "OK" /\ old = new -> kept
          [] s.res = "OK" ->
               [p \in Paths |-> CASE Under(p, old) -> NoContent
                   [] Under(p, new) -> IF Was(p) \in Paths THEN kept[Was(p)] ELSE Anything
                   [] OTHER -> kept[p]]
          [] Broken(s) -> [p \in Paths |-> IF Under(p, old) \/ Under(p, new)
                                           THEN Anything ELSE kept[p]]
          [] OTHER -> kept
Rename == \E m \in Moves : Call(LAMBDA s : f_rename(s, m[1], m[2]),
                                LAMBDA s : Renamed(s, m[1], m[2]),
                                BrokenOff)

Stat    == \E p \in Names : Call(LAMBDA s : f_stat(s, p), KeepAll, Same)
GetFree == Call(f_getfree, KeepAll, Same)

\* f_mount gives up what is not saved.
Unsaved == fil # NoFile \/ vol.wflag \/ vol.fsi_flag = 1
Remount ==
    /\ calls < CallBound
    /\ calls' = calls + 1
    /\ \E now \in BOOLEAN : After(f_mount(Load(0, FALSE), now))
    /\ loose' = Lost(loose, TRUE)
    /\ intact' = (intact /\ ~Unsaved)
    /\ UNCHANGED <<faults, kept>>

Next == \/ Open \/ Read \/ Write \/ Seek \/ Truncate \/ Sync \/ Close
        \/ Unlink \/ Mkdir \/ Rename \/ Stat \/ GetFree \/ Remount

Spec == Init /\ [][Next]_vars

-----------------------------------------------------------------------------
Now == Load(0, FALSE)

\* The chains of all objects and of the root directory; a file needs as many
\* clusters as its size says.
Chains ==
    {[path |-> << >>, of |-> Root,
      all |-> ChainOf(Seen(Now), [Root EXCEPT !.sclust = RootClus], 0)]}
    \cup {[path |-> x.path, of |-> x.o, all |-> ChainOf(Seen(Now), x.o, Edge(Now, x))] :
          x \in SeenObjects(Now)}
Owned(a)  == ToSet(a.all) \ {0}
Needed(a) == IF intact \/ a.of.objsize = 0 THEN Len(a.all)
             ELSE Smaller(Len(a.all), (a.of.objsize + bcs - 1) \div bcs)

(***************************************************************************)
(* No cluster belongs to two objects, none that an object has is free, and *)
(* every chain ends properly, whatever call failed or lost power where:    *)
(* except after what makes an entry loose (an f_rename broken off, a file  *)
(* cut to nothing and not saved, a directory whose growth was broken off). *)
(***************************************************************************)
NoCrossLink ==
    loose # "yes" =>
       LET chains == Chains
       IN  /\ \A a, b \in chains : a # b => Owned(a) \cap Owned(b) = {}
           /\ \A a \in chains : /\ \A c \in Owned(a) : Taken(Seen(Now), c)
                               /\ \A i \in 1 .. Needed(a) : a.all[i] # 0

(***************************************************************************)
(* While nothing has failed no cluster is lost (put_fat, create_chain and  *)
(* remove_chain over all error paths of a full volume), and the free count *)
(* that f_getfree returns and FSInfo carries over a mount is exact.        *)
(***************************************************************************)
AllocationExact ==
    intact => LET d    == Seen(Now)
                  used == UNION {Owned(a) : a \in Chains}
                  taken == {c \in Clusters : Taken(d, c)}
              IN  /\ taken \subseteq used
                  /\ vol.fs_type = 1 /\ vol.free_clst # Unknown =>
                        vol.free_clst = NClusters - Cardinality(taken)

(***************************************************************************)
(* What a call has returned OK for is on the drive, and stays there when   *)
(* later calls on other objects fail or lose power at any transfer: a      *)
(* saved file has its contents, a made directory is there, a removed or    *)
(* renamed name is gone.                                                   *)
(***************************************************************************)
Kept == loose # "yes" => \A p \in Paths : kept[p] # Anything => OnDrive(disk, p) = kept[p]

(***************************************************************************)
(* f_read from where the file stands returns what the file holds there,    *)
(* over cluster and sector borders and with the sector buffer dirty.       *)
(***************************************************************************)
ReadsBack ==
    (intact /\ fil # NoFile /\ fil.r /\ fil.err = "OK") =>
       \A n \in Lengths :
          LET s    == f_read(Now, n)
              data == shown.store[OpenPath].data
          IN  s.res = "OK" /\ s.data = SubSeq(data, fil.fptr + 1,
                                             Smaller(fil.fptr + n, Len(data)))

(***************************************************************************)
(* While nothing has failed every call is a step of the abstract store, on *)
(* the contents that the chains and entries spell out.                     *)
(***************************************************************************)
MaxPlace == NClusters * bcs
Store == INSTANCE FileStore WITH store <- shown.store, file <- shown.file

ImplementsFileStore == Store!Init /\ [][intact' => Store!Next]_shown
==============================================================================
