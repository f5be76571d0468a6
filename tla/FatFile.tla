------------------------------- MODULE FatFile -------------------------------
(***************************************************************************)
(* The calls of fat/FatFs.cpp on a file object: f_open, f_read, f_write,   *)
(* f_sync, f_close, f_lseek and f_truncate, with mount_volume and validate *)
(* that every call starts with.  Each is an operator from a record to a    *)
(* record (see FatDisk); the file object is  s.fp.                         *)
(***************************************************************************)
EXTENDS FatDir

NoFile == [lockid |-> 0]
Zeros  == [i \in 0 .. SS - 1 |-> [k |-> "zero"]]
datum(v, p) == [k |-> "data", v |-> v, p |-> p]
bcs    == CSize * SS
Smaller(a, b) == IF a < b THEN a ELSE b
Larger(a, b)  == IF a > b THEN a ELSE b

\* FA_READ and FA_WRITE, and which of the creating flags.
Modes == [r : BOOLEAN, w : BOOLEAN,
          how : {"existing", "always", "new", "open", "append"}]
Access(mode) == IF mode.w \/ mode.how # "existing" THEN 1 ELSE 0

NoFiles == [i \in 1 .. 1 |-> NoOpen]      \* FF_FS_LOCK is 1 (Config.hpp)

Unmounted == [win |-> EmptySector, winsect |-> NoSect, wflag |-> FALSE,
              free_clst |-> Unknown, last_clst |-> Unknown,
              fsi_flag |-> 0, fs_type |-> 0]

-----------------------------------------------------------------------------
\* In val, what the boot record is: 4 when it cannot be read.
check_fs(s, status) ==
    Given(disk_touch([s EXCEPT !.wflag = FALSE, !.winsect = NoSect]), LAMBDA t :
          Value(Ignore(t), IF t.res = "OK" THEN status ELSE 4))

RECURSIVE FindIn(_, _)
\* The first partition from the i-th boot record on that has a file system; one
\* that cannot be read is passed over like one that has none.
FindIn(s, i) ==
    Given(IF Boots[i] = NoPartition THEN Value(s, 3) ELSE check_fs(s, Boots[i]),
      LAMBDA t : IF t.val >= 2 /\ i < Len(Boots) THEN FindIn(t, i + 1) ELSE t)

find_volume(s) ==
    Given(check_fs(s, Boots[1]), LAMBDA t : IF t.val = 2 THEN FindIn(t, 2) ELSE t)

\* After the boot record (FAT32) FSInfo, or (exFAT) the bitmap's entry in the
\* root directory and its chain.
MountInfo(s) ==
    Given(move_window([s EXCEPT !.free_clst = Unknown, !.last_clst = Unknown], InfoSect),
      LAMBDA t : IF t.res = "OK" THEN [t EXCEPT !.fsi_flag = 0,
                                         !.free_clst = t.win[0], !.last_clst = t.win[1]]
                                 ELSE [Ignore(t) EXCEPT !.fsi_flag = 128])
MountMap(s) ==
    Then(Then(move_window(s, clst2sect(RootClus)),
              LAMBDA t : move_window(t, FatSect(RootClus))),
         LAMBDA t : [t EXCEPT !.free_clst = Unknown, !.last_clst = Unknown, !.fsi_flag = 0])

Mounted(s) == [s EXCEPT !.fs_type = 1, !.files = NoFiles]

Mount(s) ==
    Given(find_volume([s EXCEPT !.fs_type = 0]), LAMBDA t :
      CASE t.val = 4  -> Fail(t, "DISK_ERR")
        [] t.val >= 2 -> Fail(t, "NO_FILESYSTEM")
        [] OTHER -> Then(IF t.val = 1 THEN MountMap(t) ELSE MountInfo(t), Mounted))

mount_volume(s) == IF s.fs_type # 0 THEN s ELSE Mount(s)

validate(s) == IF s.fp = NoFile \/ s.fs_type = 0 THEN Fail(s, "INVALID_OBJECT") ELSE s

\* A call on the open file: valid, not aborted before, its object in place.
OnFile(s, Op(_)) ==
    Given(Then(validate(s), LAMBDA u : [u EXCEPT !.res = u.fp.err, !.obj = u.fp.obj]),
      LAMBDA t : IF t.res # "OK" THEN t
                 ELSE Given(Op(t), LAMBDA u : [u EXCEPT !.fp.obj = u.obj]))

Abort(s) == IF s.res = "OK" THEN s ELSE [s EXCEPT !.fp.err = s.res]

\* Writes the sector buffer of the file back if it is dirty.
FlushBuf(s) ==
    IF ~s.fp.dirty THEN s
    ELSE Then(disk_write(s, s.fp.sect, s.fp.buf),
              LAMBDA t : [t EXCEPT !.fp.dirty = FALSE])

\* Mutant: the buffer keeps what it held.
LoadStale(s, sect) == disk_touch(s)

LoadBuf(s, sect) ==
    Then(disk_touch(s), LAMBDA t : [t EXCEPT !.fp.buf = t.disk[sect]])

-----------------------------------------------------------------------------
\* f_open: an existing entry that is overwritten, or the new one, is reset
\* before its old chain is removed.
ResetEntry(s) ==
    LET slot == ThisSlot(s)
        cl   == ld_clust(slot)
        sect == s.winsect
        a == SetSlot(s, st_clust([slot EXCEPT !.attr = "file", !.size = 0], 0))
    IN  IF cl = 0 THEN a
        ELSE Then(remove_chain(a, cl, 0),
                  LAMBDA t : [move_window(t, sect) EXCEPT !.last_clst = cl - 1])

ResetEntrySet(s) ==
    LET old == init_alloc_info(s, FALSE).obj
    IN  Then(store_xdir([s EXCEPT !.dirbuf = [NoEntry EXCEPT !.name = s.dirbuf.name]]),
             LAMBDA a :
               IF old.sclust = 0 THEN a
               ELSE [remove_chain([a EXCEPT !.obj = old], old.sclust, 0)
                     EXCEPT !.obj = a.obj, !.last_clst = old.sclust - 1])

RECURSIVE ToEnd(_, _, _)
\* f_open with FA_OPEN_APPEND: to the last cluster, then its sector if the
\* end is inside it.
ToEnd(s, clst, ofs) ==
    LET sect == SectPlus(clst2sect(clst), ofs \div SS)
        t == [s EXCEPT !.fp.clust = clst]
    IN  CASE ofs > bcs -> Given(get_fat(s, clst), LAMBDA g :
               CASE g.val <= 1 -> Fail(g, "INT_ERR")
                 [] g.val = DiskErr -> Fail(g, "DISK_ERR")
                 [] OTHER -> ToEnd(g, g.val, ofs - bcs))
          [] ofs % SS = 0 -> t
          [] clst \notin Clusters -> Fail(t, "INT_ERR")
          [] OTHER -> LoadBuf([t EXCEPT !.fp.sect = sect], sect)

\* The object at a path, if it may be opened, removed or renamed.
Located(s, path, acc) ==
    Then(Then(mount_volume(s), LAMBDA t : follow_path(t, path)),
         LAMBDA t : chk_share(t, acc))

Makes(s, mode) == /\ mode.how # "existing"
                  /\ s.res # "OK" \/ mode.how = "always"

\* The entry that f_open opens, s being what Located found: a new one, an old
\* one that is reset, or one as it is.
OpenedEntry(s, name, mode) ==
    LET Found(t) ==
          CASE mode.how = "new" -> Fail(t, "EXIST")
            [] t.dp.attr # "dir" -> t
            [] OTHER -> Fail(t, IF mode.how = "existing" THEN "NO_FILE" ELSE "DENIED")
    IN  Then(CASE s.res = "OK" -> Found(s)
               [] s.res # "NO_FILE" \/ mode.how = "existing" -> s
               [] enq_share(s) -> dir_register(Ignore(s), name)
               [] OTHER -> Fail(s, "TOO_MANY_OPEN_FILES"),
             LAMBDA t : CASE ~Makes(s, mode) -> t
                          [] Ex -> ResetEntrySet(t)
                          [] OTHER -> ResetEntry(t))

\* val is its entry in Files[].
Shared(s, acc) == Given(inc_share(s, acc), LAMBDA t :
                        IF t.val = 0 THEN Fail(t, "INT_ERR") ELSE t)

\* The file object, positioned at its end to append.
NewFile(s, mode, modified) ==
    Given(IF Ex THEN init_alloc_info(s, TRUE).obj
          ELSE [NoObject EXCEPT !.sclust = ld_clust(ThisSlot(s)), !.objsize = ThisSlot(s).size],
      LAMBDA o :
        [s EXCEPT !.obj = o, !.fp =
           [obj |-> o, lockid |-> s.val, r |-> mode.r, w |-> mode.w,
            dir_sect |-> s.winsect, dir_ptr |-> s.dp.dptr % SS, err |-> "OK",
            sect |-> NoSect, clust |-> 0, buf |-> Zeros, dirty |-> FALSE,
            fptr |-> IF mode.how = "append" THEN o.objsize ELSE 0,
            modified |-> modified]])
AtEnd(s) ==
    IF s.fp.fptr = 0 THEN s
    ELSE Given(ToEnd(s, s.obj.sclust, s.obj.objsize), LAMBDA t :
           IF t.res = "OK" THEN t ELSE Fail(dec_share(Ignore(t), s.fp.lockid), t.res))

f_open(s, path, mode) ==
    Given(Located(s, path, Access(mode)), LAMBDA b :
    Given(Then(Then(OpenedEntry(b, path[Len(path)], mode),
                    LAMBDA t : Shared(t, Access(mode))),
               LAMBDA t : AtEnd(NewFile(t, mode, Makes(b, mode)))), LAMBDA e :
          IF e.res = "OK" THEN e ELSE [e EXCEPT !.fp = s.fp]))

-----------------------------------------------------------------------------
\* What is left of the sector buffer, as far as btr goes.
Part(s, btr) == Smaller(SS - (s.fp.fptr % SS), btr)

ReadPart(s, btr) ==
    LET from == s.fp.fptr % SS
        n    == Part(s, btr)
    IN  [s EXCEPT !.fp.fptr = @ + n,
                  !.data = @ \o [j \in 1 .. n |-> s.fp.buf[from + j - 1]]]

\* n sectors from sect on; the buffer overlays the one that it holds dirty.
ReadWhole(s, sect, n) ==
    LET Unit(k) ==
          LET x == SectPlus(sect, k \div SS)
          IN  IF s.fp.dirty /\ s.fp.sect = x THEN s.fp.buf[k % SS] ELSE s.disk[x][k % SS]
    IN  [s EXCEPT !.fp.fptr = @ + n * SS,
                  !.data = @ \o [j \in 1 .. n * SS |-> Unit(j - 1)]]

\* The sector buffer shows sect.
InBuf(s, sect) ==
    IF s.fp.sect = sect THEN s
    ELSE Then(Then(FlushBuf(s), LAMBDA t : LoadBuf(t, sect)),
              LAMBDA t : [t EXCEPT !.fp.sect = sect])

\* One turn of the loop of f_read; a is at the cluster val.
ReadAt(a, btr) ==
    LET csect == (a.fp.fptr \div SS) % CSize
        sect  == SectPlus(clst2sect(a.val), csect)
        cc    == Smaller(btr \div SS, CSize - csect)
        b     == [a EXCEPT !.fp.clust = a.val]
    IN  CASE a.val < 2 -> Fail(a, "INT_ERR")
          [] a.val = DiskErr -> Fail(a, "DISK_ERR")
          [] a.val \notin Clusters -> Fail(b, "INT_ERR")
          [] cc > 0 -> Then(disk_touch(b), LAMBDA t : ReadWhole(t, sect, cc))
          [] OTHER -> Then(InBuf(b, sect), LAMBDA t : ReadPart(t, btr))

ReadTurn(s, btr) ==
    IF s.fp.fptr % SS # 0 THEN ReadPart(s, btr)
    ELSE Given(CASE (s.fp.fptr \div SS) % CSize # 0 -> Value(s, s.fp.clust)
                 [] s.fp.fptr = 0 -> Value(s, s.obj.sclust)
                 [] OTHER -> get_fat(s, s.fp.clust),
           LAMBDA a : Abort(ReadAt(a, btr)))

RECURSIVE ReadFrom(_, _)
\* btr units from the position; data collects what is read.
ReadFrom(s, btr) ==
    IF btr = 0 THEN s
    ELSE Then(ReadTurn(s, btr), LAMBDA t : ReadFrom(t, btr - (t.fp.fptr - s.fp.fptr)))

f_read(s, btr) ==
    OnFile(s, LAMBDA t :
      IF ~t.fp.r THEN Fail(t, "DENIED")
      ELSE ReadFrom(t, Smaller(btr, t.obj.objsize - t.fp.fptr)))

Advance(s, n) == [s EXCEPT !.fp.fptr = @ + n,
                           !.obj.objsize = Larger(@, s.fp.fptr + n)]

WritePart(s, btw, v) ==
    LET from == s.fp.fptr % SS
        n    == Part(s, btw)
    IN  Advance([s EXCEPT !.fp.dirty = TRUE,
           !.fp.buf = [j \in 0 .. SS - 1 |->
              IF j - from \in 0 .. n - 1 THEN datum(v, s.fp.fptr - from + j) ELSE @[j]]], n)

\* n sectors from sect on, past the buffer, which takes the one that it shows.
WriteWhole(s, sect, n, v) ==
    LET New(x) == [j \in 0 .. SS - 1 |-> datum(v, s.fp.fptr + (x[2] - sect[2]) * SS + j)]
        direct == {SectPlus(sect, i) : i \in 0 .. n - 1}
        over   == s.fp.sect \in direct
    IN  Advance([s EXCEPT
           !.disk = [x \in DOMAIN @ |-> IF x \in direct THEN New(x) ELSE @[x]],
           !.fp.buf = IF over THEN New(s.fp.sect) ELSE @,
           !.fp.dirty = @ /\ ~over], n * SS)

\* The cluster of the position, a new one at the end of the chain.
ClustToWrite(s) ==
    CASE (s.fp.fptr \div SS) % CSize # 0 -> Value(s, s.fp.clust)
      [] s.fp.fptr = 0 /\ s.obj.sclust # 0 -> Value(s, s.obj.sclust)
      [] OTHER -> create_chain(s, IF s.fp.fptr = 0 THEN 0 ELSE s.fp.clust)

\* One turn of the loop of f_write; a is at the cluster val.
WriteAt(a, btw, v) ==
    LET csect == (a.fp.fptr \div SS) % CSize
        sect  == SectPlus(clst2sect(a.val), csect)
        cc    == Smaller(btw \div SS, CSize - csect)
        Fresh(t) == t.fp.fptr >= t.obj.objsize \/ t.fp.sect = sect
    IN  IF ChainResult(a.val) # "OK" THEN Fail(a, ChainResult(a.val))
        ELSE Then(FlushBuf([a EXCEPT !.fp.clust = a.val,
                              !.obj.sclust = IF @ = 0 THEN a.val ELSE @]), LAMBDA b :
               CASE a.val \notin Clusters -> Fail(b, "INT_ERR")
                 [] cc > 0 -> Then(disk_touch(b), LAMBDA t : WriteWhole(t, sect, cc, v))
                 [] OTHER -> Then(IF Fresh(b) THEN b ELSE LoadBuf(b, sect), LAMBDA t :
                                  WritePart([t EXCEPT !.fp.sect = sect], btw, v)))

\* A full volume (no cluster: 0) ends the loop without an error.
WriteTurn(s, btw, v) ==
    IF s.fp.fptr % SS # 0 THEN WritePart(s, btw, v)
    ELSE Given(ClustToWrite(s), LAMBDA a :
               IF a.val = 0 THEN a ELSE Abort(WriteAt(a, btw, v)))

RECURSIVE WriteFrom(_, _, _)
\* btw units of version v from the position.
WriteFrom(s, btw, v) ==
    IF btw = 0 THEN s
    ELSE Then(WriteTurn(s, btw, v), LAMBDA t :
              IF t.fp.fptr = s.fp.fptr THEN t
              ELSE WriteFrom(t, btw - (t.fp.fptr - s.fp.fptr), v))

f_write(s, btw, v) ==
    OnFile(s, LAMBDA t :
      IF ~t.fp.w THEN Fail(t, "DENIED")
      ELSE Then(WriteFrom(t, btw, v), LAMBDA u : [u EXCEPT !.fp.modified = TRUE]))

-----------------------------------------------------------------------------
\* The entry set of the object takes its chain and size.
SetAlloc(s) ==
    Then(load_obj_xdir(s, s.obj), LAMBDA t :
         store_xdir([t EXCEPT !.dirbuf.clus = s.obj.sclust, !.dirbuf.size = s.obj.objsize,
                              !.dirbuf.stat = IF s.obj.stat = 2 THEN 2 ELSE 0]))

\* Mutant: nothing is synchronised.
EntryUnsynced(s) ==
    AtSlot([s EXCEPT !.dp.sect = s.fp.dir_sect, !.dp.dptr = s.fp.dir_ptr],
           LAMBDA t : [SetSlot(t, st_clust([ThisSlot(t) EXCEPT !.size = s.obj.objsize],
                                           s.obj.sclust))
                       EXCEPT !.fp.modified = FALSE])

\* The entry of the file takes its chain and size; the flag that it needs to
\* is cleared whether or not sync_fs succeeds.
UpdateEntry(s) ==
    AtSlot([s EXCEPT !.dp.sect = s.fp.dir_sect, !.dp.dptr = s.fp.dir_ptr],
           LAMBDA t : [sync_fs(SetSlot(t, st_clust([ThisSlot(t) EXCEPT !.size = s.obj.objsize],
                                                   s.obj.sclust)))
                       EXCEPT !.fp.modified = FALSE])

UpdateEntrySet(s) ==
    Then(Then(fill_first_frag(s), LAMBDA t : fill_last_frag(t, t.fp.clust, EOC)), LAMBDA a :
      [Then(SetAlloc(a), LAMBDA t : [sync_fs(t) EXCEPT !.fp.modified = FALSE])
       EXCEPT !.obj = a.obj])

f_sync(s) ==
    Then(validate(s), LAMBDA t :
      IF ~t.fp.modified THEN t
      ELSE Given(Then(FlushBuf([t EXCEPT !.obj = t.fp.obj]), LAMBDA u :
                      IF Ex THEN UpdateEntrySet(u) ELSE UpdateEntry(u)),
             LAMBDA u : [u EXCEPT !.fp.obj = u.obj]))

f_close(s) ==
    Then(f_sync(s), LAMBDA t :
         Then(validate(t), LAMBDA u :
              Then(dec_share(u, u.fp.lockid), LAMBDA v : [v EXCEPT !.fp = NoFile])))

-----------------------------------------------------------------------------
RECURSIVE SeekOn(_, _, _)
\* The loop of f_lseek: ofs units are left from the start of clst, which the
\* position is at; a file open for writing is stretched, its size before its
\* chain (FF_FS_EXFAT, which that asks for, is 1 whatever the volume).
SeekOn(s, clst, ofs) ==
    LET on == [s EXCEPT !.fp.fptr = @ + bcs,
                 !.obj.objsize = IF s.fp.w THEN Larger(@, s.fp.fptr + bcs) ELSE @,
                 !.fp.modified = @ \/ (s.fp.w /\ s.fp.fptr + bcs > s.obj.objsize)]
        at == [s EXCEPT !.fp.fptr = @ + ofs,
                 !.nsect = IF ofs % SS = 0 THEN NoSect
                           ELSE SectPlus(clst2sect(clst), ofs \div SS)]
    IN  IF ofs <= bcs
        THEN IF ofs % SS = 0 \/ clst \in Clusters THEN at ELSE Abort(Fail(at, "INT_ERR"))
        ELSE Given(IF s.fp.w THEN create_chain(on, clst) ELSE get_fat(on, clst), LAMBDA g :
               CASE g.val = 0 /\ g.fp.w -> [g EXCEPT !.nsect = NoSect]
                 [] g.val = DiskErr -> Abort(Fail(g, "DISK_ERR"))
                 [] g.val \notin Clusters -> Abort(Fail(g, "INT_ERR"))
                 [] OTHER -> SeekOn([g EXCEPT !.fp.clust = g.val], g.val, ofs - bcs))

\* A larger position is a larger file, and a position inside a sector has it
\* in the buffer.
Settle(s) ==
    Given(IF s.fp.fptr > s.obj.objsize
          THEN [s EXCEPT !.obj.objsize = s.fp.fptr, !.fp.modified = TRUE] ELSE s, LAMBDA t :
      IF t.fp.fptr % SS = 0 THEN t ELSE Abort(InBuf(t, t.nsect)))

\* Towards ofs: on from the cluster of the position, or from the first one.
Sought(s, ofs) ==
    LET back == s.fp.fptr = 0 \/ (ofs - 1) \div bcs < (s.fp.fptr - 1) \div bcs
        here == ((s.fp.fptr - 1) \div bcs) * bcs
        z == [s EXCEPT !.fp.fptr = 0, !.nsect = NoSect]
    IN  CASE ofs = 0 -> z
          [] ~back -> SeekOn([z EXCEPT !.fp.fptr = here], s.fp.clust, ofs - here)
          [] OTHER ->
               Given(IF s.obj.sclust # 0 THEN Value(z, s.obj.sclust) ELSE create_chain(z, 0),
                 LAMBDA c :
                   LET d == [c EXCEPT !.obj.sclust = c.val, !.fp.clust = c.val]
                   IN  CASE ChainResult(c.val) # "OK" -> Abort(Fail(c, ChainResult(c.val)))
                         [] c.val = 0 -> d
                         [] OTHER -> SeekOn(d, c.val, ofs))

f_lseek(s, to) ==
    OnFile(s, LAMBDA t :
      Then(IF Ex THEN fill_last_frag(t, t.fp.clust, EOC) ELSE t, LAMBDA u :
      Then(Sought(u, IF u.fp.w THEN to ELSE Smaller(to, u.obj.objsize)), Settle)))

f_truncate(s) ==
    LET Shrink(t) ==
          IF t.fp.fptr = 0
          THEN [remove_chain(t, t.obj.sclust, 0) EXCEPT !.obj.sclust = 0]
          ELSE Given(get_fat(t, t.fp.clust), LAMBDA ncl :
                 CASE ChainResult(ncl.val) # "OK" -> Fail(ncl, ChainResult(ncl.val))
                   [] ncl.val < n_fatent -> remove_chain(ncl, ncl.val, t.fp.clust)
                   [] OTHER -> ncl)
        Cut(t, u) == [u EXCEPT !.obj.objsize = t.fp.fptr, !.fp.modified = TRUE]
    IN  OnFile(s, LAMBDA t :
          CASE ~t.fp.w -> Fail(t, "DENIED")
            [] t.fp.fptr < t.obj.objsize -> Abort(Then(Cut(t, Shrink(t)), FlushBuf))
            [] OTHER -> t)
=============================================================================
