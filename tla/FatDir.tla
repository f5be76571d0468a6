------------------------------- MODULE FatDir -------------------------------
(***************************************************************************)
(* Directories and the table of open objects.  A directory is a chain of   *)
(* sectors of SS slots.  On FAT32 an object takes its SFN slot, after one  *)
(* LFN slot if its name is long; on exFAT the three slots 85, C0 and C1.   *)
(* A name's conversions, checksums and time stamps are left out: an LFN    *)
(* slot or an entry set is valid when its parts name the same object.      *)
(***************************************************************************)
EXTENDS FatChain

CONSTANTS LongNames    \* the names that FAT32 stores with an LFN slot

RootClus == 2
NoOfs    == 0 - 1     \* 0xFFFFFFFF in blk_ofs

Slot == [free |-> [k |-> "free"], ddem |-> [k |-> "ddem"]]
lfn(name)                    == [k |-> "lfn", name |-> name]
sfn(name, attr, clus, size)  == [k |-> "sfn", name |-> name, attr |-> attr,
                                 clus |-> clus, size |-> size]
dot(clus)                    == [k |-> "dot", clus |-> clus]
\* SetSum of an entry set depends on everything else in it.
xdir_sum(d) == d
EntrySet(d) == << [k |-> "85", attr |-> d.attr, sum |-> xdir_sum(d)],
                  [k |-> "C0", stat |-> d.stat, clus |-> d.clus, size |-> d.size],
                  [k |-> "C1", name |-> d.name] >>

EmptySector == [i \in 0 .. SS - 1 |-> Slot.free]
NoEntry     == [attr |-> "file", stat |-> 0, clus |-> 0, size |-> 0, name |-> ""]
NoHolder    == [scl |-> 0, size |-> 0, stat |-> 0, ofs |-> 0]
NoObject    == [sclust |-> 0, objsize |-> 0, stat |-> 0, n_cont |-> 0,
                n_frag |-> 0, c |-> NoHolder]

RECURSIVE ClearFrom(_, _, _)
ClearFrom(s, sect, n) ==
    IF n = CSize THEN s
    ELSE Then(disk_write(s, SectPlus(sect, n), EmptySector),
              LAMBDA t : ClearFrom(t, sect, n + 1))

dir_clear(s, clst) ==
    Then(sync_window(s), LAMBDA t :
         ClearFrom([t EXCEPT !.winsect = clst2sect(clst), !.win = EmptySector],
                   clst2sect(clst), 0))

-----------------------------------------------------------------------------
RECURSIVE Descend(_, _, _)
\* The cluster of the directory that holds the slot rest slots after clst's
\* first, in val.
Descend(s, clst, rest) ==
    IF rest < CSize * SS THEN Value(s, clst)
    ELSE Given(get_fat(s, clst), LAMBDA g :
           CASE g.val = DiskErr -> Fail(g, "DISK_ERR")
             [] g.val \notin Clusters -> Fail(g, "INT_ERR")
             [] OTHER -> Descend(g, g.val, rest - CSize * SS))

dir_sdi(s, ofs) ==
    LET root == s.obj.sclust = 0
        t == [s EXCEPT !.dp.dptr = ofs,
                       !.obj.stat = IF root /\ Ex THEN 0 ELSE @]
        clst == IF root THEN RootClus ELSE s.obj.sclust
    IN  Then(Descend(t, clst, ofs), LAMBDA u :
          IF u.val \notin Clusters THEN Fail(u, "INT_ERR")
          ELSE [u EXCEPT !.dp.clust = u.val,
                  !.dp.sect = SectPlus(clst2sect(u.val), (ofs \div SS) % CSize)])

InCluster(s, clst) == [s EXCEPT !.dp.dptr = @ + 1, !.dp.clust = clst,
                                !.dp.sect = clst2sect(clst)]

\* dir_next without its stretch.
dir_next(s) ==
    LET ofs == s.dp.dptr + 1
    IN  CASE s.dp.sect = NoSect -> Fail(s, "NO_FILE")
          [] ofs % SS # 0 -> [s EXCEPT !.dp.dptr = ofs]
          [] (ofs \div SS) % CSize # 0 ->
                [s EXCEPT !.dp.dptr = ofs, !.dp.sect = SectPlus(@, 1)]
          [] OTHER -> Given(get_fat(s, s.dp.clust), LAMBDA g :
               CASE g.val <= 1 -> Fail(g, "INT_ERR")
                 [] g.val = DiskErr -> Fail(g, "DISK_ERR")
                 [] g.val < n_fatent -> InCluster(g, g.val)
                 [] OTHER -> [Fail(g, "NO_FILE") EXCEPT !.dp.sect = NoSect])

\* dir_next with its stretch: past the last cluster there is a new one.
dir_stretch(s) ==
    Given(dir_next(s), LAMBDA g :
      IF g.res # "NO_FILE" \/ s.dp.sect = NoSect THEN g
      ELSE Given(create_chain([Ignore(g) EXCEPT !.dp.sect = s.dp.sect], s.dp.clust),
             LAMBDA n :
               CASE n.val = 0 -> Fail(n, "DENIED")
                 [] ChainResult(n.val) # "OK" -> Fail(n, ChainResult(n.val))
                 [] OTHER -> Then(dir_clear(n, n.val), LAMBDA t :
                      InCluster([t EXCEPT !.obj.stat = IF Ex /\ @ < 4 THEN @ + 4 ELSE @],
                                n.val))))

ThisSlot(s)      == s.win[s.dp.dptr % SS]
SetSlot(s, slot) == [s EXCEPT !.win[s.dp.dptr % SS] = slot, !.wflag = TRUE]
AtSlot(s, Op(_)) == Then(move_window(s, s.dp.sect), Op)

RECURSIVE AllocFrom(_, _, _)
\* run free slots precede the position; n of them are wanted.
AllocFrom(s, run, n) ==
    AtSlot(s, LAMBDA t :
      LET now == IF ThisSlot(t).k \in {"free", "ddem"} THEN run + 1 ELSE 0
      IN  IF now = n THEN t
          ELSE Then(dir_stretch(t), LAMBDA u : AllocFrom(u, now, n)))

dir_alloc(s, n) ==
    Given(Then(dir_sdi(s, 0), LAMBDA u : AllocFrom(u, 0, n)), LAMBDA t :
          IF t.res = "NO_FILE" THEN Fail(t, "DENIED") ELSE t)

-----------------------------------------------------------------------------
\* exFAT entry sets: the slot at the position, or the next one, of kind k.
LoadSlot(s, k) == AtSlot(s, LAMBDA t :
                         IF ThisSlot(t).k = k THEN t ELSE Fail(t, "INT_ERR"))
LoadNext(s, k) ==
    Given(dir_next(s), LAMBDA t :
          IF t.res = "NO_FILE" THEN Fail(t, "INT_ERR")
          ELSE Then(t, LAMBDA u : LoadSlot(u, k)))

load_xdir(s) ==
    Then(LoadSlot(s, "85"), LAMBDA a :
    Then(LoadNext(a, "C0"), LAMBDA b :
    Then(LoadNext(b, "C1"), LAMBDA c :
      LET set == [attr |-> ThisSlot(a).attr, stat |-> ThisSlot(b).stat,
                  clus |-> ThisSlot(b).clus, size |-> ThisSlot(b).size,
                  name |-> ThisSlot(c).name]
      IN  IF ThisSlot(a).sum = xdir_sum(set) THEN [c EXCEPT !.dirbuf = set]
                                   ELSE Fail(c, "INT_ERR"))))

RECURSIVE StoreFrom(_, _)
StoreFrom(s, n) ==
    AtSlot(s, LAMBDA t :
      LET u == SetSlot(t, EntrySet(t.dirbuf)[n])
      IN  IF n = 3 THEN u ELSE Then(dir_next(u), LAMBDA v : StoreFrom(v, n + 1)))

store_xdir(s) ==
    Given(Then(dir_sdi(s, s.dp.blk_ofs), LAMBDA u : StoreFrom(u, 1)), LAMBDA t :
          IF t.res \in {"OK", "DISK_ERR"} THEN t ELSE Fail(t, "INT_ERR"))

\* The object takes its allocation from the loaded entry set; with sdir, also
\* the place of that set in the directory.
init_alloc_info(s, sdir) ==
    [s EXCEPT !.obj = [sclust |-> s.dirbuf.clus, objsize |-> s.dirbuf.size,
        stat |-> s.dirbuf.stat, n_cont |-> 0, n_frag |-> 0,
        c |-> IF sdir THEN [scl |-> s.obj.sclust, size |-> s.obj.objsize,
                            stat |-> s.obj.stat, ofs |-> s.dp.blk_ofs]
                      ELSE s.obj.c]]

\* Moves to the directory that holds obj and loads its entry set.
load_obj_xdir(s, obj) ==
    Then(dir_sdi([s EXCEPT !.dp.blk_ofs = obj.c.ofs,
            !.obj = [NoObject EXCEPT !.sclust = obj.c.scl, !.stat = obj.c.stat,
                                     !.objsize = obj.c.size]], obj.c.ofs),
         load_xdir)

-----------------------------------------------------------------------------
RECURSIVE dir_read(_)
\* From the position to the next object; a volume label is not modelled.
dir_read(s) ==
    IF s.dp.sect = NoSect THEN Fail(s, "NO_FILE")
    ELSE Given(AtSlot(s, LAMBDA t :
           LET slot == ThisSlot(t)
           IN  CASE slot.k = "free" -> Fail(t, "NO_FILE")
                 [] slot.k = "85" ->
                      Then(load_xdir([t EXCEPT !.dp.blk_ofs = t.dp.dptr]),
                           LAMBDA x : [x EXCEPT !.dp.attr = x.dirbuf.attr])
                 [] slot.k = "sfn" -> [t EXCEPT !.dp.attr = slot.attr, !.dp.seq = "",
                       !.dp.blk_ofs = IF t.dp.seq = slot.name THEN @ ELSE NoOfs]
                 [] OTHER ->
                      Then(dir_next(IF slot.k = "lfn"
                             THEN [t EXCEPT !.dp.blk_ofs = t.dp.dptr, !.dp.seq = slot.name]
                             ELSE [t EXCEPT !.dp.seq = ""]), dir_read)),
         LAMBDA t : IF t.res = "OK" THEN t ELSE [t EXCEPT !.dp.sect = NoSect])

\* FAT: the slot t is at is not the entry wanted.
Passed(t, name) ==
    IF ThisSlot(t) = lfn(name)
    THEN [t EXCEPT !.dp.blk_ofs = t.dp.dptr, !.dp.seq = name]
    ELSE [t EXCEPT !.dp.seq = "", !.dp.blk_ofs = NoOfs,
                   !.dp.attr = IF ThisSlot(t).k = "sfn" THEN ThisSlot(t).attr ELSE @]

RECURSIVE FindFrom(_, _)
FindFrom(s, name) ==
    IF Ex
    THEN Then(dir_read(s), LAMBDA t :
              IF t.dirbuf.name = name THEN t ELSE FindFrom(t, name))
    ELSE AtSlot(s, LAMBDA t :
           LET slot == ThisSlot(t)
           IN  CASE slot.k = "free" -> Fail(t, "NO_FILE")
                 [] slot.k = "sfn" /\ slot.name = name
                       /\ (t.dp.seq = name \/ name \notin LongNames) ->
                      [t EXCEPT !.dp.attr = slot.attr]
                 [] OTHER -> Then(dir_next(Passed(t, name)),
                                  LAMBDA u : FindFrom(u, name)))

dir_find(s, name) ==
    Then(dir_sdi(s, 0), LAMBDA t :
         FindFrom([t EXCEPT !.dp.blk_ofs = NoOfs, !.dp.seq = ""], name))

\* A directory's chain, stretched by dir_alloc, is ended on the FAT.
EndChain(s) == Then(fill_first_frag([s EXCEPT !.obj.stat = @ % 4]),
                    LAMBDA t : fill_last_frag(t, t.dp.clust, EOC))

\* Mutant: a stretched directory keeps its old size in its entry set.
StretchedUnsaved(s) ==
    Then(EndChain(s), LAMBDA t : [t EXCEPT !.obj.objsize = @ + CSize * SS])

\* A sub-directory of exFAT that was stretched is one cluster longer in its
\* own entry set too; the root directory has none.
Stretched(s) ==
    Then(EndChain(s), LAMBDA a :
      LET o == [a.obj EXCEPT !.objsize = @ + CSize * SS]
      IN  IF a.obj.sclust = 0 THEN a
          ELSE [Then(load_obj_xdir(a, a.obj), LAMBDA t :
                     store_xdir([t EXCEPT !.dirbuf.size = o.objsize,
                                   !.dirbuf.stat = IF o.stat = 2 THEN 2 ELSE 0]))
                EXCEPT !.obj = o, !.dp = a.dp])

PutSlot(s, slot) == AtSlot(s, LAMBDA t : SetSlot(t, slot))
LfnPart(s, name) == Then(Then(dir_sdi(s, s.dp.dptr - 1),
                              LAMBDA t : PutSlot(t, lfn(name))), dir_next)

dir_register(s, name) ==
    LET n_ent == CASE Ex -> 3 [] name \in LongNames -> 2 [] OTHER -> 1
    IN  Then(dir_alloc(s, n_ent), LAMBDA a :
          IF Ex
          THEN Given([a EXCEPT !.dp.blk_ofs = a.dp.dptr - (n_ent - 1)], LAMBDA b :
                 Then(IF b.obj.stat >= 4 THEN Stretched(b) ELSE b, LAMBDA t :
                      [t EXCEPT !.dirbuf = [NoEntry EXCEPT !.name = name]]))
          ELSE Then(IF n_ent = 2 THEN LfnPart(a, name) ELSE a, LAMBDA t :
                    PutSlot(t, sfn(name, "file", 0, 0))))

RECURSIVE RemoveUpTo(_, _)
RemoveUpTo(s, last) ==
    AtSlot(s, LAMBDA t :
      LET u == SetSlot(t, Slot.ddem)
      IN  IF u.dp.dptr >= last THEN u
          ELSE Then(dir_next(u), LAMBDA v : RemoveUpTo(v, last)))

dir_remove(s) ==
    Given(Then(IF s.dp.blk_ofs = NoOfs THEN s ELSE dir_sdi(s, s.dp.blk_ofs),
               LAMBDA u : RemoveUpTo(u, s.dp.dptr)), LAMBDA t :
          IF t.res = "NO_FILE" THEN Fail(t, "INT_ERR") ELSE t)

ld_clust(slot) == IF slot.k \in {"sfn", "dot"} THEN slot.clus ELSE 0
st_clust(slot, cl) == [slot EXCEPT !.clus = cl]

RECURSIVE Follow(_, _)
Follow(s, path) ==
    Given(dir_find(s, path[1]), LAMBDA f :
      CASE Len(path) = 1 -> f
        [] f.res = "NO_FILE" -> Fail(f, "NO_PATH")
        [] f.res # "OK" -> f
        [] f.dp.attr # "dir" -> Fail(f, "NO_PATH")
        [] OTHER -> Follow(IF Ex THEN init_alloc_info(f, TRUE)
                           ELSE [f EXCEPT !.obj.sclust = ld_clust(ThisSlot(f))],
                           Tail(path)))

\* A path is the sequence of its names, from the root directory.
follow_path(s, path) ==
    Follow([s EXCEPT !.obj = NoObject], path)

-----------------------------------------------------------------------------
(***************************************************************************)
(* Open objects: files is a sequence of FF_FS_LOCK entries, each the place *)
(* of an object and how it is open (100: for writing), or NoOpen.          *)
(***************************************************************************)
NoOpen  == [clu |-> 0, ofs |-> NoOfs, ctr |-> 0]
Writing == 100
Place(s) == [clu |-> s.obj.sclust, ofs |-> s.dp.dptr]
OpenAt(s) == {i \in DOMAIN s.files : /\ s.files[i] # NoOpen
                                     /\ s.files[i].clu = Place(s).clu
                                     /\ s.files[i].ofs = Place(s).ofs}
Blank(s)  == {i \in DOMAIN s.files : s.files[i] = NoOpen}
First(set) == CHOOSE i \in set : \A j \in set : i <= j

chk_share(s, acc) ==
    LET at == OpenAt(s)
    IN  CASE at = {} /\ Blank(s) = {} /\ acc # 2 -> Fail(s, "TOO_MANY_OPEN_FILES")
          [] at = {} -> s
          [] acc # 0 \/ s.files[First(at)].ctr = Writing -> Fail(s, "LOCKED")
          [] OTHER -> s

enq_share(s) == Blank(s) # {}

\* val is the entry taken, 0 when there is none.
inc_share(s, acc) ==
    LET at == OpenAt(s)
        i  == IF at # {} THEN First(at) ELSE First(Blank(s))
        n  == IF at # {} THEN s.files[i].ctr ELSE 0
    IN  IF (at = {} /\ Blank(s) = {}) \/ (acc >= 1 /\ n # 0) THEN Value(s, 0)
        ELSE [Value(s, i) EXCEPT !.files[i] =
                 [clu |-> Place(s).clu, ofs |-> Place(s).ofs,
                  ctr |-> IF acc # 0 THEN Writing ELSE n + 1]]

dec_share(s, i) ==
    IF i \notin DOMAIN s.files THEN Fail(s, "INT_ERR")
    ELSE LET n == s.files[i].ctr
         IN  [s EXCEPT !.files[i] = IF n \in {Writing, 0, 1} THEN NoOpen
                                    ELSE [@ EXCEPT !.ctr = n - 1]]
=============================================================================
