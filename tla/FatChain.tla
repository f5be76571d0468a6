------------------------------ MODULE FatChain ------------------------------
(***************************************************************************)
(* Cluster chains: the FAT, the exFAT allocation bitmap and the functions  *)
(* that follow, stretch and remove the chain of the object  s.obj.  On     *)
(* exFAT an object's chain is contiguous and not on the FAT (stat 2),      *)
(* wholly on the FAT (stat 0), or was broken in this session (stat 3): its *)
(* first n_cont links are then not on the FAT yet, nor are those of the    *)
(* last n_frag clusters at its growing edge.                               *)
(***************************************************************************)
EXTENDS FatDisk

\* What a chain function's value means to a caller that returns FRESULT.
ChainResult(v) == CASE v = 1 -> "INT_ERR" [] v = DiskErr -> "DISK_ERR"
                    [] OTHER -> "OK"

Value(s, v) == [s EXCEPT !.val = v]

-----------------------------------------------------------------------------
ReadFat(s, clst) ==
    Given(move_window(s, FatSect(clst)), LAMBDA t :
      IF t.res = "OK" THEN Value(t, t.win[clst]) ELSE Value(Ignore(t), DiskErr))

get_fat(s, clst) ==
    LET o    == s.obj
        cofs == clst - o.sclust
        clen == ((o.objsize - 1) \div SS) \div CSize
    IN  CASE clst \notin Clusters -> Value(s, 1)
          [] ~Ex -> ReadFat(s, clst)
          [] ~((o.objsize # 0 /\ o.sclust # 0) \/ o.stat = 0) -> Value(s, 1)
          [] o.stat = 2 /\ cofs \in 0 .. clen ->
                Value(s, IF cofs = clen THEN EOC ELSE clst + 1)
          [] o.stat = 3 /\ cofs \in 0 .. o.n_cont - 1 -> Value(s, clst + 1)
          [] o.stat # 2 /\ o.n_frag # 0 -> Value(s, EOC)
          [] o.stat # 2 -> ReadFat(s, clst)
          [] OTHER -> Value(s, 1)

put_fat(s, clst, v) ==
    IF clst \notin Clusters THEN Fail(s, "INT_ERR")
    ELSE Then(move_window(s, FatSect(clst)),
              LAMBDA t : [t EXCEPT !.win[clst] = v, !.wflag = TRUE])

\* The library asks find_bitmap for one cluster at a time (f_expand is not
\* compiled in): the first clear bit from clst on, round the end.
find_bitmap(s, clst) ==
    LET from == IF clst \in Clusters THEN clst ELSE 2
        ring == [i \in 0 .. NClusters - 1 |-> 2 + ((from - 2 + i) % NClusters)]
    IN  Given(move_window(s, MapSect), LAMBDA t :
          LET free == {i \in DOMAIN ring : ring[i] \notin t.win}
          IN  CASE t.res # "OK" -> Value(Ignore(t), DiskErr)
                [] free = {} -> Value(t, 0)
                [] OTHER -> Value(t, ring[CHOOSE i \in free : \A j \in free : i <= j]))

\* Mutant: the last bit of the block is left as it is.
BitmapShort(s, clst, ncl, bv) ==
    Then(move_window(s, MapSect), LAMBDA t :
      LET block == clst .. clst + ncl - 2
      IN  [t EXCEPT !.wflag = TRUE,
             !.win = IF bv = 1 THEN @ \cup block ELSE @ \ block])

\* Bits flip one by one up to the first that is not as expected.
change_bitmap(s, clst, ncl, bv) ==
    Then(move_window(s, MapSect), LAMBDA t :
      Given({c \in clst .. clst + ncl - 1 :
               \A w \in clst .. c : (w \in t.win) # (bv = 1)}, LAMBDA done :
        [t EXCEPT !.wflag = @ \/ done # {},
                  !.win = IF bv = 1 THEN @ \cup done ELSE @ \ done,
                  !.res = IF Cardinality(done) = ncl THEN "OK" ELSE "INT_ERR"]))

RECURSIVE PutRun(_, _, _)
\* Links clst -> clst + 1 for n clusters, until an error.
PutRun(s, clst, n) ==
    IF n = 0 \/ s.res # "OK" THEN s
    ELSE PutRun(put_fat(s, clst, clst + 1), clst + 1, n - 1)

\* Mutant: the chain is taken to be on the FAT though it is not.
FirstFragSkipped(s) == IF s.obj.stat = 3 THEN [s EXCEPT !.obj.stat = 0] ELSE s

fill_first_frag(s) ==
    IF s.obj.stat # 3 THEN s
    ELSE Then(PutRun(s, s.obj.sclust, s.obj.n_cont),
              LAMBDA t : [t EXCEPT !.obj.stat = 0])

RECURSIVE fill_last_frag(_, _, _)
fill_last_frag(s, lcl, term) ==
    LET n == s.obj.n_frag
    IN  IF n = 0 THEN s
        ELSE Then(put_fat(s, lcl - n + 1, IF n > 1 THEN lcl - n + 2 ELSE term),
                  LAMBDA t : fill_last_frag([t EXCEPT !.obj.n_frag = n - 1],
                                            lcl, term))

-----------------------------------------------------------------------------
\* One more free cluster, if the count is known.
Counted(s) == IF s.free_clst >= n_fatent - 2 THEN s
              ELSE [s EXCEPT !.free_clst = @ + 1,
                             !.fsi_flag = IF @ % 2 = 0 THEN @ + 1 ELSE @]

RECURSIVE FreeLinks(_, _, _, _)
\* The loop of remove_chain from clst; scl .. ecl is the contiguous block
\* whose bits exFAT has not cleared yet.
FreeLinks(s, clst, scl, ecl) ==
    Given(get_fat(s, clst), LAMBDA g :
      LET nxt == g.val
      IN  CASE nxt = 0 -> g
            [] ChainResult(nxt) # "OK" -> Fail(g, ChainResult(nxt))
            [] OTHER ->
                 Then(Then(IF Ex THEN g ELSE put_fat(g, clst, 0), LAMBDA t :
                           IF Ex /\ ecl + 1 # nxt
                           THEN change_bitmap(Counted(t), scl, ecl - scl + 1, 0)
                           ELSE Counted(t)),
                      LAMBDA v :
                        IF nxt >= n_fatent THEN v
                        ELSE FreeLinks(v, nxt, IF ecl + 1 = nxt THEN scl ELSE nxt, nxt)))

RECURSIVE ContiguousUpTo(_, _, _)
\* Whether the chain from clst runs contiguously to pclst (an error if not
\* readable): then exFAT may forget its links.
ContiguousUpTo(s, clst, pclst) ==
    IF clst = pclst THEN [s EXCEPT !.obj.stat = 2]
    ELSE Given(get_fat(s, clst), LAMBDA g :
           CASE g.val < 2 -> Fail(g, "INT_ERR")
             [] g.val = DiskErr -> Fail(g, "DISK_ERR")
             [] g.val # clst + 1 -> g
             [] OTHER -> ContiguousUpTo(g, clst + 1, pclst))

\* What is left of the object's chain ends in pclst (0: nothing is left).
CutAfter(s, pclst) == IF pclst # 0 /\ (~Ex \/ s.obj.stat # 2)
                      THEN put_fat(s, pclst, EOC) ELSE s
RestStat(s, pclst) ==
    LET o == s.obj
    IN  CASE ~Ex -> s
          [] pclst = 0 -> [s EXCEPT !.obj.stat = 0]
          [] o.stat = 0 -> ContiguousUpTo(s, o.sclust, pclst)
          [] o.stat = 3 /\ pclst \in o.sclust .. o.sclust + o.n_cont ->
                [s EXCEPT !.obj.stat = 2]
          [] OTHER -> s

remove_chain(s, clst, pclst) ==
    IF clst \notin Clusters THEN Fail(s, "INT_ERR")
    ELSE Then(Then(CutAfter(s, pclst), LAMBDA t : FreeLinks(t, clst, clst, clst)),
              LAMBDA t : RestStat(t, pclst))

-----------------------------------------------------------------------------
RECURSIVE ScanFree(_, _, _)
\* The search of create_chain on FAT: from the cluster after ncl, round the
\* end, back to scl.
ScanFree(s, ncl, scl) ==
    LET n == IF ncl + 1 >= n_fatent THEN 2 ELSE ncl + 1
    IN  IF ncl + 1 >= n_fatent /\ 2 > scl THEN Value(s, 0)
        ELSE Given(get_fat(s, n), LAMBDA g :
               CASE g.val = 0 -> Value(g, n)
                 [] g.val \in {1, DiskErr} -> g
                 [] n = scl -> Value(g, 0)
                 [] OTHER -> ScanFree(g, n, scl))

\* FAT: the cluster next to the one being stretched if it is free, else the
\* first free one after the last allocated.
FindFree(s, clst, scl) ==
    LET next == IF scl + 1 >= n_fatent THEN 2 ELSE scl + 1
    IN  IF scl # clst THEN ScanFree(s, scl, scl)
        ELSE Given(get_fat(s, next), LAMBDA g :
               LET from == IF g.last_clst \in Clusters THEN g.last_clst ELSE scl
               IN  CASE g.val = 0 -> Value(g, next)
                     [] g.val \in {1, DiskErr} -> g
                     [] OTHER -> ScanFree(g, from, from))

\* exFAT: what becomes of the object's status when ncl follows clst.
Grown(s, clst, ncl) ==
    Given(CASE clst = 0 -> [s EXCEPT !.obj.stat = 2]
            [] s.obj.stat = 2 /\ ncl # clst + 1 ->
                 [s EXCEPT !.obj.stat = 3, !.obj.n_cont = clst - s.obj.sclust]
            [] OTHER -> s,
      LAMBDA t :
        LET edge == t.obj.n_frag
        IN  CASE t.obj.stat = 2 -> t
              [] ncl = clst + 1 ->
                   [t EXCEPT !.obj.n_frag = IF edge # 0 THEN edge + 1 ELSE 2]
              [] OTHER ->
                   Then(fill_last_frag([t EXCEPT !.obj.n_frag = IF edge = 0 THEN 1 ELSE edge],
                                       clst, ncl),
                        LAMBDA u : [u EXCEPT !.obj.n_frag = 1]))

\* Cluster ncl is allocated and becomes the last of the chain.
LinkTo(s, clst, ncl) ==
    IF Ex THEN Then(change_bitmap(s, ncl, 1, 1), LAMBDA t : Grown(t, clst, ncl))
    ELSE Then(put_fat(s, ncl, EOC),
              LAMBDA t : IF clst # 0 THEN put_fat(t, clst, ncl) ELSE t)

Allocate(s, clst) ==
    LET scl == CASE clst # 0 -> clst
                 [] s.last_clst = 0 \/ s.last_clst >= n_fatent -> 1
                 [] OTHER -> s.last_clst
    IN  Given(IF Ex THEN find_bitmap(s, scl) ELSE FindFree(s, clst, scl), LAMBDA f :
          IF f.val \in {0, 1, DiskErr} THEN f
          ELSE Given(LinkTo(f, clst, f.val), LAMBDA g :
            LET known == g.free_clst \in 1 .. n_fatent - 2
            IN  IF g.res # "OK"
                THEN Value(Ignore(g), IF g.res = "DISK_ERR" THEN DiskErr ELSE 1)
                ELSE [Value(g, f.val) EXCEPT !.last_clst = f.val,
                        !.free_clst = IF known THEN @ - 1 ELSE @,
                        !.fsi_flag = IF known /\ @ % 2 = 0 THEN @ + 1 ELSE @]))

\* val is the new or next cluster, 0 when the volume is full, 1 or DiskErr.
create_chain(s, clst) ==
    Given(IF clst = 0 THEN Value(s, EOC) ELSE get_fat(s, clst), LAMBDA cs :
      CASE cs.val < 2 -> Value(cs, 1)
        [] cs.val = DiskErr \/ cs.val < n_fatent -> cs
        [] cs.free_clst = 0 -> Value(cs, 0)
        [] OTHER -> Allocate(cs, clst))
=============================================================================
