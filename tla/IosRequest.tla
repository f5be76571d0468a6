----------------------------- MODULE IosRequest -----------------------------
(***************************************************************************)
(* A call of IOS and the memory that it shares with its caller: the calls  *)
(* and the reply of ios/low/Ipc.cpp, ios/Request.hpp, ios/Resource.hpp,    *)
(* the typed requests of ios/Interface.hpp, and the cache between the two  *)
(* processors.  How calls share the mailbox is in Ipc.                     *)
(*                                                                         *)
(* A buffer is a sequence of cache lines: "The byte alignment necessary    *)
(* for buffers passed through IPC" (Ipc.hpp:13) is that of a line.  A      *)
(* pointer is a buffer with the kind of its address.                       *)
(***************************************************************************)
EXTENDS Naturals, Sequences, SequencesExt

CONSTANTS User,     \* the lines of the caller's own buffers
          MaxArgs, MaxHeap,
          Values, Results,
          Calls     \* what the caller may ask (see Call)

VARIABLES m,      \* memory: what RAM and the cache hold, and what is dirty
          st,     \* the call: "none", "queued", "posted", "taken", "done",
                  \* "answered", "synced" (m_synced), or "refused"
          call,
          given,  \* the inputs, as the caller has them when it asks (history)
          took,   \* and as IOS reads them
          answer  \* what IOS writes, and then what the caller reads
vars == <<m, st, call, given, took, answer>>

\* The lines of a Request: m_cmd_block, m_vectors, m_this, and what it allocates.
Block == <<"block", 0>>
Vectors == <<"vectors", 0>>
This(i) == <<"this", i>>
Heap(i) == <<"heap", i>>
HeapLines == {Heap(i) : i \in 1 .. MaxHeap}
Object == {Block, Vectors} \cup {This(i) : i \in 1 .. MaxArgs} \cup HeapLines
Line == User \cup Object

-----------------------------------------------------------------------------
(* The cache *)

Seen(mem, l) == IF l \in DOMAIN mem.cache THEN mem.cache[l] ELSE mem.ram[l]

Override(f, g) == [l \in DOMAIN f \cup DOMAIN g |-> IF l \in DOMAIN g THEN g[l] ELSE f[l]]
Only(l, v) == [k \in {l} |-> v]

PutAll(mem, f) == [mem EXCEPT !.cache = Override(@, f), !.dirty = @ \cup DOMAIN f]
Put(mem, l, v) == PutAll(mem, Only(l, v))

DcInvalidate(mem, ls) ==
    [mem EXCEPT !.cache = [l \in DOMAIN @ \ ls |-> @[l]], !.dirty = @ \ ls]

DcFlush(mem, ls) ==
    DcInvalidate([mem EXCEPT !.ram = [l \in DOMAIN @ |->
                                IF l \in ls \cap mem.dirty THEN mem.cache[l] ELSE @[l]]], ls)

-----------------------------------------------------------------------------
(* What callers ask.  An argument is a value in the object, a buffer of    *)
(* the caller, one that the request allocates, or none.                    *)

Immediate == [at |-> "object"]
Own(lines) == [at |-> "caller", lines |-> lines]
Alloc(size) == [at |-> "heap", size |-> size]
NoData == [at |-> "none"]

\* A command and its arguments, inputs first.  Some devices write to inputs
\* (marks); some callers wait; and some calls are refused (see Refused).
Call(cmd, ins, outs) ==
    [cmd |-> cmd, args |-> ins \o outs, ins |-> Len(ins),
     aligned |-> TRUE, waits |-> FALSE, marks |-> FALSE]

\* The requests of Request.hpp and Resource.hpp, of which an Ioctl has one
\* input and one output, either perhaps of no size.
Open(path)     == Call("OPEN", <<path>>, <<>>)
Close          == Call("CLOSE", <<>>, <<>>)
Read(data)     == Call("READ", <<>>, <<data>>)
Write(data)    == Call("WRITE", <<data>>, <<>>)
Seek           == Call("SEEK", <<>>, <<>>)
Ioctl(in, out) == Call("IOCTL", <<in>>, <<out>>)
Ioctlv(ins, outs) == Call("IOCTLV", ins, outs)

\* IOS_Close, IOS_Read, ..., which do not come back before the reply.
Waiting(c) == [c EXCEPT !.waits = TRUE]
\* IOS_Open copies the path to an aligned buffer; it refuses one that is too
\* long, as IOS_OpenAsync refuses one that is not aligned.
IOS_Open(fits) == [Waiting(Open(Immediate)) EXCEPT !.aligned = fits]
Unaligned(c) == [c EXCEPT !.aligned = FALSE]

\* What a typed request may be given for a type, an object or a pointer: the
\* constructors of Vector.  Outputs that are objects are not given.
AcceptsObject(input)  == IF input THEN {"object", "caller", "none"} ELSE {"object"}
AcceptsPointer(input) == {"caller", "none"} \cup (IF input THEN {} ELSE {"heap"})
Accepts(type, input) == IF type = "object" THEN AcceptsObject(input) ELSE AcceptsPointer(input)

IoctlDef(in, out)    == [cmd |-> "IOCTL", in |-> in, out |-> out]
IoctlVecDef(in, out) == [cmd |-> "IOCTLV", in |-> in, out |-> out]

\* A request of a definition with its arguments, in the order of the types;
\* sendRequest finds an Ioctl's among none, one or two of them.
Typed(def, args) ==
    LET n    == Len(def.in)
        ins  == SubSeq(args, 1, n)
        outs == SubSeq(args, n + 1, Len(args))
    IN  IF def.cmd = "IOCTLV" THEN Ioctlv(ins, outs)
        ELSE Ioctl(IF n = 0 THEN NoData ELSE ins[1],
                   IF outs = <<>> THEN NoData ELSE outs[1])

Requests(def, choices) ==
    LET types == def.in \o def.out
    IN  {Typed(def, args) :
           args \in {a \in [DOMAIN types -> choices] :
                       \A i \in DOMAIN types : a[i].at \in Accepts(types[i], i <= Len(def.in))}}

\* fs/Interface.hpp
Format         == IoctlDef(<<>>, <<>>)
GetStats       == IoctlDef(<<>>, <<"object">>)
CreateDir      == IoctlDef(<<"object">>, <<>>)
ReadDirCount   == IoctlVecDef(<<"object">>, <<"object">>)
ReadDir        == IoctlVecDef(<<"object", "object">>, <<"pointer", "object">>)
SetAttr        == IoctlDef(<<"object">>, <<>>)
GetAttr        == IoctlDef(<<"object">>, <<"object">>)
Delete         == IoctlDef(<<"object">>, <<>>)
Rename         == IoctlDef(<<"object">>, <<>>)
CreateFile     == IoctlDef(<<"object">>, <<>>)
SetFileVerCtrl == IoctlDef(<<>>, <<>>)
GetFileStats   == IoctlDef(<<>>, <<"object">>)
GetUsage       == IoctlVecDef(<<"object">>, <<"object", "object">>)
Shutdown       == IoctlDef(<<>>, <<>>)

\* sdio/Interface.hpp
WriteHcReg == IoctlDef(<<"object">>, <<>>)
ReadHcReg  == IoctlDef(<<"object">>, <<"object">>)
Reset      == IoctlDef(<<>>, <<"object">>)
SetClock   == IoctlDef(<<"object">>, <<>>)
ImmCommand == IoctlDef(<<"object">>, <<"object">>)
BufCommand == IoctlVecDef(<<"object", "pointer">>, <<"object">>)
GetStatus  == IoctlDef(<<>>, <<"object">>)
GetOcr     == IoctlDef(<<>>, <<"object">>)

\* The methods of Nand and File: all values but for the names that ReadDir finds.
OfNand(names) ==
    {Typed(def, [i \in 1 .. Len(def.in \o def.out) |-> Immediate]) :
       def \in {GetStats, CreateDir, ReadDirCount, SetAttr, GetAttr, Delete, Rename,
               CreateFile, GetUsage, Shutdown}}
    \cup {Typed(ReadDir, <<Immediate, Immediate, names, Immediate>>)}
OfFile(data) == {Read(data), Write(data), Seek, Typed(GetFileStats, <<Immediate>>)}
\* A register of the host controller, written and read.
HcReg == {Typed(WriteHcReg, <<Immediate>>), Typed(ReadHcReg, <<Immediate, Immediate>>)}

\* It counts the paths and not the vector of the sizes behind them.
CreateMultipleFiles(paths, sizes) == Waiting(Ioctlv(paths, <<>>))

-----------------------------------------------------------------------------
(* The lines of a call *)

\* Sizes add up to the left of an argument in the request's one allocation.
Before(c, i) ==
    FoldLeft(LAMBDA n, a : IF a.at = "heap" THEN n + a.size ELSE n, 0, SubSeq(c.args, 1, i - 1))

LinesOf(c, i) ==
    LET a == c.args[i]
    IN  CASE a.at = "object" -> <<This(i)>>
          [] a.at = "caller" -> a.lines
          [] a.at = "heap"   -> [k \in 1 .. a.size |-> Heap(Before(c, i) + k)]
          [] a.at = "none"   -> <<>>

Lines(c) == UNION {ToSet(LinesOf(c, i)) : i \in DOMAIN c.args}
Inputs(c) == [i \in 1 .. c.ins |-> LinesOf(c, i)]
Copies(c) == (UNION {ToSet(LinesOf(c, i)) : i \in 1 .. c.ins}) \ User
Written(c) == UNION {ToSet(LinesOf(c, i)) : i \in {j \in DOMAIN c.args : c.marks \/ j > c.ins}}
Refused(c) == ~c.aligned
Waits(c) == c.waits

Physical(lines) == [space |-> "physical", lines |-> lines]
Effective(p) == IF p.lines = <<>> THEN p ELSE [p EXCEPT !.space = "effective"]

Vector(c) == [i \in DOMAIN c.args |-> Physical(LinesOf(c, i))]
CommandBlock(c) ==
    [cmd |-> c.cmd, ins |-> c.ins, result |-> "OK",
     args |-> IF c.cmd = "IOCTLV" THEN <<Physical(<<Vectors>>)>> ELSE Vector(c)]

Buffers(ps) == UNION {ToSet(ps[i].lines) : i \in DOMAIN ps}

\* What the constructors above make, with buffers in the memory of the caller.
CallsAssumption ==
    /\ User \cap Object = {}
    /\ \A c \in Calls :
         /\ c.args \in Seq(ToSet(c.args)) /\ c.ins \in 0 .. Len(c.args)
         /\ Lines(c) \subseteq Line \ {Block, Vectors}
         /\ \/ c.cmd \in {"CLOSE", "SEEK"} /\ c.args = <<>>
            \/ c.cmd \in {"OPEN", "WRITE"} /\ Len(c.args) = 1 /\ c.ins = 1 /\ ~c.marks
            \/ c.cmd = "READ" /\ Len(c.args) = 1 /\ c.ins = 0 /\ Lines(c) \subseteq User
            \/ c.cmd = "IOCTL" /\ Len(c.args) = 2 /\ c.ins = 1
            \/ c.cmd = "IOCTLV"

-----------------------------------------------------------------------------
(* Sending *)

Post(mem, c) == Put(mem, Block, CommandBlock(c))

IOS_OpenAsync(mem, c)  == Post(DcFlush(mem, Lines(c)), c)
IOS_CloseAsync(mem, c) == Post(mem, c)
IOS_SeekAsync(mem, c)  == Post(mem, c)
IOS_ReadAsync(mem, c)  == Post(mem, c)
IOS_WriteAsync(mem, c) == Post(DcFlush(mem, Lines(c)), c)
IOS_IoctlAsync(mem, c) == Post(DcFlush(mem, Lines(c)), c)
IOS_IoctlvAsync(mem, c) ==
    Post(DcFlush(Put(mem, Vectors, Vector(c)), Lines(c) \cup {Vectors}), c)

Async(mem, c) ==
    CASE c.cmd = "OPEN"   -> IOS_OpenAsync(mem, c)
      [] c.cmd = "CLOSE"  -> IOS_CloseAsync(mem, c)
      [] c.cmd = "READ"   -> IOS_ReadAsync(mem, c)
      [] c.cmd = "WRITE"  -> IOS_WriteAsync(mem, c)
      [] c.cmd = "SEEK"   -> IOS_SeekAsync(mem, c)
      [] c.cmd = "IOCTL"  -> IOS_IoctlAsync(mem, c)
      [] c.cmd = "IOCTLV" -> IOS_IoctlvAsync(mem, c)

\* What callers owe: a buffer that is read into is not dirty, and an Ioctl
\* into its own input has no more outputs than inputs.
Allowed(c) ==
    /\ c.cmd = "READ" => Lines(c) \cap m.dirty = {}
    /\ c.cmd = "IOCTL" =>
         LET in == LinesOf(c, 1)  out == LinesOf(c, 2)
         IN  in # <<>> /\ out # <<>> /\ Head(in) = Head(out) => ToSet(out) \subseteq ToSet(in)

Idle == st \in {"none", "synced"}

\* The object is new, where something else was written before, and holds
\* copies of the values that the caller gave.
Constructed(mem, c, copies) ==
    PutAll(mem, [l \in Lines(c) \ User |->
                   IF l \in Copies(c) THEN copies[l] ELSE CHOOSE v \in Values : TRUE])

\* The constructors of requests, New, and the calls that wait, up to the wait.
Construct(c, copies) ==
    /\ Idle /\ ~Refused(c)
    /\ Allowed(c)
    /\ st' = "queued" /\ call' = c
    /\ m' = Async(Constructed(m, c, copies), c)
    /\ given' = [i \in DOMAIN Inputs(c) |->
                   [k \in DOMAIN Inputs(c)[i] |->
                      LET l == Inputs(c)[i][k] IN IF l \in User THEN Seen(m, l) ELSE copies[l]]]
    /\ took' = <<>> /\ answer' = <<>>

\* The constructor does not look at what an IOS_*Async returns: nothing will
\* be in the queue, so that Sync of a request that is refused waits for ever.
Refuse(c) ==
    /\ Idle /\ Refused(c)
    /\ st' = (IF Waits(c) THEN "synced" ELSE "refused") /\ call' = c
    /\ m' = Put(m, Block, [CommandBlock(c) EXCEPT !.result = "INVALID"])
    /\ given' = <<>> /\ took' = <<>>
    /\ answer' = IF Waits(c) THEN [result |-> "INVALID", lines |-> <<>>] ELSE <<>>

\* At once, or when the call before it has been acknowledged (see Ipc).
ipcAcrSend ==
    /\ st = "queued" /\ st' = "posted"
    /\ m' = DcFlush(m, {Block})
    /\ UNCHANGED <<call, given, took, answer>>

-----------------------------------------------------------------------------
(* IOS, which has the addresses of RAM only *)

Asked(b) == IF b.cmd = "IOCTLV" THEN m.ram[Vectors] ELSE b.args
Reads(p) == IF p.space = "physical" THEN [k \in DOMAIN p.lines |-> m.ram[p.lines[k]]] ELSE <<>>

IosTakes ==
    /\ st = "posted" /\ st' = "taken"
    /\ took' = LET b == m.ram[Block]
               IN  [i \in 1 .. b.ins \cap DOMAIN Asked(b) |-> Reads(Asked(b)[i])]
    /\ UNCHANGED <<m, call, given, answer>>

\* A device writes to the outputs, and some write to inputs.
Writable(b) ==
    UNION {ToSet(Asked(b)[i].lines) : i \in {j \in DOMAIN Asked(b) : call.marks \/ j > b.ins}}

IosAnswers ==
    /\ st = "taken" /\ st' = "done"
    /\ \E result \in Results : \E new \in [Writable(m.ram[Block]) -> Values] :
         /\ m' = [m EXCEPT !.ram = Override(Override(@, new),
                                           Only(Block, [@[Block] EXCEPT !.result = result]))]
         /\ answer' = [result |-> result, lines |-> new]
    /\ UNCHANGED <<call, given, took>>

-----------------------------------------------------------------------------
(* The reply *)

\* Mutant: the handler takes only what is written out of the cache.
FixedOutputs(b, vectors) ==
    CASE b.cmd \in {"READ", "IOCTL"} -> ToSet(Last(b.args).lines)
      [] b.cmd = "IOCTLV" -> Buffers(SubSeq(vectors, b.ins + 1, Len(vectors)))
      [] OTHER            -> {}

\* The buffers that the handler takes out of the cache.
Fixed(b, vectors) ==
    CASE b.cmd = "READ"   -> ToSet(b.args[1].lines)
      [] b.cmd = "IOCTL"  -> LET in == b.args[1].lines  out == b.args[2].lines
                             IN  ToSet(in) \cup (IF in # <<>> /\ out # <<>> /\ Head(in) = Head(out)
                                                 THEN {} ELSE ToSet(out))
      [] b.cmd = "IOCTLV" -> Buffers(vectors)
      [] OTHER            -> {}

\* The pointers in the block and of the vectors become those of the caller.
handleReply ==
    /\ st = "done" /\ st' = "answered"
    /\ LET seen    == DcInvalidate(m, {Block})
           b       == Seen(seen, Block)
           vectors == Seen(seen, Vectors)
           fixes   == b.cmd \in {"READ", "WRITE", "IOCTL", "IOCTLV"}
           fixed   == IF fixes
                      THEN Put(seen, Block, [b EXCEPT !.args = [i \in DOMAIN @ |-> Effective(@[i])]])
                      ELSE seen
           listed  == IF b.cmd = "IOCTLV"
                      THEN Put(fixed, Vectors, [i \in DOMAIN vectors |-> Effective(vectors[i])])
                      ELSE fixed
       IN  m' = DcInvalidate(listed, Fixed(b, vectors))
    /\ UNCHANGED <<call, given, took, answer>>

\* Get follows the pointer in a vector.
Pointed(ps) == UNION {ToSet(ps[i].lines) : i \in {j \in DOMAIN ps : ps[j].space = "effective"}}

\* GetOutput finds what was allocated behind its vector, if there are vectors.
Reached(b) ==
    IF b.cmd # "IOCTLV" THEN Line ELSE (Line \ HeapLines) \cup Pointed(Seen(m, Vectors))

\* Sync, and Receive in the calls that wait; the caller reads the answer.
Sync ==
    /\ st = "answered" /\ st' = "synced"
    /\ LET b == Seen(m, Block)
       IN  answer' = [result |-> b.result,
                      lines  |-> [l \in Written(call) \cap Reached(b) |-> Seen(m, l)]]
    /\ UNCHANGED <<m, call, given, took>>

-----------------------------------------------------------------------------
(* The caller and the cache *)

Lent == IF Idle THEN {} ELSE Lines(call)

Store(u, v) == /\ u \in User \ Lent
               /\ m' = Put(m, u, v)
               /\ UNCHANGED <<st, call, given, took, answer>>

\* The lines in use come into the cache at any time, and go at any time.
Used == User \cup (IF Idle THEN {} ELSE {Block} \cup Lines(call)
                   \cup (IF call.cmd = "IOCTLV" THEN {Vectors} ELSE {}))

Fetch(l) == /\ l \notin DOMAIN m.cache
            /\ m' = [m EXCEPT !.cache = Override(@, Only(l, m.ram[l]))]
            /\ UNCHANGED <<st, call, given, took, answer>>
Evict(l) == /\ l \in DOMAIN m.cache
            /\ m' = DcFlush(m, {l})
            /\ UNCHANGED <<st, call, given, took, answer>>

Init ==
    /\ \E ram \in [User -> Values] :
         m = [ram |-> Override([l \in Object |-> <<>>], ram), cache |-> <<>>, dirty |-> {}]
    /\ st = "none" /\ call = <<>> /\ given = <<>> /\ took = <<>> /\ answer = <<>>

Next ==
    \/ \E c \in Calls : \E copies \in [Copies(c) -> Values] : Construct(c, copies)
    \/ \E c \in Calls : Refuse(c)
    \/ ipcAcrSend \/ IosTakes \/ IosAnswers \/ handleReply \/ Sync
    \/ \E u \in User, v \in Values : Store(u, v)
    \/ \E l \in Used : Fetch(l) \/ Evict(l)

Spec == Init /\ [][Next]_vars

-----------------------------------------------------------------------------
\* The memory that the caller sees, without what it has lent.
Memory == [u \in User |-> IF ~Idle /\ st # "refused" /\ u \in Written(call)
                          THEN "lent" ELSE Seen(m, u)]

Stage == IF st \in {"queued", "posted"} THEN "sent"
         ELSE IF st \in {"done", "answered"} THEN "answered" ELSE st

Promise == INSTANCE IosCall WITH mem <- Memory, st <- Stage

(***************************************************************************)
(* IOS acts on what the caller gave it, and the caller reads the result    *)
(* and the outputs of IOS, in its buffers and in those of the request,     *)
(* whatever goes through the cache meanwhile (Ipc.cpp:60-146, 240-395;     *)
(* Interface.hpp:60-320).                                                  *)
(***************************************************************************)
ImplementsIosCall == Promise!Spec
==============================================================================
