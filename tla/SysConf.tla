------------------------------- MODULE SysConf -------------------------------
(***************************************************************************)
(* nand/conf/SysConf.cpp: the settings of the console, a file that IOS     *)
(* reads when the first caller asks for an entry.  GetSysConf constructs   *)
(* the object on its first call, and without a guard against other threads *)
(* (-fno-threadsafe-statics); its Request is sent there and waited for in  *)
(* lock(), by whichever thread comes first.                                *)
(*                                                                         *)
(* The file is a record: how many slots the header counts, the offset in   *)
(* each slot and in the one behind them, the offset in the header that the *)
(* lookup table has for a well-known entry, and what stands at an offset.  *)
(***************************************************************************)
EXTENDS Coop

CONSTANTS opening, reading, locking,  \* where callers sleep: the reply of Open,
                                      \* m_request's queue, m_mutex's
          Caller,                     \* the threads that ask for settings
          Files,                      \* what may be on the drive
          Asks                        \* what may be asked for (see Ask)

\* Offsets in m_data.
Size              == 16384
LookupTableOffset == Size - 82

NotFound == [type |-> "None"]

\* What stands at an offset of the file f.
EntryIn(f, offset) ==
  IF offset \in DOMAIN f.entry THEN f.entry[offset] ELSE f.junk

Numbers == {"Byte", "Short", "Long", "LongLong", "Bool"}
Types   == Numbers \cup {"None", "SmallArray", "BigArray"}

\* A file whose header fits before the table has the header; and a key that is
\* asked for is in one place of a file, which is not its first byte.
FileAssumption(f) ==
  /\ f.count \in Nat
  /\ \A e \in {f.entry[o] : o \in DOMAIN f.entry} \cup {f.junk} :
       e.type \in Types /\ e.keyLength \in Nat /\ e.low \in Nat /\ e.high \in Nat
  /\ 8 + 2 * f.count <= LookupTableOffset =>
       /\ f.offset \in [0 .. f.count -> Nat]
       /\ \A a \in Asks : a.form # "index" =>
            /\ EntryIn(f, 0).key # a.key
            /\ \A o, p \in {f.offset[i] : i \in 0 .. f.count} :
                 EntryIn(f, o).key = a.key /\ EntryIn(f, p).key = a.key => o = p

SysConfAssumption ==
  /\ {opening, reading, locking} \subseteq Queue
  /\ opening # reading /\ locking \notin {opening, reading}
  /\ Caller \subseteq Thread /\ Null \notin Thread
  /\ \A a \in Asks : a.form = "index" => a.index \in Nat
  /\ \A f \in Files : FileAssumption(f)

VARIABLES proc,       \* the processor (see Coop)
          file,       \* on the drive
          built,      \* whether the static object counts as constructed
          state,      \* m_state
          request,    \* m_request: "synced", "ios", "answered"
          lockCount,  \* of m_mutex
          pc,         \* where each thread stands; "call" outside every call
          ask,        \* what it asks for
          early,      \* history: it looked at m_state while another thread
                      \* waited for the file, or has not called yet
          result,     \* what its last call returned
          rebuilt     \* history: the object was constructed while it was
                      \* being constructed

object == <<state, request, lockCount>>
vars == <<proc, file, built, object, pc, ask, early, result, rebuilt>>

Init ==
  /\ proc = [ProcessorInit EXCEPT !.ready = Caller]
  /\ file \in Files
  /\ built = FALSE /\ state = "Error" /\ request = "synced" /\ lockCount = 0
  /\ pc = [t \in Caller |-> "call"]
  /\ ask = [t \in Caller |-> CHOOSE a \in Asks : TRUE]
  /\ early = [t \in Caller |-> TRUE]
  /\ result = [t \in Caller |-> NotFound]
  /\ rebuilt = FALSE

At(t, place)   == ~rebuilt /\ proc.current = t /\ pc[t] = place
Woken(t, place) == ~rebuilt /\ MayRun(proc, t) /\ pc[t] = place
Goes(t, place) == pc' = [pc EXCEPT ![t] = place]

----------------------------------------------------------------------------
(* The entries.  A file that was read whole is in m_data. *)

getHeaderSize == 8 + 2 * file.count

EntryAt(offset) == EntryIn(file, offset)

testEntryLength(offset, keyLength, dataLength) ==
  offset + 1 + keyLength + dataLength <= LookupTableOffset

\* Slot i of the header; 0 if it cannot be an entry.
getEntryOffset(i) ==
  LET offset == file.offset[i]
  IN  IF offset < getHeaderSize \/ ~testEntryLength(offset, 1, 1)
      THEN 0 ELSE offset

IsKey(offset, key) ==
  /\ testEntryLength(offset, EntryAt(offset).keyLength, 1)
  /\ EntryAt(offset).key = key

\* What the lookup table has for the well-known number of an entry: a place in
\* the header, where the offset is.
Hinted(key, lookup) ==
  LET place == file.table[lookup]
  IN  {offset \in {file.offset[i] : i \in {n \in 0 .. file.count :
                                             place = 6 + 2 * n}} :
         offset >= getHeaderSize /\ testEntryLength(offset, 1, 1)
                                 /\ IsKey(offset, key)}

\* Mutant of findEntryOffset: the last slot is not looked at.
FindAllButLast(key, lookup) ==
  LET hits == {i \in 0 .. file.count - 2 : IsKey(getEntryOffset(i), key)}
  IN  IF hits = {} THEN 0
      ELSE getEntryOffset(CHOOSE i \in hits : \A j \in hits : i <= j)

\* The hint, and the slots from the first on.
findEntryOffset(key, lookup) ==
  LET hits == {i \in 0 .. file.count - 1 : IsKey(getEntryOffset(i), key)}
  IN  IF lookup \in DOMAIN file.table /\ Hinted(key, lookup) # {}
      THEN CHOOSE offset \in Hinted(key, lookup) : TRUE
      ELSE IF hits = {} THEN 0
      ELSE getEntryOffset(CHOOSE i \in hits : \A j \in hits : i <= j)

\* The bytes before the data, and the bytes of data.
Lead(e)  == CASE e.type = "BigArray" -> 2 [] e.type = "SmallArray" -> 1
              [] OTHER -> 0
Width(e) == CASE e.type \in {"Byte", "Bool"} -> 1 [] e.type = "Short" -> 2
              [] e.type = "Long" -> 4 [] e.type = "LongLong" -> 8
              [] e.type = "SmallArray" -> 1 + e.low
              [] e.type = "BigArray" -> (2 * e.high + 1) + e.low

\* An array must have two bytes more than its key; the bytes that say how long
\* it is are not counted.
getEntry(offset) ==
  LET e == EntryAt(offset)
      start == offset + 1 + e.keyLength
  IN  IF \/ e.type = "None"
         \/ Lead(e) > 0 /\ ~testEntryLength(offset, e.keyLength, 2)
         \/ ~testEntryLength(offset, e.keyLength, Width(e))
      THEN NotFound
      ELSE [type |-> e.type, at |-> offset, data |-> start + Lead(e),
            size |-> Width(e)]

\* The three forms of Get: a number or the data of a key, or the entry of a slot.
Found(a) ==
  CASE a.form = "index" ->
         IF a.index >= file.count \/ getEntryOffset(a.index) = 0
         THEN NotFound ELSE getEntry(getEntryOffset(a.index))
    [] OTHER ->
         LET offset == findEntryOffset(a.key, a.lookup)
             e == getEntry(offset)
         IN  IF offset = 0 \/ (a.form = "number" /\ e.type \notin Numbers)
             THEN NotFound ELSE e

\* Size, the two magic numbers, and a header that ends before the table.
Valid == /\ file.whole /\ getHeaderSize \in 8 .. LookupTableOffset

----------------------------------------------------------------------------
(* The calls *)

\* A call: the object is there, or is constructed, which opens the file and
\* sleeps until IOS has answered.
GetSysConf(t) ==
  /\ At(t, "call")
  /\ \E a \in Asks : ask' = [ask EXCEPT ![t] = a]
  /\ early' = [early EXCEPT ![t] = FALSE]
  /\ IF built
     THEN Goes(t, "asks") /\ UNCHANGED <<proc, object, rebuilt>>
     ELSE /\ state' = "Error" /\ request' = "synced" /\ lockCount' = 0
          /\ rebuilt' = \E u \in Caller : pc[u] = "opens"
          /\ proc' = SleepOn(proc, opening) /\ Goes(t, "opens")
  /\ UNCHANGED <<file, built, result>>

\* The constructor goes on with the answer: the Request is sent.
Opened(t) ==
  /\ Woken(t, "opens")
  /\ proc' = Dispatch(proc, t) /\ built' = TRUE /\ Goes(t, "asks")
  /\ IF file.exists THEN state' = "Invalid" /\ request' = "ios"
     ELSE UNCHANGED <<state, request>>
  /\ UNCHANGED <<file, lockCount, ask, early, result, rebuilt>>

Refused(t) == result' = [result EXCEPT ![t] = NotFound] /\ Goes(t, "call")

\* Who asks for a slot sees none before the file is valid.
CountsNone(t) == ask[t].form = "index" /\ state # "Valid"

\* lock() up to the mutex.  It is never found taken: who sleeps with it has
\* left m_state in Error, and others turn away before they come to it.
Ask(t) ==
  /\ At(t, "asks")
  /\ early' = [early EXCEPT ![t] = CountsNone(t)
                                   \/ \E u \in Caller : pc[u] = "waits"]
  /\ IF state = "Error" \/ CountsNone(t)
     THEN Refused(t) /\ UNCHANGED <<proc, lockCount>>
     ELSE /\ IF lockCount > 0
             THEN proc' = SleepOn(proc, locking) /\ Goes(t, "locks")
                  /\ UNCHANGED lockCount
             ELSE Goes(t, "locked") /\ lockCount' = 1 /\ UNCHANGED proc
          /\ UNCHANGED result
  /\ UNCHANGED <<file, built, state, request, ask, rebuilt>>

\* m_mutex.Unlock()
Unlock == lockCount' = lockCount - 1 /\ proc' = WakeOne(proc, locking)

\* With the mutex: an error is looked for again, and the file is ready, or has to
\* be waited for.
Locked(t) ==
  /\ At(t, "locked")
  /\ CASE state = "Error" -> Refused(t) /\ Unlock /\ UNCHANGED state
       [] state = "Valid" -> Goes(t, "looks")
                             /\ UNCHANGED <<proc, state, lockCount, result>>
       [] OTHER -> state' = "Error" /\ Goes(t, "syncs")
                   /\ UNCHANGED <<proc, lockCount, result>>
  /\ UNCHANGED <<file, built, request, ask, early, rebuilt>>

\* Mutant of Sync: it sleeps without looking whether the answer is there.
SyncSleeps(t) ==
  /\ At(t, "syncs")
  /\ proc' = SleepOn(proc, reading) /\ Goes(t, "waits")
  /\ UNCHANGED <<file, built, object, ask, early, result, rebuilt>>

\* m_request.Sync(): Peek sleeps until there is a message, and leaves it.
Sync(t) ==
  /\ At(t, "syncs")
  /\ IF request = "ios"
     THEN proc' = SleepOn(proc, reading) /\ Goes(t, "waits") /\ UNCHANGED request
     ELSE request' = "synced" /\ Goes(t, "checks") /\ UNCHANGED proc
  /\ UNCHANGED <<file, built, state, lockCount, ask, early, result, rebuilt>>

Answered(t) ==
  /\ Woken(t, "waits")
  /\ proc' = Dispatch(proc, t) /\ Goes(t, "syncs")
  /\ UNCHANGED <<file, built, object, ask, early, result, rebuilt>>

\* The file is checked; a bad one leaves m_state in Error.
Check(t) ==
  /\ At(t, "checks")
  /\ IF Valid THEN state' = "Valid" /\ Goes(t, "looks")
                   /\ UNCHANGED <<proc, lockCount, result>>
     ELSE Refused(t) /\ Unlock /\ UNCHANGED state
  /\ UNCHANGED <<file, built, request, ask, early, rebuilt>>

\* The rest of Get, up to the Defer that unlocks.
Get(t) ==
  /\ At(t, "looks")
  /\ result' = [result EXCEPT ![t] = Found(ask[t])] /\ Goes(t, "call")
  /\ Unlock
  /\ UNCHANGED <<file, built, state, request, ask, early, rebuilt>>

\* Between its calls a thread may give up the processor.
Yield(t) ==
  /\ At(t, "call")
  /\ proc' = YieldNow(proc)
  /\ UNCHANGED <<file, built, object, pc, ask, early, result, rebuilt>>

\* A thread goes on with its own code, or with the mutex it waited for.
Run(t) ==
  /\ Woken(t, "call") \/ Woken(t, "locks")
  /\ proc' = Dispatch(proc, t)
  /\ IF pc[t] = "locks" THEN lockCount' = lockCount + 1 /\ Goes(t, "locked")
                        ELSE UNCHANGED <<lockCount, pc>>
  /\ UNCHANGED <<file, built, state, request, ask, early, result, rebuilt>>

\* IOS answers the Open and the Read; the handler wakes who sleeps for it.
IosOpens ==
  /\ ~rebuilt /\ proc.asleep[opening] # <<>>
  /\ proc' = WakeOne(proc, opening)
  /\ UNCHANGED <<file, built, object, pc, ask, early, result, rebuilt>>

IosReads ==
  /\ ~rebuilt /\ request = "ios"
  /\ request' = "answered" /\ proc' = WakeOne(proc, reading)
  /\ UNCHANGED <<file, built, state, lockCount, pc, ask, early, result, rebuilt>>

\* What two constructors leave behind is not modelled.
Undefined == rebuilt /\ UNCHANGED vars

Works(t) == Ask(t) \/ Locked(t) \/ Sync(t) \/ Check(t) \/ Get(t)
Resumes(t) == Opened(t) \/ Answered(t) \/ Run(t)
Next == \/ IosOpens \/ IosReads \/ Undefined
        \/ \E t \in Caller : GetSysConf(t) \/ Works(t) \/ Yield(t) \/ Resumes(t)

Spec == Init /\ [][Next]_vars

\* IOS answers, a call goes on while it has the processor, some thread gives it
\* up between its calls, and a ready one runs.
Fairness == /\ WF_vars(IosOpens \/ IosReads)
            /\ WF_vars(\E t \in Caller : Works(t))
            /\ SF_vars(\E t \in Caller : Yield(t))
            /\ \A t \in Caller : SF_vars(Resumes(t))

FairSpec == Spec /\ Fairness

----------------------------------------------------------------------------
\* The slots that hold an entry.
Slots == {i \in 0 .. file.count - 1 : getEntryOffset(i) # 0}

\* The slots that answer a, and those that make it fail.
Answers(a) ==
  {i \in Slots : IF a.form = "index" THEN i = a.index
                 ELSE IsKey(getEntryOffset(i), a.key)}
Usable(a, i) == LET e == getEntry(getEntryOffset(i))
                IN  e # NotFound /\ (a.form = "number" => e.type \in Numbers)

(***************************************************************************)
(* A call that has returned gave an entry of the file that IOS has read,   *)
(* one that it asked for, and all of it lies in m_data; or it gave none,   *)
(* and then the file is bad, or has no such entry, or the call was early:  *)
(* another thread was in lock() waiting for the file (SysConf.cpp:34, 47). *)
(***************************************************************************)
GetRight ==
  \A t \in Caller : pc[t] = "call" /\ ~rebuilt /\ built =>
    LET r == result[t]   a == ask[t]
    IN  IF r = NotFound
        THEN \/ early[t] \/ ~file.exists \/ ~Valid
             \/ \A i \in Answers(a) : ~Usable(a, i)
        ELSE /\ file.exists /\ Valid /\ request = "synced"
             /\ r.data + r.size <= Size
             /\ \E i \in 0 .. file.count :
                  /\ file.offset[i] = r.at
                  /\ IF a.form = "index" THEN i = a.index ELSE IsKey(r.at, a.key)

\* A thread that asks for a setting gets its answer, unless the object was
\* constructed over itself.
GetsReturn ==
  \A t \in Caller : pc[t] # "call" ~> pc[t] = "call" \/ rebuilt
=============================================================================
