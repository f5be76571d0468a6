# libpeli in TLA+

libpeli is a freestanding C++23 core library for Wii and Wii U (vWii) programs:
start-up, threads, exceptions, memory, video console, the IPC that talks to IOS
on the coprocessor, and a FAT and exFAT file system.  This directory models the parts whose correctness
depends on the order of steps, model-checks them with TLC, and proves the most
important results with TLAPS.  Paths below are relative to `src/peli/`.

## 1. The system

One PowerPC core runs every thread.  Threads are never preempted: the processor
changes hands only inside `Thread::Sleep`, `Yield`, `Join`, `Exit` and the
destructor, all of which end in `Thread::dispatchAny` (`rt/Thread.cpp:316-362`).
Waking a thread only puts it on a run queue.  Interrupts are taken while MSR.EE
is set, that is in application code between two calls and in the idle loop of
`dispatchAny`; a handler runs on the stack of the thread it interrupts and may
wake threads, send to message queues and receive from them.  Every call of the
runtime disables interrupts for its duration (`ppc::Msr::NoInterruptsScope`),
so a call is atomic except where it gives the processor away.  Two parts have
other actors: the video console is shared with the ARM core that runs IOS, and
the file system with a drive whose transfers fail.

| component | state | operations | talks to |
|---|---|---|---|
| `util/List` | head and tail; a link in every object | enqueue and dequeue at both ends, dequeue of a member | used by every queue |
| `rt/Thread`, `rt/ThreadQueue` | state, priority, run queues and mask, wait queues, join queues, list of threads, stray stack | create, destroy, Exit, Join, Sleep, Wakeup, WakeupAll, Yield, dispatch | `ppc/Context` (switch), `ios/LoMem` (published lists), `host` (stack memory) |
| `rt/Mutex` | lock count, owner, wait queue | Lock, Unlock, TryLock | ThreadQueue |
| `rt/Cond` | wait queue | Wait, Signal, Broadcast | Mutex, ThreadQueue |
| `rt/MessageQueue` | ring, first, count, one wait queue for both sides | Send, Jam, Receive, Peek and their Try forms | ThreadQueue; called by threads and by interrupt handlers |
| `rt/Once` | three states | Once, Done | Thread::Yield |
| `rt/GThread` | none of its own | libstdc++'s gthread interface | Thread, Mutex, Cond, Once |
| `ios/low/Ipc` | the send queue, `s_waiting_ack`, the mailbox registers | Open, Close, Read, Write, Seek, Ioctl, Ioctlv, interrupt handler | MessageQueue, the IOS coprocessor |
| `ios/Request`, `ios/Resource`, `ios/Interface` | command block, vectors, objects and allocations of a request, reply queue, `m_synced`; the descriptor | construct (send), Sync, New, typed requests and their outputs; open and close | Ipc, the data cache, memory that IOS reads and writes |
| `ios/fs`, `ios/sdio/Interface` | none | the typed requests of a device | Request |
| `ios/sdio/Card` | the card's address, the last request, a block buffer; at the device, whether the card is selected | device initialisation, block transfers | Request, an IOS device |
| `nand/conf/SysConf`, `Ipl` | the file image, the request that reads it, `m_state`, a mutex | construction on first use, `lock`, three forms of Get; typed getters | Ipc, Request, Mutex, `ios/fs` |
| `log/VideoConsole` | a lock word and a row for each processor, in shared memory; column and newline of each instance | Print: lock, characters, unlock | the instance on the other processor, the frame buffer |
| `vi/Video` | registers, two frame buffers | configure, Flush, swap, retrace wait | the video interface |
| `rt/Arena` | two bump regions | aligned allocation, sbrk | newlib |
| `rt/Exceptions` | handler tables | dispatch of exceptions and interrupts | every handler |
| `rt/Start`, `Exit`, `Arguments`, `SystemCall` | none that outlives start-up | start-up, return to the loader | |
| `hw`, `ppc`, `ios/es`, `fs`, `di`, ... | registers, wire formats | accessors | |
| `fat/FatFs` | on the drive: FAT, allocation bitmap, FSInfo, entries, data; in memory: the sector window, free count and last allocation of a volume, the table of open files, a buffer and a position for each file; mutexes | f_mount, f_open, f_read, f_write, f_lseek, f_truncate, f_sync, f_close, f_unlink, f_mkdir, f_rename, f_stat, f_getfree, directory enumeration | the drive through `fat/IO.hpp`, mutexes of the system |

### What is hard here

* A thread that sleeps runs a loop that waits for *itself* to be woken; the
  waker and the loop both put it on the run queue.
* A woken thread runs later.  What it tested before it slept may be stale, and
  another thread can take what it was woken for.
* An intrusive link is one field per object and is never cleared on removal.
* A message queue has one wait queue for senders and receivers.
* The IPC acknowledge interrupt and a blocked sender race for the send queue.
* A destroyed thread's stack is in use until somebody else runs.
* What is built on first use is asked for again while it is being built.
* One call of the file system is a dozen transfers, each of which may fail or
  be the last before a loss of power; the window, a file's buffer and direct
  transfers hold copies of the same sector; exFAT keeps chains in one piece out
  of the FAT until they break.
* `unlock_volume` guesses from two globals, which other tasks write, whether it
  holds the system mutex.
* Two processors share the console's lock word without atomic operations.
* A call of IOS shares memory with a processor that sees RAM only, while the
  PowerPC has a cache: what was written must leave it in time, and what came in
  must not hide the answer, for every way to pass an argument.
* `Card` has several requests outstanding, any of which may fail; each must have
  synced before its object is used again or destroyed.
* The registers of a thread are in four places, the processor, its context, the
  stack of a handler and, for floating point, an older context; each assembly
  routine keeps another part of them.

`PROJECT.json` lists each hazard with its line and the properties that cover it.

### What makes each component correct

* List: it holds the sequence that was put on it, and a removed object is gone.
* Thread: the mask agrees with the queues; a ready thread is on the queue of its
  priority exactly once; first come, first served; Join returns the result of an
  exited thread; nothing runs on freed memory; a dispatch always has a thread.
* Mutex: one owner at a time; the owner is who locked it; no waiter is left
  asleep by an unlocked mutex.
* Cond: Wait returns after a Signal that comes after it, with the mutex held.
* MessageQueue: what is received is what was sent, once and in order (Jam goes
  first); nobody sleeps while they could go on.
* Once: the initialiser runs once, and everyone else returns after it.
* Ipc: one request at a time in the mailbox; a queued request is sent; every
  reply reaches the queue of its request.
* Request: IOS acts on what the caller gave, and the caller reads what IOS
  answered, as if there were no cache.
* Card: blocks are asked of a selected card only, it is not left selected, and no
  request is destroyed before its reply.
* SysConf: a Get returns an entry of the file, inside the data, and every Get
  returns.
* Names: an object is found by its name in any case and no other is; short names
  are distinct; a list returns each object that stays once.
* FatFs: no cluster has two owners, none is lost, what a call reported done is
  on the drive and stays there whatever fails later; without a fault the volume
  is a tree of files.  One task at a time is inside a volume, and the table of
  open files counts the open objects.
* Contexts: a thread finds in its registers what it left there.
* VideoConsole: one processor at a time prints, and rows are not shared.

## 2. Plan

Steps 1 to 12 exist (sections 3 to 6 describe them); 13 and 14 are to come.

1. `List`, `Sched`, `Thread`: the list by its pointers, the scheduler, the
   Thread class; proofs.
2. `Scheduler`, `ThreadClient`: the abstract scheduler, clean clients, the
   refinement, fairness.
3. `Coop`, `MessageQueue`, `BoundedQueue`: the processor for the primitives, the
   ring and its refinement to a queue.
4. `Mutex`, `Once`, `Cond`; a proof of when the mutex excludes.
5. `Ipc`: the mailbox, the acknowledge and reply interrupts, the send queue,
   synchronous callers; a proof that the mailbox is guarded.
6. `FatDisk`, `FatChain`, `FatDir`, `FatFile`, `FatFs`: the file system on a
   drive that fails; `FatView`, what a drive means; `FileStore`, what the calls
   promise, and the refinement.
7. `FatLock`: tasks that share volumes; proofs of both mutex properties.
8. `VideoConsole`: two processors, with a proof; `SysConf`: the settings.
9. `Registers`, `OwnRegisters`: what a switch, an interrupt and an exception do to
   the registers of threads, and the refinement.
10. `LongNames`: what names are stored as, found by and listed as; `NameTable`,
   what names promise, and the refinement.
11. `Waiting`: message queue, condition, Once and settings under one
   specification; proofs of their invariants, of the accounting of requests in
   Ipc, of the table of FatLock, of the rows of the console, of the registers, and
   that a clean client of Thread gets the abstract scheduler.
12. `IosRequest`, `IosCall`: a call of IOS and the memory it shares, and the
   refinement; `Card`: the SD card; `Machine`, which puts both beside `Registers`;
   proofs of all four properties.
13. The lifetime of a Resource's descriptor, `Arena`, `Video`, the interrupt
   tables, `GThread`.
14. Proofs about `LongNames`.

The project keeps to a dozen runs.  Where the code does not keep what a comment
says, the run states the property with the exception that the code needs (as
`ExclusiveUnlessBarged`, `WaitersReturn` and `EntriesMatch` do) instead of a run
for each of the two; section 6 lists these.  One run, `card_init`, shows a property
violated, because an exception would be all of `Device_Init`.  Types are proved (section 5) rather
than checked by the runs.

## 3. The modules

### How the code becomes actions

* **Atomicity.**  A call runs with interrupts disabled
  (`ppc/Msr.hpp:103-114`) on the only core, so it is one action up to the point
  where it gives the processor away; what comes after is another action, of the
  thread that is dispatched again.  The exceptions are modelled as such: the Try
  calls of the message queue look at the count first with interrupts enabled
  (`TryLook`, `TryDo`), WakeupAll's loop is a step per thread (so that the links
  it follows are those of the moment), and the idle loop waits with interrupts
  enabled.
* **Interrupts** are actions whose guard says that the processor idles or is in
  code that has them enabled.
* **Objects** are their own names: a thread, its stack, its command block and
  its join queue are all named by the thread.
* **Calls that change nothing** (a Join of an exited thread, a Try call that is
  refused, a Yield with nobody ready) have no action: they would stutter.

| module | models | state |
|---|---|---|
| `List` | `util/List.hpp`: operators from a list and its links to the next, written from the pointer assignments; where the code would write through a null pointer, `DequeueFaults` | none |
| `Sched` | the scheduler as operators on a record `k`: run queues, mask, wait queues, dispatchAny, Sleep, Wakeup, WakeupAll | none (its clients own `k`) |
| `Thread` | `rt/Thread.cpp`: an action per call, the idle loop, stacks | `k`, the thread list, joins, stacks, `pc`, `sp` |
| `Scheduler` | what a scheduler promises: a sequence of threads per priority and per queue | abstract |
| `ThreadClient` | clients of Thread, and `Ideal`, the refinement mapping to Scheduler: each queue's pointers are read as the sequence they chain | as Thread |
| `Coop` | the processor as the primitives see it: Scheduler without priorities | none |
| `MessageQueue` | `rt/MessageQueue.hpp`: ring arithmetic, all nine calls, handlers | the use under test, processor, ring, `first`, `count`, `pc` |
| `BoundedQueue` | what a message queue promises | abstract |
| `Mutex` | `rt/Mutex.cpp` | processor, count, owner, `pc`, locks held; `barged`, a history variable |
| `Once` | `rt/Once.cpp` and the Guard | processor, state, `pc` |
| `Cond` | `rt/Cond.hpp` with its mutex, on `Sched`, because Wait leaves a running thread linked into a queue, which `Coop` could not express | `k`, count, owner, `pc` |
| `Ipc` | `ios/low/Ipc.cpp`: driver, mailbox registers, IOS | `d` (driver and mailbox), `pc`, requests in IOS |
| `SysConf` | `nand/conf/SysConf.cpp` on `Coop`: the static object, its request, `lock`, the lookup | processor, file, `m_state`, request, mutex count, `pc`; `early`, `rebuilt`, history variables |
| `FatDisk` | the sector window, `sync_fs`, clusters and sectors; transfers | none (a record `s` goes through every operator) |
| `FatChain` | FAT and bitmap entries, `remove_chain`, `create_chain`, fragments | none |
| `FatDir` | walking, searching and changing directories, the table of open files | none |
| `FatFile` | the search for a volume, mounting, f_open to f_truncate | none |
| `FatVolumes` | the volumes that `fat` starts from | none |
| `FatView` | the FAT and exFAT formats: objects, chains and contents of a drive, not taken from the code | none |
| `FatFs` | the calls on names; every call as an action, faults, what is kept | drive, volume, table, open file; history variables |
| `FileStore` | what the file system promises without faults | abstract: a tree and one open file |
| `LongNames` | names, short names and their numbers, long names in parts, search and listing of a directory | entries, the open directory; what a list returned and owes, history variables |
| `NameTable` | what the names of a directory promise | abstract: objects with a long and a short name |
| `FatLock` | the mutexes, the table of open files and the mount ids between tasks | mutexes, `SysLock`, table, mounts, where each task is |
| `Registers` | `ppc/Context.cpp`, the vectors of `rt/Exceptions.cpp`, contexts of `rt/Thread.cpp` | registers, MSR, HID2, contexts, where each thread is; `lost`, a history variable |
| `OwnRegisters` | what threads are promised of the processor: registers of their own | abstract |
| `IosRequest` | a call of IOS: `ios/Request.hpp`, `ios/Resource.hpp`, `ios/Interface.hpp`, the devices of `ios/fs` and `ios/sdio`, the calls and the reply of `ios/low/Ipc.cpp`, the cache | RAM, cache and dirty lines (`m`), the call and its state; `given`, `took`, `answer`, history variables |
| `IosCall` | what a call of IOS promises | abstract: one memory, a call |
| `Card` | `ios/sdio/Card.cpp`, with IOS and the card | where a call is, unsynced requests, what IOS has not answered, results, the address; `selected` (at the device) |
| `Machine` | nothing of its own: puts Registers, IosRequest and Card under one specification, of which a behaviour moves one (`part`) | `part`, and theirs |
| `Waiting` | nothing of its own: puts MessageQueue, Cond, Once and SysConf under one specification, of which a behaviour moves one (`part`) | `part`, and theirs |
| `VideoConsole` | `log/VideoConsole.cpp`, an instance on each processor | lock word, turns, rows, lines; `screen`, a history variable |
| `MC*` | the constants of the runs | |
| `Thread_proofs` | theorems on List, Sched, Thread and ThreadClient | |
| `Coop_proofs` | lemmas on the routines of Coop, for the modules that run on it | |
| `Waiting_proofs` | theorems on MessageQueue, Cond, Once and SysConf | |
| `Machine_proofs` | theorems on Registers, IosRequest, Card and Machine |
| `*_proofs` | theorems on the module of that name | |

In `Thread`, `k.cpu = "idle"` is the loop at `Thread.cpp:327-337`: `k.current`
is still the thread that went to sleep, or null after a thread has deleted
itself, and `sp` names the stack the loop runs on.  `pc[t] = "join"` stands for
a thread inside Join after its Sleep, `"exited"` and `"deleted"` for the code
after the last dispatch, which must not be reached.

`Ipc` takes each interrupt handler as one step although IOS works at the same
time: IOS raises Y2 only after X1 and Y1 only after X2, and both handlers write
these last.  Y1 and Y2 stay raised until the handler clears them, so the
interrupt is a level, not an edge.  IOS is external: it takes the request in the
mailbox, and answers what it has taken in any order, one at a time.

`FatFs` takes a call as one step, because a volume is locked during it; what
tasks do between is in `FatLock`.  A call is an operator on a record `s` that
holds the drive, the volume's memory and the result, and `Given`, `Then` thread
it through the call as the code's early returns do.  Each transfer counts `s.io`
up; the action `Call` runs the operator once without a fault, and once for each
of its transfers with that transfer failing (`"error"`) or the power going there
(`"power"`: nothing later reaches the drive, and memory is lost).  A transfer of
several sectors happens or does not.  A sector is a function from slots to
entries or data; an entry is a record; the checksum of an entry set is the set
itself.  `FatView` reads the same sectors without the code, so that the
properties do not ask the code about itself.

`LongNames` has the characters of names, because names that look alike must not
be taken for each other: a name is a sequence of characters, of which there is
one of each kind that the code treats apart (in two cases, with two bytes, with
two bytes of which the first marks deleted entries, not allowed in short names,
not allowed at all).  Its directory is a table of entries, since sectors and
faults are in `FatDir`.  What the code page and the hash of a name answer is
external.

`VideoConsole` reads the lock word in one step and writes it in another.  What
keeps the processors apart is how fast they are, so the model counts (`lag`) the
steps that one takes between two of the other in `lock()`, and bounds them
(`Skew`).  A character behind the lock is one step.

`Registers` has a value for each class of registers that the assembly treats
alike, in the processor and in each context.  Which thread is next is left open,
because `Thread` decides that.  A thread is in its code, under an interrupt
handler, or stopped in a panic; `Held` says where each of its registers is then:
in the processor, in its context, or in the frame of `handleExternalInterrupt`.
`lost` names what the code is known not to keep (findings 9, 10 and item 13, the
first of the restrictions), and the refinement maps the rest.

`IosRequest` has memory in cache lines: the block of a request, its vectors, what
it holds for each argument (`m_this`) or allocates, and the caller's buffers.  RAM
is what IOS sees.  The processor reads and writes through the cache, lines come in
(`Fetch`) and go (`Evict`) at any time while they are in use, and a dirty line is
written to RAM when it goes.  An argument is a value, a buffer of the caller's,
memory that the request allocates, or none, which is what the constructors of
`Interface::Vector` tell apart (`AcceptsObject`, `AcceptsPointer`); a typed
definition makes of its arguments an Ioctl or an Ioctlv (`Typed`).  A pointer has the
kind of its address, because `handleReply` changes the pointers in a reply from
physical to effective.  One call at a time: which of several is sent when, and to
whom a reply goes, is in `Ipc`.  IOS is external; it may write to what a device
writes to, outputs always and inputs for some devices (`marks`).

`Card` is Device_Init and Device_BlockTransfer from one Sync to the next, with IOS
answering requests in the order in which they come, each well or with an error.
CMD7 with the card's address selects it and with another deselects it.  A request
that is made where one has not synced halts the program (`Send`), which is what
`~Request` does.

## 4. The runs

`FullSpec` of Thread lets every thread make every call in every state, including
calls that break the scheduler.  `CleanSpec` is a client that keeps to what the
code can bear: a thread destroys itself or threads that have exited and that
nobody joins, and while the processor idles no wakeup makes ready a peer (a
thread of the sleeper's priority) together with the sleeper (`IdleSafe`).
Section 6 says what happens without each of these.

| run | instance | shows |
|---|---|---|
| `thread_full` | 2 threads, 1 queue, 2 priorities | mask, list ends and the dispatcher's assertion, whatever is called |
| `thread_clean` | 3 threads, 2 queues, 2 priorities | the refinement to Scheduler, and four invariants on joins, stacks and lost threads |
| `thread_fair` | 3 threads, 1 queue, 1 priority | ready threads run, joins return |
| `waiting` | a message queue in three uses, or a condition and 2 threads, see below | nobody stranded, no deadlock, the ring is a queue; the mutex count survives Wait, Signal, Broadcast |
| `mutex` | 3 threads, recursive | exclusion until a thread barges; the count always; Lock returns |
| `first_use` | 4 threads and a Once, or 2 that ask for settings in six files | one initialiser, nobody early, waiters return unless it sleeps for ever; settings are right, and every Get returns |
| `ipc` | 3 threads | mailbox, accounting of requests; waits for a reply end |
| `fat` | FAT32 volumes, and exFAT volumes with a bitmap and chains in one piece; 4 calls, or 3 with a fault | no cross-links, nothing lost, what is saved stays, reads are right, the refinement to FileStore |
| `fat_lock` | 2 tasks, 2 volumes, 1 entry in the table; or 5 entries, 9 names, 2 renames, a list | exclusion, no lock left, checks stay true, the table is right; the refinement to NameTable |
| `machine` | 2 threads, 2 values, 2 events; or the calls of IOS in `TheCalls`, with 2 lines of buffers; or a card, transfers of up to 2 blocks | the refinements to OwnRegisters and to IosCall; blocks only of a selected card, none left selected |
| `card_init` | the card alone | **violated**: `Device_Init` destroys a request that has not synced when an earlier one fails (finding 12) |
| `console` | 16 and 8 turns, IOS up to 15 steps behind, 2 prints each | exclusion, rows apart, Print returns |

`first_use` and `waiting` are runs of `Waiting` with other values of `Parts`, and
each holds two systems that share nothing.  So do `fat` (two formats), `fat_lock`
(locks, names) and `machine`: a behaviour is about one of them, and leaves the
others as they were.  What `first_use` holds is built by
whoever comes first; what `waiting` holds is where threads sleep on a
`ThreadQueue`.  `Waiting` exists so that the theorems about the four are about
the specification that the runs check.

The message queue of `waiting` is in one of three uses (`MCWaiting!TheUses`): three
producers on two slots, with a handler that takes and sends; a sender that also
jams and a receiver that also peeks, on four slots; two receivers on one slot
that a handler fills.  These are the ways the library uses its queues.

**Bounds.**  Three threads are the least that show a thread cut off a queue by
two others, two priorities the least that show the mask and the choice of the
highest.  `thread_full` has two threads because every corruption of links is
reachable there; `Joinable` limits whom a client joins in that run, which keeps
it within minutes, and the theorems of section 5 have no such bound.  A queue of
two slots has both wakeup counts (1 and max - 1) equal, one of four has them
apart.  `WordSize` stands for 2^32 and is 16: what matters is that first and count
together stay below it, that the size of a ring that is jammed divides it
(section 6, item 19), and that 0 - 1 wraps.  `MaxDepth` = 2 is the least that tells a
recursive lock from the first.  Three callers of Ipc put one request in the
mailbox, one in the send queue and one asleep behind it, or one in IOS.  No run
uses symmetry.

The files of `first_use` are a good one, none, a short one, one whose header is
too large, one whose last entry is too long, one with a slot into the header,
with hints that are right, wrong, and behind the last slot.  The keys asked for
are found by a hint, found by the search, found last, and not found.

The volumes of `fat` have six clusters of one sector, a sector has two
slots or units (four on exFAT, where an entry set has three), and four FAT
entries share a sector.  So a directory grows with its third entry, a volume is
full after a few writes, a chain crosses FAT sectors, and a transfer of several
sectors occurs.  The starting volumes are states that earlier calls can leave:
fragmented files, a long name across a cluster border, a directory beside its
files, free clusters that are not in a row, a directory that cannot grow in one
piece.  Names are members of a small set; `LongNames` are those that take a
second slot.  Four calls create, write, close and look again; with a fault
three, of which one is broken off, and the invariants look at all the drive
after each.  The drive of FAT32 is partitioned (`Boots`): the first partition has another boot
record, the second is missing, the third has the volume; that of exFAT has no table.
The names of `fat_lock` have short names of four and one characters instead of eight and three,
parts of two characters instead of thirteen, one number before the hashes and
three in all, so that a name of five characters has three parts, the field of a
short name overflows within a two-byte character, and numbers collide and run
out.  Five entries hold two long names or one with a short name beside it and
a hole; the result of a call is left out of the view, since no call reads it.
`fat_lock` has two volumes although `FF_VOLUMES` is 1 here: the
system mutex only matters between volumes, and the file system is written for
several.  `MaxMounts` = 2 lets a volume come back once; the theorems have no
bound on tasks, volumes or mounts.  The turns of `console` are those of the
code, and the skew is the largest that the assumption allows.  `MaxEvents` of
`machine` counts what changes a register's contents, switches in handlers and
the end of threads; calls, interrupts and exceptions are without bound.  A
register that is mixed up shows after one write, and two tell the writers apart.  The buffers of
`machine` are two lines, the least in which an input and an output can be the
same, overlap or be apart, with two values each.  `TheCalls` has a call of each
kind, waiting and not, every method of Nand, File and the host controller, one definition
(`GetAttr`) with every argument that it accepts, a device that writes to its
inputs, outputs that share an allocation, and calls that are refused.  `Apart`
says that lines which a call does not use are out of the cache while it runs; they
take no part in it.  The view leaves out the last call once it has synced, since
the next reads nothing of it.  `MaxCount` = 2 is a first, and a last, transfer.

**Deadlock** is checked in `waiting`, `first_use` and `fat_lock`.  In the
runs of Thread and Mutex, and with the condition (`AtRest`), every thread may go to sleep for good, exit, or
destroy the object under test; in Ipc all may wait behind a request that nobody
sends (finding 4); `fat` and `console` stop at their bound on calls, and
`machine` when both threads have ended in a panic, when a request that was refused
is waited for (section 6, item 21), and when the card is gone or the program has halted.

**Faults.**  The run `fat` has an error or a loss of power at any one transfer
of any call but f_mount.  `intact` says that there was none, and that no volume
was mounted again with work unsaved: AllocationExact, ReadsBack and
ImplementsFileStore are about such a volume.  NoCrossLink and Kept hold after
faults, with these exceptions (`loose`), in each of which the drive's entries
name clusters that are not theirs: an f_rename that was broken off leaves the
object under both names; a file truncated to nothing frees clusters that its
entry names until it is saved; a directory whose growth was broken off ends in a
cluster that was never cleared; and on exFAT what f_mkdir and f_unlink read from
an object that they did not initialise (`Junk`).  `Kept` counts as saved what
f_sync or f_close reported saved; a call that had nothing to save promises
nothing new, because f_sync forgets that a file is modified before the transfer
that may fail (`FatFs.cpp:4281`).  After a loss of power a chain on exFAT may
have no end mark beyond the size of its file (`Needed`).

**Jam** stores its message without counting it (`MessageQueue.hpp:67-72`).
`BoundedQueue` has an action of its own for what that does to the queue
(`Replace`: the last message makes room), so that nothing else may lose one.

**Fairness.**  `WF(System)`: the processor goes on executing.  `SF(IdleEnd)`:
the idle loop disables interrupts and looks at the mask on every turn
(`Thread.cpp:327-337`), whatever handlers do in between.  `SF(GivesUp(t))` for
each thread: threads are never preempted, so one that neither yields, sleeps nor
exits stops all others; the properties are about clients that do.  On `Coop`,
`SF(Run(t))` is what `thread_fair` shows of threads of one priority.  In Ipc,
`WF` of IOS taking and `SF` of IOS answering each request say that IOS is alive,
`SF(Interrupt)` that an interrupt raised again and again while it is enabled
is taken, and `SF` of some Yield that no thread keeps the processor for ever;
the caller that waits for room in the send queue is left out of `CallsReturn`
because others can fill it again each time before it runs.  In SysConf, IOS
answers, a call goes on while it has the processor, each thread gives it up
between its calls, and a ready one runs.  In VideoConsole both processors go on
executing, and a processor prints a bounded number of times: one that prints
without end may keep the other out.  FatFs and FatLock state no liveness.  The
Mutex run also
assumes that a holder lets go (`SF(Unlock)`), until it holds no more.

## 5. What is proved

TLAPS checks, for any finite or infinite sets of threads, queues, tasks, volumes
and files (of threads, any finite set for `CleanSpec`), and any number of priorities
and turns:

| theorem | says |
|---|---|
| `Thread_proofs!TypeCorrect` | `FullSpec => []TypeOK` |
| `Thread_proofs!QueuesAlwaysSound` | `FullSpec => []QueuesSound`: the mask agrees with the run queues, and every list has both ends or none |
| `Thread_proofs!DispatchNeverPanics` | `FullSpec => []DispatchedNotNull`: the assertion at `Thread.cpp:356` |
| `Thread_proofs!NoThreadEverLost` | `CleanSpec => []NoThreadLost`: who is ready is on the run queue of its priority |
| `Thread_proofs!JoinAlwaysReturnsAfterExit` | `CleanSpec => []JoinReturnsAfterExit` |
| `Thread_proofs!AlwaysOnLiveStack` | `CleanSpec => []RunsOnLiveStack` |
| `Thread_proofs!NoStackEverLeaks` | `CleanSpec => []NoStackLeak`: freed, or the stray stack |
| `Thread_proofs!SchedulerImplemented` | `CleanSpec => ImplementsScheduler`: the refinement to Scheduler, step by step |
| `Mutex_proofs!ExclusionUntilBarged` | `Spec => []ExclusiveUnlessBarged`: two threads hold a mutex only after one took it ahead of a woken waiter; until then the holder is the owner |
| `Mutex_proofs!MutexTypeCorrect` | `Spec => []TypeOK`: the count is never negative, a depth never beyond its bound |
| `Mutex_proofs!CountAlwaysMatches` | `Spec => []CountMatchesHolders`: `m_lock_count` is the number of locks that are held, by however many threads, barging or not |
| `Ipc_proofs!MailboxAlwaysGuarded` | `Spec => []MailboxGuarded`: `s_waiting_ack` is set while a request or its acknowledgement is outstanding |
| `Ipc_proofs!RequestsNotOverwritten` | `Spec => NeverOverwritten` |
| `Ipc_proofs!RequestsAlwaysAccounted` | `Spec => []RequestsAccounted`: a request that is outstanding is in one place, and none is left anywhere when its call has returned |
| `FatLock_proofs!FatLockExclusive` | `Spec => []OneInside`: one task inside a volume, one between lock_volume and unlock_volume of all the calls with a path |
| `FatLock_proofs!FatLockGivenBack` | `Spec => []NoLockLeft`: who is inside owns what is taken, and `SysLock` tells of whom |
| `FatLock_proofs!CheckAlwaysHolds` | `Spec => []CheckStillHolds`: what a call found in the table of open files is true until it acts on it |
| `FatLock_proofs!EntriesAlwaysMatch` | `Cardinality(Task) < Writing` implies `Spec => []EntriesMatch`: the table counts the open objects |
| `VideoConsole_proofs!ConsoleExclusive` | `Spec => []OneInside`: at most one processor behind the console's lock |
| `VideoConsole_proofs!ConsoleRowsOwned` | `Spec => []RowsOwned`: no row has characters of both processors |
| `Machine_proofs!RegistersOwn` | `Spec => ImplementsOwnRegisters`, for Registers: the refinement to OwnRegisters, step by step |
| `Machine_proofs!CallsImplemented` | `Req!Spec => ImplementsIosCall`, for IosRequest: the refinement to IosCall, step by step, for any lines, values, results and calls |
| `Machine_proofs!CardSelectedForData` | `CardSpec => SelectedForData`: blocks are asked of a selected card, whatever failed |
| `Machine_proofs!CardLeftDeselected` | `CardSpec => []LeavesDeselected` |
| `Machine_proofs!MachineImplements` | `MachineSpec` implies all four, which is what the run `machine` checks |
| `Waiting_proofs!QueueIsFifo` | `JamsFit` implies `Spec => ImplementsQueue`, for MessageQueue: the ring is a bounded queue, a Jam goes first |
| `Waiting_proofs!NobodyStranded` | `OneWay` of all uses implies `Spec => []NoneStranded`: nobody sleeps who could go on |
| `Waiting_proofs!CondCountMatches` | `WaitingSpec => []CountMatchesHolders`: the mutex of a condition is never unlocked more often than locked |
| `Waiting_proofs!OnceInitialises` | `WaitingSpec => []InitialisedOnce`: one initialiser, and nobody returns before its end |
| `Waiting_proofs!SettingsRight` | `WaitingSpec => []GetRight`: a setting is the entry that was asked for, inside the data, and a call is refused only early or if there is no such entry |

**Thread.**  These hold for every sequence of calls, also after links have been corrupted.
That is not obvious: a thread can be on two queues at once, and the chain of a
queue can contain a thread that was removed.  The argument needs no property of
the links.  The inductive invariant `IInv` is `TypeOK` with `KernelOK`: each list
has both ends or none (`EndsAgree`), each bit of the mask is set exactly when
its queue has a head, and the loop of WakeupAll has a queue and a caller.
QueuesSound alone is not inductive: the end of WakeupAll empties `walk.queue`,
and dispatchAny pops the queue of the best bit, which has a head only because
the mask agrees with the queues *before* the pop.  `Thread_proofs` shows, in
this order, that every list operation keeps `EndsAgree` and what it returns, that
every operator of the scheduler maps a `KernelOK` record to a `KernelOK` record
without panic, and that every action is such an operator.  The last
step is temporal (`PTL`).

**ThreadClient.**  For a clean client the links do spell sequences, and everything
follows from which.  `CleanKernel(k, R, W)` says that the pointers of each run
queue and wait queue go through the sequence `R[p]` or `W[q]`, which names no thread
twice, and end there (`Chained`); that exactly the threads that wait on q are in
`W[q]` (where WakeupAll empties q, from its cursor on); and that exactly the Running
threads without the processor are in `R`, each at its priority.  The exception is
the idle loop: its thread, once woken, is on its run queue by the waker, and
dispatchAny enqueues it again (`Thread.cpp:351`).  That it is the *last* of its queue
then (`CurrentOK`) is what makes the second enqueue a write of the same links (lemma
`EnqueueRunAgain`), and keeping it the last is what `IdleSafe` is for: the proof
needs `IdleSafe` in just this place (`MayRun`), and for WakeupAll of the whole
chain that is to be woken (`Harmless`).  A lemma per routine then says what it does
to `R` and `W`, and that is what Scheduler does (`Passed` is its `Pass`).

`CleanInv` adds what the calls owe each other.  `JoinsOK`: a thread in Join sleeps
on the queue of a thread that is constructed, or has been woken and that thread is
Exited; and nobody else sleeps on the queue of a thread, so that a thread nobody joins
has an empty queue when it is destroyed.  `StacksOK`: the stack of each thread that
is not destroyed is there, the stray stack is a destroyed thread's, and a processor
that idles for a thread that has deleted itself stands on the stray stack or on one
that is not ours.  That every chain is read as the sequence it spells (`ChainIs`)
needs finitely many threads, as `ChainFrom` counts them.

**Mutex.**  ExclusiveUnlessBarged is far from inductive: a step of `LockWoken`
takes the mutex without a test, so one must know that the count is zero then.
`Exclusive` says why, as long as nobody barged: the count is the depth of the
one holder, who is the owner, and at most one waiter is woken, and only at count
zero.  That in turn needs `PlacesOK`: a thread asleep in Lock is on the wait
queue or was woken, in one place (`Apart`, shown for every routine of the
processor in `Coop_proofs`), and the running thread is not in Lock.

CountMatchesHolders needs none of that.  The locks that are held are the pairs
of a thread and a number up to its depth, and the invariant `CountInv` says that
they are finitely many and that the count is their number: every call that takes
the mutex adds one pair, however it came to take it.

**Ipc.**  `MailboxGuarded` is inductive with the types alone: a send happens
only where the flag is clear (`Issue`) or has just been cleared by the
acknowledgement, which IOS raises only after it took the request (`HandleAck`).
NeverOverwritten follows, since both of these find X1 clear.

RequestsAccounted speaks of each place that a request can be in.  `CountInv` turns
this round: for each thread the number of places that hold its request (send
queue, mailbox, IOS, reply registers, reply queue) is one while the thread is
between the issue and the end of its call, and zero otherwise.  Every handler moves a
request from one place to the next, which keeps the number.  The send queue has
one slot, and Y1 is never raised while X2 is, or IOS would write over a reply.

**FatLock.**  OneInside is not inductive: a task that gives the system mutex
back must be the one that has it, and `unlock_volume` only asks whether
`SysLock` is 2 and `SysLockVolume` its volume.  `LockInv` says what each mutex
and each place of a call mean for the other: a task that is inside owns its
volume's mutex, one with a path also the system mutex from `TakeSystem` to
`GiveSystem`, every mutex that is taken belongs to such a task, and `SysLock` is
2 exactly between the mark and its removal, with `SysLockVolume` naming the
owner's volume.  From this the test of `unlock_volume` is right for every caller
(lemma `MarkTells`): a call on a file of the same volume cannot be in
`unlock_volume` while the owner of the mark is, because both need the volume.

CheckStillHolds joins the answer of `chk_share` with what every other task may do to
the table until `inc_share`.  `CheckInv` gives, beside the types, what the FIL of
a task is at each place of a call.  The proof follows `inc_share`, `dec_share`,
`clear_share` and the end of a mount: the first happens only with the system
mutex, which the one who checked has, and the others add no user to an entry.
EntriesMatch needs `ShareInv`: until a FIL is used across a mount (`stale`,
finding 5) each entry counts its users, and one that is free has none.  It also
needs fewer tasks than `Writing`: the counter of an entry tells a writer from readers
by its value 0x100 (`FatFs.cpp:294`), and `inc_share` counts readers up to that
value (`FatFs.cpp:1013`), so that the 256th reader of a file makes it a writer's
and the first reader to close it frees the entry (`FatFs.cpp:1029`).

**VideoConsole.**  With the word, the turns and the places alone nothing is
inductive: a processor that read the word free may write it much later.
`LockInv` therefore relates how many turns the PowerPC can have behind it to how
long IOS has been between its read and its write (`lag`): after n steps of the
PowerPC since that read it has at most n/2 turns, and `Skew` keeps n below what
16 turns need.  In the other direction the PowerPC lets at most one step of IOS
pass between two of its own, so that it sees the bit before IOS has its second
turn behind it.  An interrupt or a stall of the PowerPC within a turn is outside
of the assumption, as two processors at the same pace are.

RowsOwned follows from `RowsApart`: a processor has printed on no row below its
own, its own row shows nothing of the other, and the two rows differ as soon as
anything can be printed.  It holds also where the lock does not, because each
instance reads the row of the other when it leaves its own, in one step.

**Registers.**  The refinement needs `HandlerOK`: floating point is off in a handler,
what a thread that lost the processor there may find in its floating-point
registers counts as lost, and so does XER in a panic.  Each register is then
followed through each routine: that the value where `Held` finds it after the step is
the value where it was before, for every thread that keeps it.

**IosRequest.**  The refinement says that a call acts on memory as if there were
one, so the invariant (`ReqInv`) says where the one memory is at each moment.
`MemOK`: a line that is clean in the cache has in RAM what the cache has, except
for what IOS has written and the reply has not yet taken out of the cache
(`Behind`), and no line that a call uses is dirty from its issue to its answer.
`BlockOK` and `VectorsOK`: RAM has the block and the vectors from the moment the call
is posted until the reply, with physical addresses.  `InputsOK`: until IOS takes
them, RAM has the inputs that were given, which is why every `IOS_*Async` flushes.
`AnswerOK`: after the answer RAM has what IOS wrote, and after `handleReply` the
processor sees it, with the pointers of the vectors turned back.  `MemOK` is where the
duties of the caller (`Allowed`, `AllFixed`) are needed: a line that is dirty when
`IOS_ReadAsync` is called is written over the answer when it is evicted, as that
call flushes nothing.  `Store`, `Fetch` and `Evict` are shown to keep the memory
that the caller sees (`CacheStep`), since each happens between any two steps of a
call.

**Card.**  `TransferOK`: a Select and a transfer are alone at IOS, and the card is
selected while a transfer is waited for, or when Select was answered with OK.
`DeselectOK`: outside of a transfer, the last request of `m_request`, and the last of
all that select or deselect, is Deselect, whether still in the line or answered, so
that a selected card means that this one failed.  `UnsyncedOK`: a request in the line
has not synced, so that Sync waits for it.  None holds without the others.

**Machine.**  A behaviour moves one part and leaves the variables of the others, so
that it satisfies the specification of each (`PartsApart`), and the theorems on the
parts apply.

**Waiting.**  *MessageQueue*: `Contents` reads the ring from `m_first` on, and the
refinement is a matter of index arithmetic modulo the size.  `JamsFit` is needed:
m_first - 1 wraps as a u32 before it is taken modulo the size
(`MessageQueue.hpp:67`, `87`), so that a jam at slot 0 finds the slot before it only
where the size divides 2^32.  NoneStranded needs that whoever sleeps sleeps for
a reason or somebody who was woken has yet to look (`RoomAttended`,
`StockAttended`).  This holds in the three ways of using a queue that `OneWay`
admits: only senders sleep, at a queue of at most two slots; only receivers do, at
one of at most two; or there are two threads.  It is as far as the code goes: with
three senders asleep at three slots, a receiver that takes all three before
anybody runs wakes a sender once, at max - 1 (`MessageQueue.hpp:108`).  The uses of the run are among them, and
those of the library are.  *Cond*: `Wait` unlocks a mutex that the
caller holds and locks it again, and the queues do not matter for the count.
*Once*: the state says how many threads are in the initialiser.  *SysConf*: `ConfInv`
says of each caller what it is owed at its place (`RightFor`), and of the object
that it is being built, with nobody inside, or built with `m_state` telling what
the request brought (`StateMeans`); that `m_mutex` is never found taken follows, as
nobody gives up the processor with it.  The lookup is a lemma of its own
(`FindsKey`): with a hint or by search, what is found has the key, and what has the
key is found.

What the theorems on `Waiting` say of the four parts is of any sets of threads,
sizes, uses and files.

The assumptions are those named in the modules (`SchedAssumption`,
`ThreadAssumption`, `MutexAssumption`, `MessageQueueAssumption`, `IpcAssumption`,
`FatLockAssumption`, `ConsoleAssumption`, `RegistersAssumption`, `MachineAssumption`):
calls are of the shapes that the constructors of `ios/Request.hpp` make, with
buffers among the caller's lines (`CallsAssumption`), null is no object,
priorities start at zero, queues exist, and twice the size of a ring does not wrap.
`ClientAssumption` is that there are finitely many threads.
`WaitingAssumption` is about the files of SysConf (`FileAssumption`): a key that is
asked for is in one place of a file, and not at byte 0.  Where a key is there twice
and the first copy is of no use, the code refuses the call although the second would
answer it.  `SkewAssumption` is about the hardware.

Only model-checked:

* all liveness, which is out of the prover's reach: `ReadyRuns`, `JoinReturns`,
  `LockReturns`, `WaitersReturn`, `GetsReturn`, `CallsReturn`, `PrintEnds`;
* the Fat modules (`NoCrossLink`, `AllocationExact`, `Kept`, `ReadsBack`,
  `ImplementsFileStore`), which follow chains with `RECURSIVE` operators, which the
  prover does not take, and whatever they show is induction along chains;
* LongNames (`ImplementsNameTable`), for the same reason.

## 6. Findings

These are in `PROJECT.json` with the line that each contradicts.  The property
named holds because it excepts what the finding describes, or because the client
or the timing is assumed not to meet it.

1. A thread woken while it idles is enqueued twice (`Thread.cpp:351`), and a
   peer woken in between is lost: `NoThreadLost` needs the client's `IdleSafe`.
2. `Mutex::Lock` does not look again after its sleep (`Mutex.cpp:27`): two
   threads hold it.  `ExclusiveUnlessBarged` excepts it (`barged`).
3. `Cond::Wait` never sleeps (`Cond.hpp:28`): the model of Wait has no step that
   does, and `CountMatchesHolders` shows what the mutex survives.
4. `ipcAsync` trusts `s_waiting_ack` across a sleep (`Ipc.cpp:169`): a request
   may wait with nothing outstanding.  `CallsReturn` excepts it.
5. `validate` tests the mount id before it waits for the volume
   (`FatFs.cpp:3708`).  `EntriesMatch` excepts it (`stale`).
6. The console's lock holds by timing alone (`VideoConsole.cpp:140`):
   `OneInside` needs `SkewAssumption`.
7. The settings object can be constructed over itself, because its constructor
   sleeps and nothing guards the static (`SysConf.cpp:20`).  `GetRight` and
   `GetsReturn` except it (`rebuilt`).
8. A caller that asks for a setting while another waits for the file is refused
   (`SysConf.cpp:47`).  `GetRight` excepts it (`early`).
9. `FastSwitch` compares all of HID2 (`Context.cpp:148`): while another bit than
   LSQE and PSE is set, paired singles are not saved.  `ImplementsOwnRegisters`
   excepts them (`Missed`).
10. XER is stored at 0x090, which is the place of f0, and printed from 0x08C
   (`Exceptions.cpp:84`, `LoMem.hpp:29`).  `ImplementsOwnRegisters` excepts XER of
   a thread in a panic (`Panic`), and f0 as item 13 does.
11. `gen_numname` looks for whole characters in a short name whose first byte
   `create_name` has replaced (`FatFs.cpp:2056`, `3015`), and cuts the character
   behind it in two.  `ImplementsNameTable` excepts these names
   (`NameTable!Called`).
12. `Device_Init` makes its request for the status before it syncs the reset
   (`ios/sdio/Card.cpp:27`, `32`): when the reset fails it returns, and the destructor of
   the request halts on `Request.hpp:26`.  So do later errors of it (`Card.cpp:68-79`),
   and a second `Device_Init`, as the first leaves `m_request` unsynced.
   The run `card_init` shows the first.

Others are restrictions under which the runs hold:

13. A handler that switches threads saves no floating-point registers, because
   MSR.FP is off in it, so that those of the interrupted thread are gone
   (`HandlerCalls`).  A handler that uses floating point overwrites r0 and r3 of
   the interrupted thread in the context (`Exceptions.cpp:302-305`); handlers of
   the model do not.  A new thread has paired singles off whatever its creator has
   (`Thread.cpp:88-129` does not set `hid2`).
14. `List::Dequeue` of the last object leaves the tail on it (`List.hpp:63`); the
   list of all threads and the wait queues do this.  The clean client wakes the
   head or all of a queue, never a sleeper of its choice; nothing the runs claim
   depends on the tail of the list of all threads.
15. The destructor of a ready thread leaves it on the run queue
   (`Thread.cpp:167`); the clean client destroys no ready thread.
16. A thread that deletes itself leaves its joiners asleep (`Thread.cpp:174`);
   the clean client's threads do so only when nobody joins them.
17. `OnceControl::Once` waits with interrupts disabled (`Once.cpp:21`): an
   initialiser that sleeps for one is never woken while another thread waits.
   It is the second disjunct of `WaitersReturn`, which fails without it.
18. A file that is open for reading 256 times counts as open for writing
    (`FatFs.cpp:1013`); `EntriesAlwaysMatch` assumes fewer tasks.
19. `Jam` and `TryJam` at `m_first` = 0 compute the slot before as (0 - 1) % size
    in 32 bits (`MessageQueue.hpp:67`, `87`), which is the last slot only where the size
    divides 2^32.  The runs and `QueueIsFifo` assume such sizes where messages are
    jammed.
20. A sleeper can be stranded on a message queue that is used in other ways, for
   instance by two receivers on three slots: a take wakes only at a count of
   max - 1 (`MessageQueue.hpp:108`), and a send only at one.
21. A request whose `IOS_*Async` is refused (`Request::Open` with a path that is not
    aligned, `Ipc.cpp:243`) gets no reply, and the constructor does not look
    (`Request.hpp:99-105`): its Sync waits for ever (`Refuse`).
22. `IOS_ReadAsync` does not flush the buffer (`Ipc.cpp:298-316`), so that dirty lines of it may
    overwrite the answer; and `handleReply` does not invalidate an output that
    begins where the input does (`Ipc.cpp:117-131`), so that what is longer than the input stays
    stale.  `Allowed` is that callers do neither.
23. Typed requests of `ios/Interface.hpp`: GetOutput of an Ioctl with a caller's
    pointer goes through the pointer of a Vector that is not on the stack; an
    object that is given by a custom pointer leaves `m_this` unset; `InOutOrdered`
    has its second specialisation for the same order as the first.  The calls of
    `Requests` do none of these (`AcceptsObject`, `AcceptsPointer`).
    `Nand::CreateMultipleFiles` counts the paths as all vectors, so that the sizes
    (`fs/Interface.hpp:218-222`) are not sent (`CreateMultipleFiles`).
24. `Cache::OpRange` (`ppc/Cache.hpp:37`) counts lines from the length alone: a range
    that does not begin at a line may miss its last one.  Buffers of the model are
    lines, as `Ipc.hpp:13` asks.
25. `Device_BlockTransfer` asks for the same first block in each turn of its loop, and
    `SetBlockLength` sends CMD7, which deselects the card, where the length is set
    by CMD16; a transfer that is refused leaves the card selected (`refused`).
26. After an error in reading a partition's boot record `find_volume` goes on
    (`FatFs.cpp:3451-3456`), so that a mount may report FR_NO_FILESYSTEM for it.

## 7. What is not modelled

`PROJECT.json` lists every component.

* Register and memory contents that no property is about: stacks,
  drawing, wire formats, low memory.  A good half of the source is headers of
  register layouts and types (`hw`, `ppc`, `ios/*/Types.hpp`, `ios/LoMem.hpp`),
  font and character tables, and start-up assembly, which have no behaviour to
  model.
* In `fat/FatFs.cpp`: the tables of code pages, the formats of boot sectors
  (of `check_fs` and `mount_volume` the model has the results, and the transfers
  that may fail), time stamps and attributes, names and listings on exFAT, FAT12 and FAT16, and what
  the configuration leaves out of the build (`FF_USE_FIND`, `MKFS`, `LABEL`,
  `EXPAND`, `CHMOD`, `STRFUNC`, `FORWARD`, `FF_FS_RPATH`, `FF_FS_TINY`,
  `FF_USE_FASTSEEK`), which is close to half of the file.  The models are of
  `FF_FS_LOCK` 1, `FF_FS_REENTRANT` 1, `FF_USE_LFN` 3.
* `ios/sdio/Card`: what the blocks hold, their addresses, the temporary buffer and the
  registers of the host controller; the repository describes neither card nor
  controller.
* `ios/Request`, `ios/Resource`: results other than as what IOS answers, `GetOpen` and the
  closing of a descriptor with its object.
* What the file system of IOS does with the requests of `ios/fs`.
* `rt/Arena`, `vi/Video`, the tables of `rt/Exceptions`, `rt/GThread`: step 13 of the plan.
* `SetTabWidth` of the console, and where within a character a processor is.
* `Open` and `Flush` of SysConf, which are declared and not defined.

`Coop` ignores priorities, so the liveness results on it are about threads of
one priority; a waiter of a better priority that spins (in `Once`) starves the
rest, as `Scheduler` makes plain.
