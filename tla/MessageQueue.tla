----------------------------- MODULE MessageQueue -----------------------------
(***************************************************************************)
(* rt/MessageQueue.hpp: a ring of messages that threads and interrupt      *)
(* handlers fill and empty.  Senders and receivers sleep on one queue.     *)
(*                                                                         *)
(* A call runs with interrupts disabled up to its end or to the point      *)
(* where it sleeps; the Try calls first look at the count with interrupts  *)
(* enabled.                                                                *)
(***************************************************************************)
EXTENDS Coop

CONSTANTS Message,
          WordSize,    \* 2^32 in the code: m_first is a u32.  No memory holds
                       \* 2^31 messages, so that m_first + m_count never wraps
          Uses         \* how a client may use a queue: its size (m_max_count),
                       \* the calls of each thread and those of handlers

ASSUME MessageQueueAssumption ==
  /\ WordSize \in Nat
  /\ \A u \in Uses : u.size \in Nat \ {0} /\ 2 * u.size <= WordSize
  /\ Null \notin Thread
  /\ Queue # {}

VARIABLES use,     \* one of Uses
          proc,    \* the processor (see Coop)
          ring,    \* m_messages
          first,   \* m_first
          count,   \* m_count
          pc,      \* the call each thread is in, "idle" between calls
          arg      \* the message it sends

vars == <<use, proc, ring, first, count, pc, arg>>

\* m_wait_queue
waiters == CHOOSE q \in Queue : TRUE

\* m_max_count
Size == use.size

\* "try...": the call has looked at the count and not yet disabled interrupts.
Blocking == {"Send", "Jam", "Receive", "Peek"}
Trying == {"TrySend", "TryJam", "TryReceive", "TryPeek"}

Init ==
  /\ use \in Uses
  /\ proc = ProcessorInit
  /\ ring \in [0..Size - 1 -> Message]
  /\ first = 0
  /\ count = 0
  /\ pc = [t \in Thread |-> "idle"]
  /\ arg \in [Thread -> Message]

IsEmpty == count = 0
IsFull == count >= Size

-----------------------------------------------------------------------------
(* The bodies, from the processor p to proc' *)

\* Mutant: the slot after the one that is free.
PutLastOffByOne(p, m) ==
  /\ ring' = [ring EXCEPT ![(first + count + 1) % Size] = m]
  /\ count' = count + 1
  /\ proc' = IF count' = 1 THEN WakeOne(p, waiters) ELSE p
  /\ UNCHANGED first

PutLast(p, m) ==
  /\ ring' = [ring EXCEPT ![(first + count) % Size] = m]
  /\ count' = count + 1
  /\ proc' = IF count' = 1 THEN WakeOne(p, waiters) ELSE p
  /\ UNCHANGED first

\* Where a message goes that is to be received next: u32 arithmetic.
Before == ((first - 1) % WordSize) % Size

\* TryJam counts the message, Jam does not.
PutFirst(p, m, counted) ==
  /\ first' = Before
  /\ ring' = [ring EXCEPT ![Before] = m]
  /\ count' = IF counted THEN count + 1 ELSE count
  /\ proc' = IF count' = 1 THEN WakeOne(p, waiters) ELSE p

\* Mutant: nobody is woken.
TakeFirstNoWake(p) ==
  /\ first' = (first + 1) % Size
  /\ count' = count - 1
  /\ proc' = p
  /\ UNCHANGED ring

TakeFirst(p) ==
  /\ first' = (first + 1) % Size
  /\ count' = count - 1
  /\ proc' = IF count' = Size - 1 THEN WakeOne(p, waiters) ELSE p
  /\ UNCHANGED ring

Unchanged(p) == proc' = p /\ UNCHANGED <<ring, first, count>>

\* What a call does to the queue once interrupts are disabled.
Body(p, op, m) ==
  \/ op \in {"Send", "TrySend"} /\ ~IsFull /\ PutLast(p, m)
  \/ op = "Jam" /\ ~IsFull /\ PutFirst(p, m, FALSE)
  \/ op = "TryJam" /\ ~IsFull /\ PutFirst(p, m, TRUE)
  \/ op \in {"Receive", "TryReceive"} /\ ~IsEmpty /\ TakeFirst(p)
  \/ op \in {"Peek", "TryPeek"} /\ ~IsEmpty /\ Unchanged(p)

Blocked(op) == IF op \in {"Send", "TrySend", "Jam", "TryJam"}
               THEN IsFull ELSE IsEmpty

-----------------------------------------------------------------------------
(* Threads *)

Run(t) ==
  /\ MayRun(proc, t)
  /\ pc[t] \notin Blocking
  /\ proc' = Dispatch(proc, t)
  /\ UNCHANGED <<ring, first, count, pc, arg>>

\* A thread that comes back from its sleep looks at the queue again.  A Peek
\* first passes the wakeup on ("Prioritize receive over peek").
Woken(t) ==
  LET d == Dispatch(proc, t)
  IN  IF pc[t] = "Peek" THEN WakeOne(d, waiters) ELSE d

Again(t) ==
  /\ MayRun(proc, t)
  /\ pc[t] \in Blocking
  /\ \/ /\ Blocked(pc[t])
        /\ proc' = SleepOn(Woken(t), waiters)
        /\ UNCHANGED <<ring, first, count, pc>>
     \/ /\ Body(Woken(t), pc[t], arg[t])
        /\ pc' = [pc EXCEPT ![t] = "idle"]
  /\ UNCHANGED arg

\* A blocking call goes through at once or sleeps.
Call(t, op, m) ==
  /\ proc.current = t
  /\ pc[t] = "idle"
  /\ op \in Blocking
  /\ arg' = [arg EXCEPT ![t] = m]
  /\ \/ /\ Blocked(op)
        /\ pc' = [pc EXCEPT ![t] = op]
        /\ proc' = SleepOn(proc, waiters)
        /\ UNCHANGED <<ring, first, count>>
     \/ Body(proc, op, m) /\ UNCHANGED pc

\* The first look of a Try call; a call that is refused changes nothing.
TryLook(t, op, m) ==
  /\ proc.current = t
  /\ pc[t] = "idle"
  /\ op \in Trying
  /\ ~Blocked(op)
  /\ pc' = [pc EXCEPT ![t] = op]
  /\ arg' = [arg EXCEPT ![t] = m]
  /\ UNCHANGED <<proc, ring, first, count>>

\* "Check again for atomicity"
TryDo(t) ==
  /\ proc.current = t
  /\ pc[t] \in Trying
  /\ \/ Blocked(pc[t]) /\ Unchanged(proc)
     \/ Body(proc, pc[t], arg[t])
  /\ pc' = [pc EXCEPT ![t] = "idle"]
  /\ UNCHANGED arg

\* A thread gives up the processor between two calls.
Yield(t) ==
  /\ proc.current = t
  /\ pc[t] = "idle"
  /\ proc' = YieldNow(proc)
  /\ UNCHANGED <<ring, first, count, pc, arg>>

(***************************************************************************)
(* A handler interrupts the idle loop or a thread that has interrupts      *)
(* enabled, between two calls or before a Try call disables them.  It      *)
(* makes calls that cannot sleep (handleAck and handleReply of             *)
(* ios/low/Ipc.cpp): a Send to a queue with room, and Try calls.           *)
(***************************************************************************)
Interrupt(op, m) ==
  /\ Idles(proc) \/ proc.current # Null
  /\ Body(proc, op, m)
  /\ UNCHANGED <<pc, arg>>

ThreadStep(t) ==
  \/ Run(t)
  \/ Again(t)
  \/ \E op \in use.ops[t], m \in Message : Call(t, op, m) \/ TryLook(t, op, m)
  \/ TryDo(t)
  \/ Yield(t)

Next ==
  /\ \/ \E t \in Thread : ThreadStep(t)
     \/ \E op \in use.handlerOps, m \in Message : Interrupt(op, m)
  /\ UNCHANGED use

Spec == Init /\ [][Next]_vars

-----------------------------------------------------------------------------
(***************************************************************************)
(* Nobody is left asleep who could go on: when a sleeper is no longer      *)
(* blocked, somebody who was woken has yet to look at the queue, and what  *)
(* it then does wakes the next one (the wakeups at a count of 1 and of     *)
(* m_max_count - 1 only, MessageQueue.hpp:35, 54, 108, 130).               *)
(***************************************************************************)
NoneStranded ==
  (\E i \in 1..Len(proc.asleep[waiters]) :
     ~Blocked(pc[proc.asleep[waiters][i]]))
  => \E t \in proc.ready : pc[t] \in Blocking

\* What the ring holds, next message first.
Contents == [i \in 1..count |-> ring[(first + i - 1) % Size]]

(***************************************************************************)
(* The ring is a bounded first-in first-out queue: every call, of a thread *)
(* or a handler, is one of the changes that BoundedQueue allows.           *)
(***************************************************************************)
Fifo == INSTANCE BoundedQueue WITH queue <- Contents, size <- Size

ImplementsQueue == Fifo!Spec
=============================================================================
