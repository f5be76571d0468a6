--------------------------------- MODULE Coop ---------------------------------
(***************************************************************************)
(* The processor as the synchronisation primitives see it: the scheduler   *)
(* of module Scheduler without its priorities.  Threads keep the processor *)
(* until they sleep or yield, a woken thread runs later, those who sleep   *)
(* on one queue are woken in the order in which they went to sleep, and    *)
(* any ready thread may be the next to run, whatever the priorities are.   *)
(*                                                                         *)
(* p is the record of the processor, and every routine an operator from    *)
(* such a record to the next.                                              *)
(***************************************************************************)
EXTENDS Integers, Sequences

CONSTANTS Null,    \* no thread: the processor idles or is being passed on
          Thread,
          Queue    \* the ThreadQueue objects

Processor ==
  [current : Thread \cup {Null},      \* Thread::GetCurrent()
   ready   : SUBSET Thread,           \* the run queues
   asleep  : [Queue -> Seq(Thread)]]  \* who sleeps, longest first

\* Every thread has been made ready.
ProcessorInit ==
  [current |-> Null, ready |-> Thread, asleep |-> [q \in Queue |-> <<>>]]

\* Sleep on q: the processor passes on.
SleepOn(p, q) ==
  [p EXCEPT !.asleep[q] = Append(@, p.current), !.current = Null]

\* WakeupOne on q: the processor stays where it is.
WakeOne(p, q) ==
  IF p.asleep[q] = <<>>
  THEN p
  ELSE [p EXCEPT !.asleep[q] = Tail(@), !.ready = @ \cup {Head(p.asleep[q])}]

\* Yield: the caller is ready again.
YieldNow(p) == [p EXCEPT !.ready = @ \cup {p.current}, !.current = Null]

Dispatch(p, t) == [p EXCEPT !.ready = @ \ {t}, !.current = t]

\* A ready thread may be dispatched.
MayRun(p, t) == p.current = Null /\ t \in p.ready

\* The idle loop of dispatchAny, where interrupts are enabled.
Idles(p) == p.current = Null /\ p.ready = {}
=============================================================================
