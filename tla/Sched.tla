-------------------------------- MODULE Sched --------------------------------
(***************************************************************************)
(* The scheduler of rt/Thread.cpp and the wait queues of ThreadQueue.hpp.  *)
(*                                                                         *)
(* The kernel's data is one record k, and every routine is an operator     *)
(* from such a record to the one it leaves behind, so that a caller that   *)
(* calls several of them while interrupts are disabled composes them in    *)
(* one step.  The modules that EXTEND this one own the variable.           *)
(*                                                                         *)
(* The processor has one core and threads are never preempted.  k.cpu says *)
(* what it executes:                                                       *)
(*   "run"     the code of k.current;                                      *)
(*   "idle"    the loop of dispatchAny that waits, with interrupts         *)
(*             enabled, for a thread to become ready (on k.current's       *)
(*             stack, k.current being the thread that called it);          *)
(*   "wakeall" the loop of WakeupAll, one iteration per step, interrupts   *)
(*             disabled (k.walk holds its cursor);                         *)
(*   "panic"   a failed assertion;  "fault" a null dereference.            *)
(***************************************************************************)
EXTENDS List, Integers

CONSTANTS Thread,       \* the Thread objects
          WaitQueue,    \* the ThreadQueue objects that are not join queues
          MaxPriority   \* 63 in the code: the lowest priority

ASSUME SchedAssumption ==
  /\ MaxPriority \in Nat
  /\ Null \notin Thread
  /\ Null \notin WaitQueue
  /\ Thread \cap WaitQueue = {}

Priority == 0..MaxPriority

\* m_join_queue of the thread t is the queue named t.
AnyQueue == WaitQueue \cup Thread

\* "None": the object has not been constructed.
State == {"None", "Disabled", "Running", "Suspended", "Waiting", "Exited"}

Pointer == Thread \cup {Null}
ListType == ListOf(Thread)
LinkType == LinkOf(Thread)

NoWalk == [queue |-> Null, thread |-> Null, after |-> "none"]

Kernel ==
  [state     : [Thread -> State],               \* m_state
   priority  : [Thread -> Priority],            \* m_priority
   runQueue  : [Priority -> ListType],          \* s_run_queue
   runLink   : LinkType,                        \* m_run_link
   runMask   : SUBSET Priority,                 \* s_run_queue_mask
   queue     : [AnyQueue -> ListType],             \* the ThreadQueues
   waitLink  : LinkType,                        \* m_wait_link
   waitQueue : [Thread -> AnyQueue \cup {Null}],   \* m_wait_queue
   current   : Pointer,                         \* s_current
   cpu       : {"run", "idle", "wakeall", "panic", "fault"},
   walk      : [queue : AnyQueue \cup {Null}, thread : Pointer,
                after : {"none", "run", "idle", "dispatch"}]]

\* After SystemInit: the main thread runs and nothing else exists.
KernelInit(main, mainPriority) ==
  [state     |-> [t \in Thread |-> IF t = main THEN "Running" ELSE "None"],
   priority  |-> [t \in Thread |-> mainPriority],
   runQueue  |-> [p \in Priority |-> EmptyList],
   runLink   |-> [t \in Thread |-> NullLink],
   runMask   |-> {},
   queue     |-> [q \in AnyQueue |-> EmptyList],
   waitLink  |-> [t \in Thread |-> NullLink],
   waitQueue |-> [t \in Thread |-> Null],
   current   |-> main,
   cpu       |-> "run",
   walk      |-> NoWalk]

Panic(k) == [k EXCEPT !.cpu = "panic"]
Fault(k) == [k EXCEPT !.cpu = "fault"]

\* s_current != nullptr && s_current->m_state == State::Running
CurrentRuns(k) == k.current # Null /\ k.state[k.current] = "Running"

-----------------------------------------------------------------------------
(* The run queue *)

\* Mutant: the mask bit is set only by the first thread of any priority.
EnqueueRunTailNoMask(k, t) ==
  LET p == k.priority[t]
      r == EnqueueTail(k.runQueue[p], k.runLink, t)
  IN  [k EXCEPT !.runQueue[p] = r.list,
                !.runLink = r.link,
                !.runMask = IF @ = {} THEN {p} ELSE @]

\* Mutant: last in, first out.
EnqueueRunHead(k, t) ==
  LET p == k.priority[t]
      r == EnqueueHead(k.runQueue[p], k.runLink, t)
  IN  [k EXCEPT !.runQueue[p] = r.list,
                !.runLink = r.link,
                !.runMask = @ \cup {p}]

EnqueueRunTail(k, t) ==
  LET p == k.priority[t]
      r == EnqueueTail(k.runQueue[p], k.runLink, t)
  IN  [k EXCEPT !.runQueue[p] = r.list,
                !.runLink = r.link,
                !.runMask = @ \cup {p}]

Run(k, t) == EnqueueRunTail([k EXCEPT !.state[t] = "Running"], t)

\* The bit of priority p is 1 << 63 >> p, so the leading one is the least p.
HighestPriority(mask) == CHOOSE p \in mask : \A o \in mask : p <= o

\* Mutant: the mask bit survives the last thread of its priority.
DispatchHeadKeepMask(k, p) ==
  LET r == DequeueHead(k.runQueue[p], k.runLink)
  IN  IF r.thread = Null
      THEN Panic(k)
      ELSE [k EXCEPT !.runQueue[p] = r.list,
                     !.runLink = r.link,
                     !.current = r.thread,
                     !.cpu = "run"]

\* "Dequeue and switch to the next thread", with its assertion.
DispatchHead(k, p) ==
  LET r == DequeueHead(k.runQueue[p], k.runLink)
  IN  IF r.thread = Null
      THEN Panic(k)
      ELSE [k EXCEPT !.runQueue[p] = r.list,
                     !.runLink = r.link,
                     !.runMask = IF IsEmpty(r.list) THEN @ \ {p} ELSE @,
                     !.current = r.thread,
                     !.cpu = "run"]

(***************************************************************************)
(* dispatchAny, from its entry or from the end of its idle loop.  The      *)
(* priority is read before the current thread goes to the tail of its own  *)
(* run queue.  (When the current thread is Running, yield is true, so the  *)
(* early return that compares priorities is never taken.)                  *)
(***************************************************************************)
\* Mutant: a thread that gives up the processor is not put back.
DispatchAnyDropCurrent(k) ==
  IF k.runMask = {}
  THEN [k EXCEPT !.cpu = IF CurrentRuns(k) THEN "run" ELSE "idle"]
  ELSE DispatchHead(k, HighestPriority(k.runMask))

DispatchAny(k) ==
  IF k.runMask = {}
  THEN [k EXCEPT !.cpu = IF CurrentRuns(k) THEN "run" ELSE "idle"]
  ELSE DispatchHead(IF CurrentRuns(k) THEN EnqueueRunTail(k, k.current) ELSE k,
                    HighestPriority(k.runMask))

\* The idle loop ends once a thread is ready; its caller goes on to dispatch.
IdleEnds(k) == k.cpu = "idle" /\ (k.runMask # {} \/ CurrentRuns(k))

-----------------------------------------------------------------------------
(* Sleeping and waking *)

\* Mutant: last in, first out.
QueueEnqueueHead(k, q, t) ==
  LET r == EnqueueHead(k.queue[q], k.waitLink, t)
  IN  [k EXCEPT !.queue[q] = r.list, !.waitLink = r.link]

\* ThreadQueue::Enqueue: the thread joins the queue and nothing else changes.
QueueEnqueue(k, q, t) ==
  LET r == EnqueueTail(k.queue[q], k.waitLink, t)
  IN  [k EXCEPT !.queue[q] = r.list, !.waitLink = r.link]

\* Sleep on q, or on no queue when q is Null.
Sleep(k, q) ==
  LET c == k.current
      w == [k EXCEPT !.state[c] = "Waiting"]
  IN  IF c = Null
      THEN k
      ELSE IF q = Null
      THEN DispatchAny(w)
      ELSE DispatchAny([QueueEnqueue(w, q, c) EXCEPT !.waitQueue[c] = q])

\* A waiting thread that sleeps on no queue has a null m_wait_queue.
Wakeup(k, t) ==
  LET q == k.waitQueue[t]
      r == Dequeue(k.queue[q], k.waitLink, t)
  IN  IF k.state[t] # "Waiting"
      THEN k
      ELSE IF q = Null \/ DequeueFaults(k.queue[q], k.waitLink, t)
      THEN Fault(k)
      ELSE Run([k EXCEPT !.queue[q] = r.list,
                         !.waitLink = r.link,
                         !.waitQueue[t] = Null], t)

WakeupOne(k, q) ==
  IF IsEmpty(k.queue[q]) THEN k ELSE Wakeup(k, k.queue[q].head)

\* The loop of WakeupAll starts; "after" is what its caller does at the end.
WakeupAll(k, q, after) ==
  [k EXCEPT !.cpu = "wakeall",
            !.walk = [queue |-> q, thread |-> k.queue[q].head, after |-> after]]

WakeupAllNext(k) ==
  LET t == k.walk.thread
  IN  Run([k EXCEPT !.waitLink[t] = NullLink,
                    !.walk = [@ EXCEPT !.thread = k.waitLink[t].next],
                    !.waitQueue[t] = Null], t)

WakeupAllEnd(k) ==
  LET leave == k.walk.after = "dispatch"
      done == [k EXCEPT !.queue[k.walk.queue] = EmptyList,
                        !.walk = NoWalk,
                        !.cpu = IF leave THEN "run" ELSE k.walk.after]
  IN  IF leave THEN DispatchAny(done) ELSE done

WakeupAllStep(k) ==
  IF k.walk.thread = Null THEN WakeupAllEnd(k) ELSE WakeupAllNext(k)

\* Yield: defer to another thread.
Yield(k) == IF k.current = Null THEN k ELSE DispatchAny(k)

-----------------------------------------------------------------------------
(* What every operation of the kernel preserves *)

RunQueueEnds(k) == \A p \in Priority : EndsAgree(k.runQueue[p])
WaitQueueEnds(k) == \A q \in AnyQueue : EndsAgree(k.queue[q])

\* A bit of s_run_queue_mask is set exactly when its queue has a head.
MaskMatchesQueues(k) ==
  \A p \in Priority : p \in k.runMask <=> ~IsEmpty(k.runQueue[p])

\* The loop of WakeupAll has a queue to empty and a caller to go back to.
WalkMatchesCpu(k) ==
  k.cpu = "wakeall" => k.walk.queue # Null /\ k.walk.after # "none"

KernelOK(k) ==
  /\ k \in Kernel
  /\ RunQueueEnds(k)
  /\ WaitQueueEnds(k)
  /\ MaskMatchesQueues(k)
  /\ WalkMatchesCpu(k)
=============================================================================
