----------------------------- MODULE Thread_proofs -----------------------------
(***************************************************************************)
(* Whatever calls the threads and the interrupt handlers make, the mask,   *)
(* the run queues and the wait queues stay consistent, and the assertion   *)
(* of dispatchAny holds; and a clean client gets the abstract scheduler.   *)
(* In parts: what the operators of List return, that every routine of      *)
(* Sched keeps the kernel sound from any sound state, the calls of Thread, *)
(* what the pointers of a list spell, what the routines of Sched do to the *)
(* sequences of a clean client, and the steps of ThreadClient.             *)
(***************************************************************************)
EXTENDS ThreadClient, FiniteSetTheorems, SequenceTheorems, WellFoundedInduction,
        TLAPS

-----------------------------------------------------------------------------
(***************************************************************************)
(* Lists.  Whatever the links hold, the ends of a list are null together,  *)
(* and every pointer is an object's or null.                               *)
(***************************************************************************)

\* Writing one field of one link, or both, keeps the links well formed.
LEMMA SetNext ==
  ASSUME NEW S, NEW link \in LinkOf(S), NEW t \in S, NEW u \in S \cup {Null}
  PROVE  [link EXCEPT ![t].next = u] \in LinkOf(S)
BY DEF LinkOf

LEMMA SetPrev ==
  ASSUME NEW S, NEW link \in LinkOf(S), NEW t \in S, NEW u \in S \cup {Null}
  PROVE  [link EXCEPT ![t].prev = u] \in LinkOf(S)
BY DEF LinkOf

\* EnqueueTail (List.hpp:36-47) leaves a list that is not empty.
LEMMA EnqueueTailOK ==
  ASSUME NEW S, Null \notin S, NEW l \in ListOf(S), EndsAgree(l),
         NEW link \in LinkOf(S), NEW t \in S
  PROVE  LET r == EnqueueTail(l, link, t)
         IN  /\ r.list \in ListOf(S)
             /\ EndsAgree(r.list)
             /\ ~IsEmpty(r.list)
             /\ r.link \in LinkOf(S)
<1>1. CASE l.head = Null
  BY <1>1 DEF EnqueueTail, IsEmpty, ListOf, LinkOf, EndsAgree, NullLink
<1>2. CASE l.head # Null
  <2> DEFINE a == [link EXCEPT ![l.tail].next = t]
             b == [a EXCEPT ![t].prev = l.tail]
             c == [b EXCEPT ![t].next = Null]
  <2>1. l.tail \in S
    BY <1>2 DEF ListOf, EndsAgree
  <2>2. a \in LinkOf(S)
    BY <2>1, SetNext
  <2> HIDE DEF a
  <2>3. b \in LinkOf(S)
    BY <2>1, <2>2, SetPrev
  <2> HIDE DEF b
  <2>4. c \in LinkOf(S)
    BY <2>3, SetNext
  <2>5. EnqueueTail(l, link, t).link = c
    BY <1>2 DEF EnqueueTail, IsEmpty, a, b
  <2>6. EnqueueTail(l, link, t).list = [head |-> l.head, tail |-> t]
    BY <1>2 DEF EnqueueTail, IsEmpty, ListOf
  <2>7. QED
    BY <1>2, <2>1, <2>4, <2>5, <2>6 DEF IsEmpty, ListOf, EndsAgree
<1>3. QED
  BY <1>1, <1>2

\* The head of a list that is not empty leaves it (List.hpp:52-57, 74-81).
LEMMA RemoveHeadOK ==
  ASSUME NEW S, Null \notin S, NEW l \in ListOf(S), EndsAgree(l), ~IsEmpty(l),
         NEW link \in LinkOf(S)
  PROVE  LET r == RemoveHead(l, link)
         IN  /\ r.list \in ListOf(S)
             /\ EndsAgree(r.list)
             /\ r.link \in LinkOf(S)
<1> USE DEF RemoveHead, IsEmpty, ListOf, LinkOf, EndsAgree, EmptyList
<1>1. l.head \in S /\ l.tail \in S
  OBVIOUS
<1>2. CASE link[l.head].next = Null
  BY <1>1, <1>2
<1>3. CASE link[l.head].next # Null
  <2>1. link[l.head].next \in S
    BY <1>1, <1>3
  <2>2. QED
    BY <1>1, <1>3, <2>1
<1>4. QED
  BY <1>2, <1>3

\* DequeueHead (List.hpp:69-84) returns the head, and nullptr when empty.
LEMMA DequeueHeadOK ==
  ASSUME NEW S, Null \notin S, NEW l \in ListOf(S), EndsAgree(l),
         NEW link \in LinkOf(S)
  PROVE  LET r == DequeueHead(l, link)
         IN  /\ r.thread = l.head
             /\ r.list \in ListOf(S)
             /\ EndsAgree(r.list)
             /\ r.link \in LinkOf(S)
<1>1. CASE IsEmpty(l)
  BY <1>1 DEF DequeueHead, IsEmpty
<1>2. CASE ~IsEmpty(l)
  BY <1>2, RemoveHeadOK DEF DequeueHead
<1>3. QED
  BY <1>1, <1>2

\* Dequeue (List.hpp:50-66), of any object and with any links.
LEMMA DequeueOK ==
  ASSUME NEW S, Null \notin S, NEW l \in ListOf(S), EndsAgree(l),
         NEW link \in LinkOf(S), NEW t \in S
  PROVE  LET r == Dequeue(l, link, t)
         IN  /\ r.list \in ListOf(S)
             /\ EndsAgree(r.list)
             /\ r.link \in LinkOf(S)
<1>1. CASE l.head = t
  BY <1>1, RemoveHeadOK DEF Dequeue, IsEmpty
<1>2. CASE l.head # t /\ link[t].prev = Null
  BY <1>2 DEF Dequeue
<1>3. CASE l.head # t /\ link[t].prev # Null
  <2>1. link[t].prev \in S /\ link[t].next \in S \cup {Null}
    BY <1>3 DEF LinkOf
  <2>2. QED
    BY <1>3, <2>1 DEF Dequeue, ListOf, LinkOf
<1>4. QED
  BY <1>1, <1>2, <1>3

-----------------------------------------------------------------------------
(***************************************************************************)
(* The scheduler.  Every routine keeps the kernel sound (KernelOK), and    *)
(* dispatchAny never finds its run queue empty.                            *)
(***************************************************************************)

\* A routine that starts the loop of WakeupAll, or that is called from it,
\* leaves s.cpu to its caller.
SameCpu(s, r) == r.cpu = s.cpu /\ r.walk = s.walk /\ r.current = s.current

-----------------------------------------------------------------------------
\* A set of numbers that is not empty has a least member.
LEMMA LeastOf ==
  ASSUME NEW T \in SUBSET Nat, T # {}
  PROVE  \E i \in T : \A j \in T : i <= j
<1> DEFINE Lt == {p \in Nat \X Nat : p[1] < p[2]}
<1>1. PICK i \in T : \A j \in T : <<j, i>> \notin OpToRel(<, Nat)
  BY NatLessThanWellFounded, WFMin
<1>2. Lt = OpToRel(<, Nat)
  BY Zenon DEF OpToRel
<1>3. ASSUME NEW j \in T PROVE i <= j
  <2>1. <<j, i>> \notin Lt
    BY <1>1, <1>2
  <2>2. QED BY <2>1
<1>4. QED BY <1>3

\* The priority that CountLeadingZero finds is the first whose bit is set
\* (Thread.cpp:341-342).
LEMMA HighestPriorityOK ==
  ASSUME NEW mask \in SUBSET Priority, mask # {}
  PROVE  /\ HighestPriority(mask) \in mask
         /\ \A o \in mask : HighestPriority(mask) <= o
<1>1. mask \in SUBSET Nat
  BY SchedAssumption DEF Priority
<1>2. QED BY <1>1, LeastOf DEF HighestPriority

-----------------------------------------------------------------------------
\* The run queues after an enqueue or a dispatch at one priority.
LEMMA RunQueuesOK ==
  ASSUME NEW s, KernelOK(s), NEW p \in Priority,
         NEW l \in ListType, EndsAgree(l),
         NEW n \in LinkType, NEW m \in SUBSET Priority,
         \A o \in Priority : o # p => (o \in m <=> o \in s.runMask),
         p \in m <=> ~IsEmpty(l)
  PROVE  LET r == [s EXCEPT !.runQueue[p] = l, !.runLink = n, !.runMask = m]
         IN  KernelOK(r) /\ SameCpu(s, r)
<1> DEFINE r == [s EXCEPT !.runQueue[p] = l, !.runLink = n, !.runMask = m]
<1> s \in Kernel
  BY DEF KernelOK
<1>1. r \in Kernel
  BY DEF Kernel
<1>2. r.runQueue = [s.runQueue EXCEPT ![p] = l] /\ r.runMask = m
  BY DEF Kernel
<1>3. r.queue = s.queue /\ SameCpu(s, r)
  BY DEF Kernel, SameCpu
<1> HIDE DEF r
<1>4. s.runQueue \in [Priority -> ListType]
  BY DEF Kernel
<1>5. RunQueueEnds(r)
  BY <1>2, <1>4 DEF KernelOK, RunQueueEnds
<1>6. MaskMatchesQueues(r)
  BY <1>2, <1>4 DEF KernelOK, MaskMatchesQueues
<1>7. WaitQueueEnds(r) /\ WalkMatchesCpu(r)
  BY <1>3 DEF KernelOK, WaitQueueEnds, WalkMatchesCpu, SameCpu
<1>8. KernelOK(r)
  BY <1>1, <1>5, <1>6, <1>7 DEF KernelOK
<1>9. QED
  BY <1>3, <1>8 DEF r

\* enqueueRunTail (Thread.cpp:303-306).
LEMMA EnqueueRunTailOK ==
  ASSUME NEW s, KernelOK(s), NEW t \in Thread
  PROVE  LET r == EnqueueRunTail(s, t)
         IN  /\ KernelOK(r)
             /\ SameCpu(s, r)
             /\ s.runMask \subseteq r.runMask
<1> DEFINE p == s.priority[t]
           e == EnqueueTail(s.runQueue[p], s.runLink, t)
           l == e.list
           n == e.link
           m == s.runMask \cup {p}
<1>1. p \in Priority /\ s.runQueue[p] \in ListOf(Thread) /\ EndsAgree(s.runQueue[p])
      /\ s.runLink \in LinkOf(Thread) /\ s.runMask \in SUBSET Priority
  BY DEF KernelOK, Kernel, RunQueueEnds, ListType, LinkType
<1>2. l \in ListType /\ EndsAgree(l) /\ ~IsEmpty(l) /\ n \in LinkType
  <2> HIDE DEF p
  <2>1. QED
    BY <1>1, SchedAssumption, EnqueueTailOK DEF ListType, LinkType
<1>3. m \in SUBSET Priority /\ p \in m /\ \A o \in Priority : o # p => (o \in m <=> o \in s.runMask)
  BY <1>1
<1>4. EnqueueRunTail(s, t) = [s EXCEPT !.runQueue[p] = l, !.runLink = n, !.runMask = m]
  BY Zenon DEF EnqueueRunTail
<1>5. EnqueueRunTail(s, t).runMask = m
  BY <1>4 DEF KernelOK, Kernel
<1>6. s.runMask \subseteq m
  OBVIOUS
<1> HIDE DEF p, e, l, n, m
<1> DEFINE r == [s EXCEPT !.runQueue[p] = l, !.runLink = n, !.runMask = m]
<1>7. KernelOK(r) /\ SameCpu(s, r)
  BY <1>1, <1>2, <1>3, RunQueuesOK
<1> HIDE DEF r
<1>8. EnqueueRunTail(s, t) = r
  BY <1>4 DEF r
<1>9. QED
  BY <1>5, <1>6, <1>7, <1>8

\* Writing the state of a thread disturbs nothing else.
LEMMA SetStateOK ==
  ASSUME NEW s, KernelOK(s), NEW t \in Thread, NEW new \in State
  PROVE  LET r == [s EXCEPT !.state[t] = new]
         IN  KernelOK(r) /\ SameCpu(s, r) /\ r.runMask = s.runMask
BY DEF KernelOK, Kernel, SameCpu, RunQueueEnds, WaitQueueEnds,
       MaskMatchesQueues, WalkMatchesCpu

\* run (Thread.cpp:257-262).
LEMMA RunOK ==
  ASSUME NEW s, KernelOK(s), NEW t \in Thread
  PROVE  KernelOK(Run(s, t)) /\ SameCpu(s, Run(s, t))
<1> DEFINE r == [s EXCEPT !.state[t] = "Running"]
<1>1. KernelOK(r) /\ SameCpu(s, r)
  BY SetStateOK DEF State
<1> HIDE DEF r
<1>2. KernelOK(EnqueueRunTail(r, t)) /\ SameCpu(r, EnqueueRunTail(r, t))
  BY <1>1, EnqueueRunTailOK
<1>3. QED
  BY <1>1, <1>2 DEF Run, r, SameCpu

\* Nothing the kernel's invariant speaks of depends on these.
LEMMA SetCpuOK ==
  ASSUME NEW s, KernelOK(s), NEW c \in {"run", "idle", "panic", "fault"}
  PROVE  KernelOK([s EXCEPT !.cpu = c])
BY DEF KernelOK, Kernel, RunQueueEnds, WaitQueueEnds,
       MaskMatchesQueues, WalkMatchesCpu

\* The dispatch of the head of a queue whose bit is set (Thread.cpp:354-361):
\* there is a head, and the assertion holds.
LEMMA DispatchHeadOK ==
  ASSUME NEW s, KernelOK(s), NEW p \in s.runMask
  PROVE  LET r == DispatchHead(s, p)
         IN  KernelOK(r) /\ r.cpu = "run"
<1> DEFINE d == DequeueHead(s.runQueue[p], s.runLink)
           l == d.list
           n == d.link
           m == IF IsEmpty(l) THEN s.runMask \ {p} ELSE s.runMask
           t == d.thread
<1>1. p \in Priority /\ s.runQueue[p] \in ListOf(Thread) /\ EndsAgree(s.runQueue[p])
      /\ s.runLink \in LinkOf(Thread) /\ s.runMask \in SUBSET Priority
  BY DEF KernelOK, Kernel, RunQueueEnds, ListType, LinkType
<1>2. /\ t = s.runQueue[p].head
      /\ l \in ListType /\ EndsAgree(l) /\ n \in LinkType
  BY <1>1, SchedAssumption, DequeueHeadOK DEF ListType, LinkType
<1>3. t \in Thread /\ t # Null
  BY <1>1, <1>2, SchedAssumption DEF KernelOK, MaskMatchesQueues, IsEmpty, ListOf
<1> HIDE DEF d, l, n, t
<1>4. /\ m \in SUBSET Priority
      /\ \A o \in Priority : o # p => (o \in m <=> o \in s.runMask)
      /\ p \in m <=> ~IsEmpty(l)
  BY <1>1
<1>5. DispatchHead(s, p) = [s EXCEPT !.runQueue[p] = l, !.runLink = n,
                                     !.runMask = m, !.current = t, !.cpu = "run"]
  BY <1>3, Zenon DEF DispatchHead, d, l, n, t
<1> HIDE DEF m
<1> DEFINE r == [s EXCEPT !.runQueue[p] = l, !.runLink = n, !.runMask = m]
<1>6. KernelOK(r)
  BY <1>1, <1>2, <1>4, RunQueuesOK
<1>7. DispatchHead(s, p) = [r EXCEPT !.current = t, !.cpu = "run"]
  BY <1>5
<1> HIDE DEF r
<1>8. QED
  BY <1>3, <1>6, <1>7 DEF KernelOK, Kernel, Pointer, RunQueueEnds,
     WaitQueueEnds, MaskMatchesQueues, WalkMatchesCpu

\* dispatchAny (Thread.cpp:316-362): it returns, idles, or dispatches a thread.
LEMMA DispatchAnyOK ==
  ASSUME NEW s, KernelOK(s)
  PROVE  KernelOK(DispatchAny(s)) /\ DispatchAny(s).cpu \in {"run", "idle"}
<1>1. CASE s.runMask = {}
  BY <1>1, SetCpuOK DEF DispatchAny, KernelOK, Kernel
<1>2. CASE s.runMask # {}
  <2> DEFINE p == HighestPriority(s.runMask)
             e == IF CurrentRuns(s) THEN EnqueueRunTail(s, s.current) ELSE s
  <2>1. p \in s.runMask
    BY <1>2, HighestPriorityOK DEF KernelOK, Kernel
  <2>2. KernelOK(e) /\ s.runMask \subseteq e.runMask
    BY EnqueueRunTailOK DEF CurrentRuns, KernelOK, Kernel, Pointer
  <2>3. DispatchAny(s) = DispatchHead(e, p)
    BY <1>2 DEF DispatchAny
  <2> HIDE DEF p, e
  <2>4. QED
    BY <2>1, <2>2, <2>3, DispatchHeadOK
<1>3. QED
  BY <1>1, <1>2

-----------------------------------------------------------------------------
\* A wait queue and the wait links after an enqueue or a dequeue.
LEMMA WaitQueuesOK ==
  ASSUME NEW s, KernelOK(s), NEW q \in AnyQueue,
         NEW l \in ListType, EndsAgree(l), NEW n \in LinkType
  PROVE  LET r == [s EXCEPT !.queue[q] = l, !.waitLink = n]
         IN  KernelOK(r) /\ SameCpu(s, r)
BY DEF KernelOK, Kernel, SameCpu, RunQueueEnds, WaitQueueEnds,
       MaskMatchesQueues, WalkMatchesCpu

\* Writing m_wait_queue disturbs nothing else.
LEMMA SetWaitQueueOK ==
  ASSUME NEW s, KernelOK(s), NEW t \in Thread, NEW q \in AnyQueue \cup {Null}
  PROVE  LET r == [s EXCEPT !.waitQueue[t] = q]
         IN  KernelOK(r) /\ SameCpu(s, r)
BY DEF KernelOK, Kernel, SameCpu, RunQueueEnds, WaitQueueEnds,
       MaskMatchesQueues, WalkMatchesCpu

\* ThreadQueue::Enqueue (ThreadQueue.hpp:19-23).
LEMMA QueueEnqueueOK ==
  ASSUME NEW s, KernelOK(s), NEW q \in AnyQueue, NEW t \in Thread
  PROVE  KernelOK(QueueEnqueue(s, q, t)) /\ SameCpu(s, QueueEnqueue(s, q, t))
<1> DEFINE e == EnqueueTail(s.queue[q], s.waitLink, t)
           l == e.list
           n == e.link
<1>1. /\ s.queue[q] \in ListOf(Thread) /\ EndsAgree(s.queue[q])
      /\ s.waitLink \in LinkOf(Thread)
  BY DEF KernelOK, Kernel, WaitQueueEnds, ListType, LinkType
<1>2. l \in ListType /\ EndsAgree(l) /\ n \in LinkType
  BY <1>1, SchedAssumption, EnqueueTailOK DEF ListType, LinkType
<1>3. QueueEnqueue(s, q, t) = [s EXCEPT !.queue[q] = l, !.waitLink = n]
  BY Zenon DEF QueueEnqueue
<1> HIDE DEF e, l, n
<1> DEFINE r == [s EXCEPT !.queue[q] = l, !.waitLink = n]
<1>4. KernelOK(r) /\ SameCpu(s, r)
  BY <1>2, WaitQueuesOK
<1>5. QueueEnqueue(s, q, t) = r
  BY <1>3
<1> HIDE DEF r
<1>6. QED
  BY <1>4, <1>5

\* Sleep (Thread.cpp:240-255): the caller is queued and another thread runs.
LEMMA SleepOK ==
  ASSUME NEW s, KernelOK(s), s.current \in Thread,
         NEW q \in AnyQueue \cup {Null}
  PROVE  KernelOK(Sleep(s, q)) /\ Sleep(s, q).cpu \in {"run", "idle"}
<1> DEFINE c == s.current
           w == [s EXCEPT !.state[c] = "Waiting"]
           e == QueueEnqueue(w, q, c)
           f == [e EXCEPT !.waitQueue[c] = q]
<1>1. KernelOK(w)
  BY SetStateOK DEF State
<1>2. Sleep(s, q) = DispatchAny(IF q = Null THEN w ELSE f)
  BY SchedAssumption DEF Sleep
<1> HIDE DEF w
<1>3. CASE q = Null
  BY <1>1, <1>2, <1>3, DispatchAnyOK
<1>4. CASE q # Null
  <2>1. KernelOK(e)
    BY <1>1, <1>4, QueueEnqueueOK
  <2> HIDE DEF e
  <2>2. KernelOK(f)
    BY <2>1, SetWaitQueueOK
  <2> HIDE DEF f
  <2>3. QED
    BY <1>2, <1>4, <2>2, DispatchAnyOK
<1>5. QED
  BY <1>3, <1>4

\* Wakeup (Thread.cpp:264-276): no effect, a ready thread, or a null
\* dereference, but never a failed assertion.
LEMMA WakeupOK ==
  ASSUME NEW s, KernelOK(s), NEW t \in Thread
  PROVE  /\ KernelOK(Wakeup(s, t))
         /\ Wakeup(s, t).cpu \in {s.cpu, "fault"}
<1> DEFINE q == s.waitQueue[t]
           d == Dequeue(s.queue[q], s.waitLink, t)
           e == [s EXCEPT !.queue[q] = d.list, !.waitLink = d.link]
           f == [e EXCEPT !.waitQueue[t] = Null]
<1>1. CASE s.state[t] # "Waiting"
  BY <1>1 DEF Wakeup
<1>2. CASE /\ s.state[t] = "Waiting"
           /\ q = Null \/ DequeueFaults(s.queue[q], s.waitLink, t)
  <2> DEFINE g == [s EXCEPT !.cpu = "fault"]
  <2>1. Wakeup(s, t) = g
    BY <1>2 DEF Wakeup, Fault
  <2>2. KernelOK(g)
    BY SetCpuOK
  <2>3. g.cpu = "fault"
    BY DEF KernelOK, Kernel
  <2> HIDE DEF g
  <2>4. QED
    BY <2>1, <2>2, <2>3
<1>3. CASE /\ s.state[t] = "Waiting"
           /\ q # Null /\ ~DequeueFaults(s.queue[q], s.waitLink, t)
  <2>1. q \in AnyQueue
    BY <1>3 DEF KernelOK, Kernel
  <2>2. /\ s.queue[q] \in ListOf(Thread) /\ EndsAgree(s.queue[q])
        /\ s.waitLink \in LinkOf(Thread)
    BY <2>1 DEF KernelOK, Kernel, WaitQueueEnds, ListType, LinkType
  <2>3. d.list \in ListType /\ EndsAgree(d.list) /\ d.link \in LinkType
    <3> HIDE DEF q
    <3>1. QED
      BY <2>2, SchedAssumption, DequeueOK DEF ListType, LinkType
  <2>4. Wakeup(s, t) = Run([s EXCEPT !.queue[q] = d.list,
                                     !.waitLink = d.link,
                                     !.waitQueue[t] = Null], t)
    BY <1>3, Zenon DEF Wakeup
  <2> HIDE DEF d
  <2>5. Wakeup(s, t) = Run(f, t)
    BY <2>4
  <2>6. KernelOK(e) /\ SameCpu(s, e)
    <3> HIDE DEF q
    <3>1. QED
      BY <2>1, <2>3, WaitQueuesOK
  <2> HIDE DEF e
  <2>7. KernelOK(f) /\ SameCpu(e, f)
    BY <2>6, SetWaitQueueOK
  <2> HIDE DEF f
  <2>8. KernelOK(Run(f, t)) /\ SameCpu(f, Run(f, t))
    BY <2>7, RunOK
  <2>9. QED
    BY <2>5, <2>6, <2>7, <2>8 DEF SameCpu
<1>4. QED
  BY <1>1, <1>2, <1>3

\* WakeupOne (ThreadQueue.hpp:26-31).
LEMMA WakeupOneOK ==
  ASSUME NEW s, KernelOK(s), NEW q \in AnyQueue
  PROVE  /\ KernelOK(WakeupOne(s, q))
         /\ WakeupOne(s, q).cpu \in {s.cpu, "fault"}
<1>1. CASE IsEmpty(s.queue[q])
  BY <1>1 DEF WakeupOne
<1>2. CASE ~IsEmpty(s.queue[q])
  <2>1. s.queue[q].head \in Thread
    BY <1>2 DEF KernelOK, Kernel, ListType, ListOf, IsEmpty
  <2>2. QED
    BY <1>2, <2>1, WakeupOK DEF WakeupOne
<1>3. QED
  BY <1>1, <1>2

\* WakeupAll (Thread.cpp:278-290): its start, and each step of its loop.
LEMMA WakeupAllOK ==
  ASSUME NEW s, KernelOK(s), NEW q \in AnyQueue,
         NEW after \in {"run", "idle", "dispatch"}
  PROVE  /\ KernelOK(WakeupAll(s, q, after))
         /\ WakeupAll(s, q, after).cpu = "wakeall"
<1>1. s.queue[q].head \in Pointer /\ q # Null
  BY SchedAssumption DEF KernelOK, Kernel, ListType, ListOf, Pointer, AnyQueue
<1> DEFINE w == [queue |-> q, thread |-> s.queue[q].head, after |-> after]
<1>2. w \in [queue : AnyQueue \cup {Null}, thread : Pointer,
              after : {"none", "run", "idle", "dispatch"}]
  BY <1>1
<1>3. w.queue # Null /\ w.after # "none"
  BY <1>1
<1>4. WakeupAll(s, q, after) = [s EXCEPT !.cpu = "wakeall", !.walk = w]
  BY DEF WakeupAll
<1> HIDE DEF w
<1>5. QED
  BY <1>2, <1>3, <1>4 DEF KernelOK, Kernel, RunQueueEnds, WaitQueueEnds,
     MaskMatchesQueues, WalkMatchesCpu

\* The loop takes a thread from its queue, and leaves the queue empty.
WalkNext(s) ==
  LET t == s.walk.thread
  IN  [s EXCEPT !.waitLink[t] = NullLink,
                !.walk = [@ EXCEPT !.thread = s.waitLink[t].next],
                !.waitQueue[t] = Null]

WalkEnd(s) ==
  [s EXCEPT !.queue[s.walk.queue] = EmptyList,
            !.walk = NoWalk,
            !.cpu = IF s.walk.after = "dispatch" THEN "run" ELSE s.walk.after]

LEMMA WalkNextOK ==
  ASSUME NEW s, KernelOK(s), s.walk.thread # Null
  PROVE  /\ KernelOK(WalkNext(s)) /\ WalkNext(s).cpu = s.cpu
         /\ WakeupAllNext(s) = Run(WalkNext(s), s.walk.thread)
<1> DEFINE t == s.walk.thread
           n == [s.waitLink EXCEPT ![t] = NullLink]
           w == [s.walk EXCEPT !.thread = s.waitLink[t].next]
           e == [s EXCEPT !.waitLink = n, !.walk = w]
           f == [e EXCEPT !.waitQueue[t] = Null]
<1>1. t \in Thread /\ s.waitLink \in LinkType
  BY DEF KernelOK, Kernel, Pointer
<1>2. n \in LinkType /\ s.waitLink[t].next \in Pointer
  BY <1>1 DEF LinkType, LinkOf, NullLink, Pointer
<1>3. w \in [queue : AnyQueue \cup {Null}, thread : Pointer,
              after : {"none", "run", "idle", "dispatch"}]
  BY <1>2 DEF KernelOK, Kernel
<1>4. w.queue = s.walk.queue /\ w.after = s.walk.after
  BY DEF KernelOK, Kernel
<1>5. /\ WalkNext(s) = [s EXCEPT !.waitLink[t] = NullLink,
                                 !.walk = w,
                                 !.waitQueue[t] = Null]
      /\ s \in Kernel
  BY Zenon DEF WalkNext, KernelOK
<1>6. WakeupAllNext(s) = Run(WalkNext(s), t)
  BY Zenon DEF WakeupAllNext, WalkNext
<1> HIDE DEF w, t
<1>7. [s EXCEPT !.waitLink[t] = NullLink, !.walk = w, !.waitQueue[t] = Null] = f
  BY <1>5 DEF Kernel
<1>8. WalkNext(s) = f
  BY <1>5, <1>7, Zenon
<1> HIDE DEF n
<1>9. KernelOK(e) /\ e.cpu = s.cpu
  BY <1>2, <1>3, <1>4 DEF KernelOK, Kernel, RunQueueEnds, WaitQueueEnds,
     MaskMatchesQueues, WalkMatchesCpu
<1> HIDE DEF e
<1>10. KernelOK(f) /\ f.cpu = s.cpu
  BY <1>1, <1>9, SetWaitQueueOK DEF SameCpu
<1> HIDE DEF f
<1>11. QED
  BY <1>6, <1>8, <1>10 DEF t

LEMMA WalkEndOK ==
  ASSUME NEW s, KernelOK(s), s.cpu = "wakeall"
  PROVE  /\ KernelOK(WalkEnd(s)) /\ WalkEnd(s).cpu \in {"run", "idle"}
         /\ WakeupAllEnd(s) = IF s.walk.after = "dispatch"
                              THEN DispatchAny(WalkEnd(s)) ELSE WalkEnd(s)
<1> DEFINE q == s.walk.queue
           a == IF s.walk.after = "dispatch" THEN "run" ELSE s.walk.after
           l == EmptyList
           e == [s EXCEPT !.queue[q] = l]
           f == [s EXCEPT !.queue[q] = l, !.walk = NoWalk, !.cpu = a]
<1>1. q \in AnyQueue /\ a \in {"run", "idle"}
  BY DEF KernelOK, Kernel, WalkMatchesCpu
<1>2. l \in ListType /\ EndsAgree(l)
  BY DEF EmptyList, ListType, ListOf, EndsAgree
<1>3. NoWalk \in [queue : AnyQueue \cup {Null}, thread : Pointer,
                   after : {"none", "run", "idle", "dispatch"}]
  BY DEF NoWalk, Pointer
<1>4. /\ WalkEnd(s) = f
      /\ WakeupAllEnd(s) = IF s.walk.after = "dispatch" THEN DispatchAny(f) ELSE f
  BY Zenon DEF WakeupAllEnd, WalkEnd
<1> HIDE DEF q, a, l
<1>5. KernelOK(e)
  BY <1>1, <1>2 DEF KernelOK, Kernel, RunQueueEnds, WaitQueueEnds,
     MaskMatchesQueues, WalkMatchesCpu
<1>6. f = [e EXCEPT !.walk = NoWalk, !.cpu = a]
  BY DEF KernelOK, Kernel
<1>7. KernelOK(f) /\ f.cpu = a
  <2> HIDE DEF e, f
  <2>1. QED
    BY <1>1, <1>3, <1>5, <1>6 DEF KernelOK, Kernel, RunQueueEnds,
       WaitQueueEnds, MaskMatchesQueues, WalkMatchesCpu
<1> HIDE DEF f
<1>8. QED
  BY <1>1, <1>4, <1>7

LEMMA WakeupAllNextOK ==
  ASSUME NEW s, KernelOK(s), s.walk.thread # Null
  PROVE  /\ KernelOK(WakeupAllNext(s))
         /\ WakeupAllNext(s).cpu = s.cpu
<1>1. s.walk.thread \in Thread
  BY DEF KernelOK, Kernel, Pointer
<1>2. QED
  BY <1>1, WalkNextOK, RunOK DEF SameCpu

LEMMA WakeupAllEndOK ==
  ASSUME NEW s, KernelOK(s), s.cpu = "wakeall"
  PROVE  /\ KernelOK(WakeupAllEnd(s))
         /\ WakeupAllEnd(s).cpu \in {"run", "idle"}
BY WalkEndOK, DispatchAnyOK

\* One step of the loop, of either kind.
LEMMA WakeupAllStepOK ==
  ASSUME NEW s, KernelOK(s), s.cpu = "wakeall"
  PROVE  /\ KernelOK(WakeupAllStep(s))
         /\ WakeupAllStep(s).cpu \in {"run", "idle", "wakeall"}
BY WakeupAllEndOK, WakeupAllNextOK DEF WakeupAllStep

\* The kernel is sound once SystemInit has run (Thread.cpp:49-86).
LEMMA KernelInitOK ==
  ASSUME NEW main \in Thread, NEW p \in Priority
  PROVE  KernelOK(KernelInit(main, p)) /\ KernelInit(main, p).cpu = "run"
<1> DEFINE i == KernelInit(main, p)
<1> USE DEF KernelInit
<1>1. i \in Kernel
  BY DEF Kernel, State, ListType, LinkType, ListOf, LinkOf, EmptyList,
     NullLink, NoWalk, Pointer
<1>2. RunQueueEnds(i) /\ WaitQueueEnds(i) /\ MaskMatchesQueues(i)
  BY DEF RunQueueEnds, WaitQueueEnds, MaskMatchesQueues, EmptyList, EndsAgree,
     IsEmpty
<1>3. QED
  BY <1>1, <1>2 DEF KernelOK, WalkMatchesCpu

-----------------------------------------------------------------------------
(***************************************************************************)
(* The calls.                                                              *)
(***************************************************************************)

(***************************************************************************)
(* The inductive invariant.  TypeOK alone is not inductive: dispatchAny    *)
(* only finds a thread because the mask agrees with the queues, and an     *)
(* enqueue only links to a thread because the ends of the list agree.      *)
(***************************************************************************)
IInv ==
  /\ TypeOK
  /\ KernelOK(k)
  /\ EndsAgree(threadList)
  /\ k.cpu # "panic"

\* The part of IInv that does not speak of the scheduler.
OthersOK ==
  /\ threadList \in ListType
  /\ EndsAgree(threadList)
  /\ threadLink \in LinkType
  /\ joinThread \in [Thread -> Pointer]
  /\ stack \in [Thread -> {"external", "live", "freed"}]
  /\ ownsStack \in [Thread -> BOOLEAN]
  /\ stray \in Pointer
  /\ pc \in [Thread -> PC]

\* IInv is the scheduler's part, the rest, and the stack pointer.
LEMMA Parts ==
  /\ IInv <=> KernelOK(k) /\ k.cpu # "panic" /\ OthersOK /\ sp \in Thread
  /\ IInv' <=> KernelOK(k') /\ k'.cpu # "panic" /\ OthersOK' /\ sp' \in Thread
BY DEF IInv, TypeOK, OthersOK, KernelOK

\* A step that moves the processor leaves it on the stack of a thread.
LEMMA SwitchesOK ==
  ASSUME sp \in Thread, KernelOK(k'), Switches
  PROVE  sp' \in Thread
BY DEF Switches, KernelOK, Kernel, Pointer

\* Freeing the stray stack, and taking a thread off the list of all threads.
LEMMA FreeStrayOK ==
  ASSUME OthersOK
  PROVE  FreeStray \in [Thread -> {"external", "live", "freed"}]
BY DEF OthersOK, FreeStray, Pointer

LEMMA UnlinkOK ==
  ASSUME OthersOK, NEW t \in Thread, Unlink(t)
  PROVE  /\ threadList' \in ListType
         /\ EndsAgree(threadList')
         /\ threadLink' \in LinkType
<1> DEFINE e == Dequeue(threadList, threadLink, t)
           l == e.link
<1>1. e.list \in ListType /\ EndsAgree(e.list) /\ l \in LinkType
  BY SchedAssumption, DequeueOK DEF OthersOK, ListType, LinkType
<1>2. threadList' = e.list /\ threadLink' = [l EXCEPT ![t] = NullLink]
  BY Zenon DEF Unlink
<1> HIDE DEF e, l
<1>3. [l EXCEPT ![t] = NullLink] \in LinkType
  BY <1>1 DEF LinkType, LinkOf, NullLink
<1>4. QED
  BY <1>1, <1>2, <1>3

-----------------------------------------------------------------------------
\* The priority of a new thread is one of the run queues (Thread.cpp:91-93).
LEMMA ClampOK ==
  ASSUME NEW p \in Nat
  PROVE  Clamp(p) \in Priority
BY SchedAssumption DEF Clamp, Priority

\* The constructor.
LEMMA CreateOK ==
  ASSUME IInv, NEW c \in Thread, NEW t \in Thread, Create(c, t)
  PROVE  IInv'
<1> USE Parts
<1> DEFINE p == Clamp(RequestedPriority[t])
           s == [k EXCEPT !.state[t] = "Suspended"]
           made == [k EXCEPT !.state[t] = "Suspended", !.priority[t] = p]
           entry == EnqueueTail(threadList, threadLink, t)
<1>1. p \in Priority
  BY ThreadAssumption, ClampOK
<1>2. k' = IF t \in StartSuspended THEN made ELSE Run(made, t)
  BY Zenon DEF Create
<1> HIDE DEF p
<1>3. KernelOK(s) /\ SameCpu(k, s)
  BY SetStateOK DEF State
<1>4. made = [s EXCEPT !.priority[t] = p]
  BY DEF KernelOK, Kernel
<1>5. KernelOK(made) /\ SameCpu(s, made)
  <2> HIDE DEF s, made
  <2>1. QED
    BY <1>1, <1>3, <1>4 DEF KernelOK, Kernel, SameCpu, RunQueueEnds,
       WaitQueueEnds, MaskMatchesQueues, WalkMatchesCpu
<1> HIDE DEF s, made
<1>6. KernelOK(k') /\ k'.cpu # "panic"
  BY <1>2, <1>3, <1>5, RunOK DEF SameCpu
<1>7. entry.list \in ListType /\ EndsAgree(entry.list) /\ entry.link \in LinkType
  BY SchedAssumption, EnqueueTailOK DEF OthersOK, ListType, LinkType
<1>8. threadList' = entry.list /\ threadLink' = entry.link
  BY Zenon DEF Create
<1> HIDE DEF entry
<1>9. OthersOK' /\ sp' \in Thread
  BY <1>7, <1>8 DEF Create, OthersOK
<1>10. QED
  BY <1>6, <1>9

\* The destructor, called for another thread and for the running one.
LEMMA DestroyOK ==
  ASSUME IInv, NEW c \in Thread, NEW t \in Thread, Destroy(c, t)
  PROVE  IInv'
<1> USE Parts
<1>1. KernelOK(k') /\ k'.cpu # "panic"
  BY SetStateOK DEF Destroy, State, SameCpu
<1>2. OthersOK' /\ sp' \in Thread
  BY UnlinkOK, FreeStrayOK DEF Destroy, OthersOK, Pointer
<1>3. QED
  BY <1>1, <1>2

LEMMA DestroySelfOK ==
  ASSUME IInv, NEW c \in Thread, DestroySelf(c)
  PROVE  IInv'
<1> USE Parts
<1> DEFINE s == [k EXCEPT !.state[c] = "Disabled"]
           d == [s EXCEPT !.current = Null]
<1>1. KernelOK(s)
  BY SetStateOK DEF State
<1>2. k' = DispatchAny(d)
  BY DEF DestroySelf
<1> HIDE DEF s
<1>3. KernelOK(d)
  BY <1>1 DEF KernelOK, Kernel, Pointer, RunQueueEnds, WaitQueueEnds,
     MaskMatchesQueues, WalkMatchesCpu
<1> HIDE DEF d
<1>4. KernelOK(k') /\ k'.cpu # "panic"
  BY <1>2, <1>3, DispatchAnyOK
<1>5. OthersOK'
  BY UnlinkOK, FreeStrayOK DEF DestroySelf, OthersOK, Pointer, PC
<1>6. sp' \in Thread
  BY <1>4, SwitchesOK DEF DestroySelf
<1>7. QED
  BY <1>4, <1>5, <1>6

\* Exit, of the running thread and of another.
LEMMA ExitOK ==
  ASSUME IInv, NEW c \in Thread, NEW t \in Thread, Exit(c, t)
  PROVE  IInv'
<1> USE Parts
<1> DEFINE s == [k EXCEPT !.state[t] = "Exited"]
           after == IF t = c THEN "dispatch" ELSE "run"
<1>1. KernelOK(s)
  BY SetStateOK DEF State
<1>2. k' = WakeupAll(s, t, after)
  BY DEF Exit
<1>3. after \in {"run", "idle", "dispatch"} /\ t \in AnyQueue
  BY DEF AnyQueue
<1> HIDE DEF s, after
<1>4. KernelOK(k') /\ k'.cpu = "wakeall"
  BY <1>1, <1>2, <1>3, WakeupAllOK
<1>5. OthersOK' /\ sp' \in Thread
  BY DEF Exit, OthersOK, PC, listVars, stackVars
<1>6. QED
  BY <1>4, <1>5

\* Join and Sleep.
LEMMA JoinOK ==
  ASSUME IInv, NEW c \in Thread, NEW t \in Thread, Join(c, t)
  PROVE  IInv'
<1> USE Parts
<1>1. KernelOK(k') /\ k'.cpu # "panic"
  BY SleepOK DEF Join, Calls, AnyQueue
<1>2. OthersOK'
  BY DEF Join, OthersOK, Pointer, PC, listVars, stackVars
<1>3. sp' \in Thread
  BY <1>1, SwitchesOK DEF Join
<1>4. QED
  BY <1>1, <1>2, <1>3

LEMMA SleepOnOK ==
  ASSUME IInv, NEW c \in Thread, NEW q \in WaitQueue \cup {Null}, SleepOn(c, q)
  PROVE  IInv'
<1> USE Parts
<1>1. KernelOK(k') /\ k'.cpu # "panic"
  BY SleepOK DEF SleepOn, Calls, AnyQueue
<1>2. OthersOK'
  BY DEF SleepOn, OthersOK, PC, listVars, stackVars
<1>3. sp' \in Thread
  BY <1>1, SwitchesOK DEF SleepOn
<1>4. QED
  BY <1>1, <1>2, <1>3

LEMMA YieldToOK ==
  ASSUME IInv, NEW c \in Thread, YieldTo(c)
  PROVE  IInv'
<1> USE Parts
<1>1. KernelOK(k') /\ k'.cpu # "panic"
  BY DispatchAnyOK DEF YieldTo, Yield
<1>2. OthersOK'
  BY DEF YieldTo, OthersOK, PC, listVars, stackVars
<1>3. sp' \in Thread
  BY <1>1, SwitchesOK DEF YieldTo
<1>4. QED
  BY <1>1, <1>2, <1>3

-----------------------------------------------------------------------------
\* A call that only concerns the scheduler leaves the rest as it is.
LEMMA OthersUnchanged ==
  ASSUME OthersOK,
         UNCHANGED <<threadList, threadLink, joinThread, stack, ownsStack,
                     stray, pc>>
  PROVE  OthersOK'
BY DEF OthersOK

\* The ways of waking a thread, and ThreadQueue::Enqueue.
LEMMA WakesOK ==
  ASSUME IInv,
         \/ \E t \in Thread : WakeThread(t)
         \/ \E q \in WaitQueue : WakeOne(q) \/ WakeAll(q)
         \/ \E c \in Thread, q \in WaitQueue : Enqueue(c, q)
  PROVE  IInv'
<1> USE Parts
<1>1. ASSUME NEW t \in Thread, WakeThread(t) PROVE IInv'
  <2>1. KernelOK(k') /\ k'.cpu # "panic"
    BY <1>1, WakeupOK DEF WakeThread
  <2>2. QED
    BY <1>1, <2>1, OthersUnchanged DEF WakeThread, listVars, stackVars
<1>2. ASSUME NEW q \in WaitQueue, WakeOne(q) PROVE IInv'
  <2>1. KernelOK(k') /\ k'.cpu # "panic"
    BY <1>2, WakeupOneOK DEF WakeOne, AnyQueue
  <2>2. QED
    BY <1>2, <2>1, OthersUnchanged DEF WakeOne, listVars, stackVars
<1>3. ASSUME NEW q \in WaitQueue, WakeAll(q) PROVE IInv'
  <2>1. k.cpu \in {"run", "idle"}
    BY <1>3 DEF WakeAll, Wakes, Calls
  <2>2. KernelOK(k') /\ k'.cpu = "wakeall"
    BY <1>3, <2>1, WakeupAllOK DEF WakeAll, AnyQueue
  <2>3. QED
    BY <1>3, <2>2, OthersUnchanged DEF WakeAll, listVars, stackVars
<1>4. ASSUME NEW c \in Thread, NEW q \in WaitQueue, Enqueue(c, q) PROVE IInv'
  <2>1. KernelOK(k') /\ k'.cpu # "panic"
    BY <1>4, QueueEnqueueOK DEF Enqueue, AnyQueue, SameCpu
  <2>2. QED
    BY <1>4, <2>1, OthersUnchanged DEF Enqueue, listVars, stackVars
<1>5. QED
  BY <1>1, <1>2, <1>3, <1>4

\* The loop of WakeupAll, the end of the idle loop, and the return from a
\* context switch.
LEMMA SystemOK ==
  ASSUME IInv, System
  PROVE  IInv'
<1> USE Parts
<1>1. CASE WakeAllStep
  <2>1. KernelOK(k') /\ k'.cpu # "panic"
    BY <1>1, WakeupAllStepOK DEF WakeAllStep
  <2>2. sp' \in Thread
    BY <1>1, <2>1, SwitchesOK DEF WakeAllStep
  <2>3. QED
    BY <1>1, <2>1, <2>2, OthersUnchanged DEF WakeAllStep, listVars, stackVars
<1>2. CASE IdleEnd
  <2>1. KernelOK(k') /\ k'.cpu # "panic"
    BY <1>2, DispatchAnyOK DEF IdleEnd
  <2>2. sp' \in Thread
    BY <1>2, <2>1, SwitchesOK DEF IdleEnd
  <2>3. QED
    BY <1>2, <2>1, <2>2, OthersUnchanged DEF IdleEnd, listVars, stackVars
<1>3. ASSUME NEW c \in Thread, Resume(c) PROVE IInv'
  <2>1. OthersOK'
    BY <1>3, FreeStrayOK DEF Resume, OthersOK, Pointer, PC, listVars
  <2>2. QED
    BY <1>3, <2>1 DEF Resume
<1>4. QED
  BY <1>1, <1>2, <1>3 DEF System

-----------------------------------------------------------------------------
\* SystemInit establishes the invariant (Thread.cpp:49-86).
LEMMA InitOK == Init => IInv
<1> SUFFICES ASSUME Init PROVE IInv
  OBVIOUS
<1>1. KernelOK(k) /\ k.cpu = "run"
  BY ThreadAssumption, KernelInitOK DEF Init
<1>2. OthersOK /\ sp \in Thread
  BY ThreadAssumption DEF Init, OthersOK, EmptyList, NullLink, ListType,
     LinkType, ListOf, LinkOf, EndsAgree, Pointer, PC
<1>3. QED
  BY <1>1, <1>2, Parts

\* Every step preserves it.
LEMMA NextOK == IInv /\ [Next]_vars => IInv'
<1> SUFFICES ASSUME IInv, [Next]_vars PROVE IInv'
  OBVIOUS
<1>1. CASE UNCHANGED vars
  BY <1>1 DEF IInv, TypeOK, vars
<1>2. CASE Next
  BY <1>2, SystemOK, CreateOK, DestroyOK, ExitOK, JoinOK, DestroySelfOK,
     YieldToOK, SleepOnOK, WakesOK DEF Next
<1>3. QED
  BY <1>1, <1>2

\* The invariant holds in every state of every client.
THEOREM Inductive == FullSpec => []IInv
BY InitOK, NextOK, PTL DEF FullSpec

(***************************************************************************)
(* Every pointer of the scheduler and of the list of all threads is null   *)
(* or a thread, every priority has a run queue, whatever calls are made.   *)
(***************************************************************************)
THEOREM TypeCorrect == FullSpec => []TypeOK
<1>1. IInv => TypeOK
  BY DEF IInv
<1>2. QED
  BY <1>1, Inductive, PTL

(***************************************************************************)
(* s_run_queue_mask always agrees with the run queues and no list of       *)
(* threads has one null end (Thread.cpp:303-362, List.hpp:36-102).         *)
(***************************************************************************)
THEOREM QueuesAlwaysSound == FullSpec => []QueuesSound
<1>1. IInv => QueuesSound
  BY DEF IInv, KernelOK, QueuesSound
<1>2. QED
  BY <1>1, Inductive, PTL

(***************************************************************************)
(* The assertion "Dispatched thread is null" (Thread.cpp:356) never fails, *)
(* for any number of threads, queues and priorities.                       *)
(***************************************************************************)
THEOREM DispatchNeverPanics == FullSpec => []DispatchedNotNull
<1>1. IInv => DispatchedNotNull
  BY DEF IInv, DispatchedNotNull
<1>2. QED
  BY <1>1, Inductive, PTL

-----------------------------------------------------------------------------
(***************************************************************************)
(* The clean client.  Its queues are sequences of threads: the pointers of *)
(* a list spell a sequence that names no thread twice.                     *)
(***************************************************************************)
In(t, s) == \E i \in 1..Len(s) : s[i] = t
Distinct(s) == \A i, j \in 1..Len(s) : s[i] = s[j] => i = j

\* The next pointers from head on go through s, and end there.
Chained(s, head, link) ==
  /\ s \in Seq(Thread) /\ Distinct(s)
  /\ head = IF s = <<>> THEN Null ELSE s[1]
  /\ \A i \in 1..Len(s) :
       link[s[i]].next = IF i = Len(s) THEN Null ELSE s[i + 1]

\* The list l is s.
Holds(s, l, link) ==
  /\ Chained(s, l.head, link)
  /\ l.tail = IF s = <<>> THEN Null ELSE s[Len(s)]

\* One more in the queue p of R, and one less.
Put(R, p, t) == [R EXCEPT ![p] = Append(@, t)]
Cut(R, p) == [R EXCEPT ![p] = Tail(@)]

LEMMA Appended ==
  ASSUME NEW s \in Seq(Thread), Distinct(s), NEW t \in Thread, ~In(t, s)
  PROVE  /\ Append(s, t) \in Seq(Thread) /\ Distinct(Append(s, t))
         /\ Append(s, t) # <<>> /\ Append(s, t)[Len(Append(s, t))] = t
         /\ \A u : In(u, Append(s, t)) <=> In(u, s) \/ u = t
<1> DEFINE a == Append(s, t)
<1>1. /\ a \in Seq(Thread) /\ Len(a) = Len(s) + 1
      /\ \A i \in 1..Len(s) : a[i] = s[i]
      /\ a[Len(s) + 1] = t /\ Len(s) \in Nat
  OBVIOUS
<1> HIDE DEF a
<1>2. Distinct(a)
  BY <1>1 DEF Distinct, In
<1>3. ASSUME NEW u PROVE In(u, a) <=> In(u, s) \/ u = t
  <2>1. ASSUME In(u, s) \/ u = t PROVE In(u, a)
    BY <1>1, <2>1 DEF In
  <2>2. ASSUME In(u, a) PROVE In(u, s) \/ u = t
    BY <1>1, <2>2 DEF In
  <2>3. QED BY <2>1, <2>2
<1>4. a # <<>> /\ a[Len(a)] = t
  BY <1>1
<1>5. QED BY <1>1, <1>2, <1>3, <1>4 DEF a

LEMMA Tailed ==
  ASSUME NEW s \in Seq(Thread), Distinct(s), s # <<>>
  PROVE  /\ Tail(s) \in Seq(Thread) /\ Distinct(Tail(s))
         /\ s[1] \in Thread /\ In(s[1], s) /\ Head(s) = s[1]
         /\ \A u : In(u, Tail(s)) <=> In(u, s) /\ u # s[1]
<1> DEFINE a == Tail(s)
<1>1. /\ a \in Seq(Thread) /\ Len(a) = Len(s) - 1 /\ Len(s) \in Nat \ {0}
      /\ \A i \in 1..Len(a) : a[i] = s[i + 1]
  OBVIOUS
<1>2. s[1] \in Thread /\ In(s[1], s) /\ Head(s) = s[1]
  BY <1>1 DEF In
<1> HIDE DEF a
<1>3. Distinct(a)
  BY <1>1 DEF Distinct
<1>4. ASSUME NEW u PROVE In(u, a) <=> In(u, s) /\ u # s[1]
  <2>1. ASSUME In(u, a) PROVE In(u, s) /\ u # s[1]
    BY <1>1, <2>1 DEF In, Distinct
  <2>2. ASSUME In(u, s), u # s[1] PROVE In(u, a)
    <3>1. PICK i \in 1..Len(s) : s[i] = u
      BY <2>2 DEF In
    <3>2. i # 1
      BY <2>2, <3>1
    <3>3. i - 1 \in 1..Len(a) /\ a[i - 1] = u
      BY <1>1, <3>1, <3>2
    <3>4. QED BY <3>3 DEF In
  <2>3. QED BY <2>1, <2>2
<1>5. QED BY <1>1, <1>2, <1>3, <1>4 DEF a

\* A chain needs only the links of its own threads.
LEMMA ChainFrame ==
  ASSUME NEW s, NEW h, NEW link, Chained(s, h, link), NEW n,
         \A t \in Thread : In(t, s) => n[t].next = link[t].next
  PROVE  Chained(s, h, n)
<1>1. \A i \in 1..Len(s) : s[i] \in Thread /\ In(s[i], s)
  BY DEF Chained, In
<1>2. QED BY <1>1 DEF Chained

\* EnqueueTail of an object to a list that is not empty, whose tail it may be.
LEMMA EnqueueNext ==
  ASSUME NEW l \in ListType, NEW link \in LinkType, NEW t \in Thread,
         l.head # Null, l.tail \in Thread
  PROVE  LET r == EnqueueTail(l, link, t)
         IN  /\ r.list.head = l.head /\ r.list.tail = t
             /\ \A u \in Thread :
                  r.link[u].next = IF u = t THEN Null
                                   ELSE IF u = l.tail THEN t ELSE link[u].next
<1> DEFINE a == [link EXCEPT ![l.tail].next = t]
           b == [a EXCEPT ![t].prev = l.tail]
           c == [b EXCEPT ![t].next = Null]
<1>1. a \in LinkOf(Thread)
  BY SetNext DEF LinkType
<1>2. \A u \in Thread : a[u].next = IF u = l.tail THEN t ELSE link[u].next
  BY DEF LinkType, LinkOf
<1> HIDE DEF a
<1>3. b \in LinkOf(Thread)
  BY <1>1, SetPrev
<1>4. \A u \in Thread : b[u].next = a[u].next
  BY <1>1 DEF LinkOf
<1> HIDE DEF b
<1>5. \A u \in Thread : c[u].next = IF u = t THEN Null ELSE b[u].next
  BY <1>3 DEF LinkOf
<1>6. EnqueueTail(l, link, t).link = c
  BY DEF EnqueueTail, IsEmpty, a, b
<1>7. EnqueueTail(l, link, t).list = [l EXCEPT !.tail = t]
  BY DEF EnqueueTail, IsEmpty
<1> HIDE DEF c
<1>8. QED BY <1>2, <1>4, <1>5, <1>6, <1>7 DEF ListType, ListOf

LEMMA EnqueueTailIs ==
  ASSUME NEW l \in ListType, NEW link \in LinkType, NEW s, Holds(s, l, link),
         NEW t \in Thread, ~In(t, s)
  PROVE  LET r == EnqueueTail(l, link, t)
         IN  /\ Holds(Append(s, t), r.list, r.link)
             /\ \A u \in Thread : u # t /\ ~In(u, s) => r.link[u].next = link[u].next
<1> DEFINE r == EnqueueTail(l, link, t)
           a == Append(s, t)
<1>1. s \in Seq(Thread) /\ Distinct(s) /\ Null \notin Thread
  BY SchedAssumption DEF Holds, Chained
<1>2. a \in Seq(Thread) /\ Distinct(a)
  BY <1>1, Appended
<1>3. /\ Len(a) = Len(s) + 1 /\ \A i \in 1..Len(s) : a[i] = s[i]
      /\ a[Len(s) + 1] = t /\ Len(s) \in Nat
  BY <1>1
<1>4. CASE s = <<>>
  <2>1. /\ r.list = [head |-> t, tail |-> t]
        /\ r.link = [link EXCEPT ![t] = NullLink]
    BY <1>4 DEF Holds, Chained, EnqueueTail, IsEmpty
  <2>2. /\ r.link[t].next = Null
        /\ \A u \in Thread : u # t => r.link[u].next = link[u].next
    BY <2>1 DEF LinkType, LinkOf, NullLink
  <2>3. Len(a) = 1 /\ a[1] = t /\ a # <<>>
    BY <1>3, <1>4
  <2> HIDE DEF r, a
  <2>4. Holds(a, r.list, r.link)
    BY <1>2, <2>1, <2>2, <2>3 DEF Holds, Chained
  <2>5. QED BY <2>2, <2>4 DEF r, a
<1>5. CASE s # <<>>
  <2>1. /\ l.head = s[1] /\ l.tail = s[Len(s)] /\ Len(s) \in 1..Len(s)
        /\ s[1] \in Thread /\ s[Len(s)] \in Thread
    BY <1>1, <1>5 DEF Holds, Chained
  <2>2. /\ r.list.head = l.head /\ r.list.tail = t
        /\ \A u \in Thread :
             r.link[u].next = IF u = t THEN Null
                              ELSE IF u = l.tail THEN t ELSE link[u].next
    BY <1>1, <2>1, EnqueueNext
  <2> HIDE DEF r, a
  <2>3. ASSUME NEW i \in 1..Len(a)
        PROVE  r.link[a[i]].next = IF i = Len(a) THEN Null ELSE a[i + 1]
    <3>1. CASE i = Len(s) + 1
      BY <1>3, <2>2, <3>1
    <3>2. CASE i \in 1..Len(s)
      <4>1. s[i] \in Thread /\ s[i] # t /\ a[i] = s[i]
        BY <1>1, <1>3, <3>2 DEF In
      <4>2. CASE i = Len(s)
        BY <1>3, <2>1, <2>2, <4>1, <4>2
      <4>3. CASE i # Len(s)
        <5>1. s[i] # s[Len(s)] /\ i + 1 \in 1..Len(s)
          BY <1>1, <2>1, <3>2, <4>3 DEF Distinct
        <5>2. link[s[i]].next = s[i + 1]
          BY <3>2, <4>3 DEF Holds, Chained
        <5>3. QED BY <1>3, <2>1, <2>2, <3>2, <4>1, <4>3, <5>1, <5>2
      <4>4. QED BY <4>2, <4>3
    <3>3. QED BY <1>3, <3>1, <3>2
  <2>4. a # <<>> /\ a[1] = s[1] /\ a[Len(a)] = t
    BY <1>1, <1>3, <2>1
  <2>5. Holds(a, r.list, r.link)
    BY <1>2, <2>1, <2>2, <2>3, <2>4 DEF Holds, Chained
  <2>6. ASSUME NEW u \in Thread, u # t, ~In(u, s)
        PROVE  r.link[u].next = link[u].next
    BY <2>1, <2>2, <2>6 DEF In
  <2>7. QED BY <2>5, <2>6 DEF r, a
<1>6. QED BY <1>4, <1>5

\* The thread that idles may be put on its run queue again: it is the last.
LEMMA EnqueueAgain ==
  ASSUME NEW l \in ListType, NEW link \in LinkType, NEW s, Holds(s, l, link),
         s # <<>>, NEW t, t = s[Len(s)]
  PROVE  LET r == EnqueueTail(l, link, t)
         IN  /\ Holds(s, r.list, r.link)
             /\ \A u \in Thread : r.link[u].next = link[u].next
<1> DEFINE r == EnqueueTail(l, link, t)
<1>1. /\ s \in Seq(Thread) /\ Distinct(s) /\ Null \notin Thread
      /\ Len(s) \in 1..Len(s) /\ l.head = s[1] /\ l.tail = t
      /\ s[1] \in Thread /\ t \in Thread
  BY SchedAssumption DEF Holds, Chained
<1>2. /\ r.list.head = l.head /\ r.list.tail = t
      /\ \A u \in Thread :
           r.link[u].next = IF u = t THEN Null
                            ELSE IF u = l.tail THEN t ELSE link[u].next
  BY <1>1, EnqueueNext
<1> HIDE DEF r
<1>3. link[t].next = Null
  BY <1>1 DEF Holds, Chained
<1>4. \A u \in Thread : r.link[u].next = link[u].next
  BY <1>1, <1>2, <1>3
<1>5. Chained(s, r.list.head, r.link)
  BY <1>2, <1>4, ChainFrame DEF Holds
<1>6. QED BY <1>1, <1>2, <1>4, <1>5 DEF r, Holds

\* RemoveHead writes a prev pointer only.
LEMMA RemoveHeadIs ==
  ASSUME NEW l \in ListType, NEW link \in LinkType, NEW s, Holds(s, l, link),
         s # <<>>
  PROVE  LET r == RemoveHead(l, link)
         IN  /\ Holds(Tail(s), r.list, r.link)
             /\ \A u \in Thread : r.link[u].next = link[u].next
<1> DEFINE r == RemoveHead(l, link)
           a == Tail(s)
<1>1. /\ s \in Seq(Thread) /\ Distinct(s) /\ Null \notin Thread
      /\ l.head = s[1] /\ s[1] \in Thread /\ Len(s) \in Nat \ {0}
  BY SchedAssumption DEF Holds, Chained
<1>2. /\ a \in Seq(Thread) /\ Distinct(a) /\ Len(a) = Len(s) - 1
      /\ \A i \in 1..Len(a) : a[i] = s[i + 1]
  BY <1>1, Tailed
<1>3. link[s[1]].next = IF Len(s) = 1 THEN Null ELSE s[2]
  <2>1. 1 \in 1..Len(s) /\ 1 + 1 = 2
    BY <1>1
  <2>2. \A i \in 1..Len(s) :
          link[s[i]].next = IF i = Len(s) THEN Null ELSE s[i + 1]
    BY DEF Holds, Chained
  <2>3. link[s[1]].next = IF 1 = Len(s) THEN Null ELSE s[1 + 1]
    BY <2>1, <2>2
  <2>4. QED BY <2>1, <2>3
<1>4. CASE Len(s) = 1
  <2>1. r = [list |-> EmptyList, link |-> link]
    BY <1>1, <1>3, <1>4 DEF RemoveHead
  <2>2. Len(a) = 0 /\ a = <<>>
    <3> HIDE DEF a
    <3>1. QED BY <1>1, <1>2, <1>4
  <2>3. r.list = EmptyList /\ r.link = link
    BY <2>1
  <2> HIDE DEF r, a
  <2>4. Holds(<<>>, EmptyList, link)
    BY DEF EmptyList, Holds, Chained, Distinct
  <2>5. QED BY <2>2, <2>3, <2>4 DEF r, a
<1>5. CASE Len(s) # 1
  <2>10. 2 \in 1..Len(s)
    <3>1. PICK n : n = Len(s)
      OBVIOUS
    <3>2. n \in Nat \ {0} /\ n # 1
      BY <1>1, <1>5, <3>1
    <3>3. 2 \in 1..n
      BY <3>2
    <3>4. QED BY <3>1, <3>3
  <2>1. s[2] \in Thread /\ link[s[1]].next = s[2]
    BY <2>10, <1>1, <1>3, <1>5
  <2> DEFINE sec == link[s[1]].next
  <2>9. RemoveHead(l, link) = [list |-> [l EXCEPT !.head = sec], link |-> [link EXCEPT ![sec].prev = Null]]
    BY <1>1, <2>1 DEF RemoveHead
  <2>2. r = [list |-> [l EXCEPT !.head = s[2]], link |-> [link EXCEPT ![s[2]].prev = Null]]
    BY <2>1, <2>9
  <2>3. /\ r.list.head = s[2] /\ r.list.tail = l.tail
        /\ \A u \in Thread : r.link[u].next = link[u].next
    BY <2>2 DEF ListType, ListOf, LinkType, LinkOf
  <2> HIDE DEF r, a
  <2>4. a # <<>> /\ a[1] = s[2] /\ a[Len(a)] = s[Len(s)]
    BY <1>1, <1>2, <1>5
  <2>5. ASSUME NEW i \in 1..Len(a)
        PROVE  r.link[a[i]].next = IF i = Len(a) THEN Null ELSE a[i + 1]
    <3>1. i + 1 \in 1..Len(s) /\ a[i] = s[i + 1] /\ s[i + 1] \in Thread
      BY <1>1, <1>2
    <3>2. link[s[i + 1]].next = IF i + 1 = Len(s) THEN Null ELSE s[i + 2]
      BY <3>1 DEF Holds, Chained
    <3>3. i # Len(a) => a[i + 1] = s[i + 2]
      BY <1>1, <1>2
    <3>4. QED BY <1>1, <1>2, <2>3, <3>1, <3>2, <3>3
  <2>6. l.tail = s[Len(s)]
    BY <1>1 DEF Holds
  <2>7. Holds(a, r.list, r.link)
    BY <1>2, <2>3, <2>4, <2>5, <2>6 DEF Holds, Chained
  <2>8. QED BY <2>3, <2>7 DEF r, a
<1>6. QED BY <1>4, <1>5

(***************************************************************************)
(* What the refinement reads from the pointers is that sequence.           *)
(***************************************************************************)
LEMMA ChainIs ==
  ASSUME IsFiniteSet(Thread), NEW s, NEW head, NEW link, Chained(s, head, link)
  PROVE  ChainFrom(head, link) = s
<1> DEFINE N == Cardinality(Thread)
           Eq(f) == f = [n \in 0..N |->
                           IF n = 0 THEN head
                           ELSE IF f[n - 1] = Null THEN Null
                           ELSE link[f[n - 1]].next]
           g == [n \in 0..N |-> IF n < Len(s) THEN s[n + 1] ELSE Null]
           at == CHOOSE f : Eq(f)
           met == {n \in 1..N : at[n - 1] # Null}
<1>1. N \in Nat /\ s \in Seq(Thread) /\ Len(s) \in Nat /\ Null \notin Thread
  BY FS_CardinalityType, SchedAssumption DEF Chained
<1>2. Len(s) <= N
  <2>1. s \in Injection(1..Len(s), Thread)
    BY <1>1 DEF Chained, Distinct, Injection, IsInjective
  <2>2. Cardinality(1..Len(s)) <= N
    BY <2>1, FS_Injection
  <2>3. Cardinality(1..Len(s)) = Len(s)
    <3>1. PICK n : n = Len(s)
      OBVIOUS
    <3>2. n \in Nat /\ 1 \in Int /\ n \in Int
      BY <1>1, <3>1
    <3>3. Cardinality(1..n) = IF 1 > n THEN 0 ELSE n - 1 + 1
      BY <3>2, FS_Interval
    <3>4. Cardinality(1..n) = n
      BY <3>2, <3>3
    <3>5. QED BY <3>1, <3>4
  <2>4. QED BY <2>2, <2>3
<1> HIDE DEF N
<1>3. Eq(g)
  <2>1. ASSUME NEW n \in 0..N
        PROVE  g[n] = IF n = 0 THEN head
                      ELSE IF g[n - 1] = Null THEN Null ELSE link[g[n - 1]].next
    <3>1. CASE n = 0
      BY <1>1, <3>1 DEF Chained
    <3>2. CASE n # 0
      <4>1. n - 1 \in 0..N /\ g[n - 1] = IF n - 1 < Len(s) THEN s[n] ELSE Null
        BY <1>1, <3>2
      <4>2. CASE n - 1 < Len(s)
        <5>1. /\ n \in 1..Len(s) /\ s[n] \in Thread
              /\ link[s[n]].next = IF n = Len(s) THEN Null ELSE s[n + 1]
          BY <1>1, <3>2, <4>2 DEF Chained
        <5>2. QED BY <1>1, <3>2, <4>1, <4>2, <5>1
      <4>3. CASE ~(n - 1 < Len(s))
        BY <1>1, <3>2, <4>1, <4>3
      <4>4. QED BY <4>2, <4>3
    <3>3. QED BY <3>1, <3>2
  <2>2. QED BY <2>1
<1>4. Eq(at)
  BY <1>3
<1>5. at = g
  <2> HIDE DEF at, g
  <2>1. /\ at = [n \in 0..N |-> at[n]] /\ g = [n \in 0..N |-> g[n]]
        /\ \A n \in 0..N : /\ n = 0 => at[n] = head /\ g[n] = head
                           /\ n # 0 /\ at[n - 1] = g[n - 1] => at[n] = g[n]
    BY <1>3, <1>4
  <2>2. PICK D : D = {n \in 0..N : at[n] # g[n]}
    OBVIOUS
  <2>3. SUFFICES ASSUME D # {} PROVE FALSE
    BY <2>1, <2>2
  <2>4. D \in SUBSET Nat
    BY <1>1, <2>2
  <2>5. PICK m \in D : \A j \in D : m <= j
    BY <2>3, <2>4, LeastOf
  <2>6. m \in 0..N /\ at[m] # g[m]
    BY <2>2
  <2>7. m # 0 /\ m - 1 \in 0..N
    BY <1>1, <2>1, <2>6
  <2>8. at[m - 1] = g[m - 1]
    BY <1>1, <2>2, <2>5, <2>6, <2>7
  <2>9. QED BY <2>1, <2>6, <2>7, <2>8
<1>6. ASSUME NEW n \in 1..N
      PROVE  at[n - 1] = IF n <= Len(s) THEN s[n] ELSE Null
  <2>1. n - 1 \in 0..N /\ g[n - 1] = IF n - 1 < Len(s) THEN s[n] ELSE Null
    BY <1>1
  <2>2. g[n - 1] = IF n <= Len(s) THEN s[n] ELSE Null
    <3> HIDE DEF g
    <3>1. PICK o : o = Len(s)
      OBVIOUS
    <3>2. n - 1 < o <=> n <= o
      BY <1>1, <3>1
    <3>3. QED BY <2>1, <3>1, <3>2
  <2> HIDE DEF at, g
  <2>3. QED BY <1>5, <2>2
<1> HIDE DEF at, g
<1>7. Cardinality(met) = Len(s)
  <2>1. met = 1..Len(s)
    <3>1. \A n \in 1..Len(s) : s[n] \in Thread
      BY <1>1
    <3>2. QED BY <1>1, <1>2, <1>6, <3>1
  <2> HIDE DEF met
  <2>2. PICK n : n = Len(s)
    OBVIOUS
  <2>3. n \in Nat /\ 1 \in Int /\ n \in Int
    BY <1>1, <2>2
  <2>4. Cardinality(1..n) = IF 1 > n THEN 0 ELSE n - 1 + 1
    BY <2>3, FS_Interval
  <2>5. Cardinality(1..n) = n
    BY <2>3, <2>4
  <2>6. QED BY <2>1, <2>2, <2>5
<1>8. ChainFrom(head, link) = [n \in 1..Cardinality(met) |-> at[n - 1]]
  BY Zenon DEF ChainFrom, N, met, at
<1> HIDE DEF met
<1>9. [n \in 1..Len(s) |-> at[n - 1]] = s
  <2>1. \A n \in 1..Len(s) : at[n - 1] = s[n]
    BY <1>1, <1>2, <1>6
  <2>2. s = [n \in 1..Len(s) |-> s[n]]
    BY <1>1
  <2>3. QED BY <2>1, <2>2
<1>10. QED BY <1>7, <1>8, <1>9

-----------------------------------------------------------------------------
(***************************************************************************)
(* The kernel of a clean client: R has the ready threads of each priority  *)
(* and W the threads asleep on each queue.                                 *)
(***************************************************************************)
RunsAre(s, R) ==
  /\ R \in [Priority -> Seq(Thread)]
  /\ \A p \in Priority :
       /\ Holds(R[p], s.runQueue[p], s.runLink)
       /\ \A t \in Thread : In(t, R[p]) => s.priority[t] = p

\* While WakeupAll empties a queue, its head is the cursor of the loop.
WaitsAre(s, W) ==
  /\ W \in [AnyQueue -> Seq(Thread)]
  /\ \A q \in AnyQueue :
       /\ IF s.walk.queue = q THEN Chained(W[q], s.walk.thread, s.waitLink)
                              ELSE Holds(W[q], s.queue[q], s.waitLink)
       /\ \A t \in Thread :
            In(t, W[q]) <=> s.state[t] = "Waiting" /\ s.waitQueue[t] = q
  /\ \A t \in Thread : s.state[t] = "Waiting" => s.waitQueue[t] \in AnyQueue

Idles(s) == s.cpu = "idle" \/ (s.cpu = "wakeall" /\ s.walk.after = "idle")
Leaves(s) == s.cpu = "wakeall" /\ s.walk.after = "dispatch"

\* Who is ready, and who waits for the processor at its side.
ReadyAre(s, R) ==
  \A t \in Thread :
    In(t, R[s.priority[t]]) <=>
      s.state[t] = "Running" /\ (t # s.current \/ Idles(s))

\* To wake the threads of w while the processor idles is harmless: see IdleSafe.
Harmless(s, w) ==
  s.current # Null =>
    \A i \in 1..Len(w) :
      w[i] # s.current /\ s.priority[w[i]] = s.priority[s.current]
        => ~CurrentRuns(s) /\ \A j \in 1..i : w[j] # s.current

\* t may be made ready now.
Undisturbed(s, t) ==
  s.current # Null /\ t # s.current /\ s.priority[t] = s.priority[s.current]
    => ~CurrentRuns(s)

CurrentOK(s, R) ==
  /\ ~Idles(s) => /\ s.current # Null
                  /\ s.state[s.current] = IF Leaves(s) THEN "Exited" ELSE "Running"
  /\ Idles(s) /\ s.current # Null =>
       s.state[s.current] \in {"Waiting", "Running", "Exited"}
  /\ Idles(s) /\ CurrentRuns(s) =>
       LET r == R[s.priority[s.current]] IN r # <<>> /\ r[Len(r)] = s.current

WalkOK(s, W) ==
  IF s.cpu = "wakeall"
  THEN /\ s.walk.queue \in IF Leaves(s) THEN {s.current} ELSE WaitQueue
       /\ Idles(s) => Harmless(s, W[s.walk.queue])
  ELSE s.walk.queue = Null

CleanKernel(s, R, W) ==
  /\ KernelOK(s) /\ s.cpu \in {"run", "idle", "wakeall"}
  /\ RunsAre(s, R) /\ WaitsAre(s, W) /\ ReadyAre(s, R)
  /\ CurrentOK(s, R) /\ WalkOK(s, W)

\* What a step on the run queues leaves alone.
WaitsSame(s, d) ==
  /\ d.queue = s.queue /\ d.waitLink = s.waitLink /\ d.waitQueue = s.waitQueue
  /\ d.walk = s.walk

\* A bit of the mask is set where somebody is ready.
LEMMA MaskIs ==
  ASSUME NEW s, KernelOK(s), NEW R, RunsAre(s, R), NEW p \in Priority
  PROVE  p \in s.runMask <=> R[p] # <<>>
<1>1. Null \notin Thread /\ R[p] \in Seq(Thread)
  BY SchedAssumption DEF RunsAre
<1>2. s.runQueue[p].head = IF R[p] = <<>> THEN Null ELSE R[p][1]
  BY DEF RunsAre, Holds, Chained
<1>3. R[p] # <<>> => R[p][1] \in Thread
  BY <1>1
<1>4. QED BY <1>1, <1>2, <1>3 DEF KernelOK, MaskMatchesQueues, IsEmpty

\* enqueueRunTail of a thread that is not ready.
LEMMA EnqueueRunIs ==
  ASSUME NEW s, KernelOK(s), NEW R, RunsAre(s, R), NEW t \in Thread,
         ~In(t, R[s.priority[t]]), NEW d, d = EnqueueRunTail(s, t),
         NEW S, S = Put(R, s.priority[t], t)
  PROVE  /\ KernelOK(d) /\ RunsAre(d, S)
         /\ d.state = s.state /\ d.priority = s.priority /\ SameCpu(s, d)
         /\ WaitsSame(s, d) /\ s.runMask \subseteq d.runMask
<1> DEFINE e == EnqueueTail(s.runQueue[s.priority[t]], s.runLink, t)
<1>1. PICK p, l, n : p = s.priority[t] /\ l = e.list /\ n = e.link
  OBVIOUS
<1>2. /\ p \in Priority /\ s.runQueue[p] \in ListType /\ s.runLink \in LinkType
      /\ Holds(R[p], s.runQueue[p], s.runLink) /\ ~In(t, R[p])
      /\ R \in [Priority -> Seq(Thread)]
  BY <1>1 DEF KernelOK, Kernel, RunsAre
<1>3. /\ Holds(Append(R[p], t), l, n)
      /\ \A u \in Thread : u # t /\ ~In(u, R[p]) => n[u].next = s.runLink[u].next
  BY <1>1, <1>2, EnqueueTailIs
<1>4. KernelOK(d) /\ SameCpu(s, d) /\ s.runMask \subseteq d.runMask
  BY EnqueueRunTailOK
<1>5. d = [s EXCEPT !.runQueue[p] = l, !.runLink = n, !.runMask = @ \cup {p}]
  BY <1>1, Zenon DEF EnqueueRunTail
<1>6. /\ d.runQueue = [s.runQueue EXCEPT ![p] = l] /\ d.runLink = n
      /\ d.state = s.state /\ d.priority = s.priority /\ WaitsSame(s, d)
  BY <1>5 DEF KernelOK, Kernel, WaitsSame
<1>7. S = [R EXCEPT ![p] = Append(R[p], t)]
  BY <1>1 DEF Put
<1>8. /\ Append(R[p], t) \in Seq(Thread)
      /\ \A u : In(u, Append(R[p], t)) <=> In(u, R[p]) \/ u = t
  BY <1>2, Appended DEF Holds, Chained
<1>9. S \in [Priority -> Seq(Thread)]
  BY <1>2, <1>7, <1>8
<1>10. ASSUME NEW o \in Priority
       PROVE  /\ Holds(S[o], d.runQueue[o], d.runLink)
              /\ \A u \in Thread : In(u, S[o]) => d.priority[u] = o
  <2>1. CASE o = p
    <3>1. S[o] = Append(R[p], t) /\ d.runQueue[o] = l
      BY <1>2, <1>6, <1>7, <2>1 DEF KernelOK, Kernel
    <3>2. Holds(S[o], d.runQueue[o], d.runLink)
      BY <1>3, <1>6, <3>1
    <3>3. \A u \in Thread : In(u, R[p]) => s.priority[u] = p
      BY <1>2 DEF RunsAre
    <3>4. \A u \in Thread : In(u, S[o]) => d.priority[u] = o
      BY <1>1, <1>6, <1>8, <2>1, <3>1, <3>3
    <3>5. QED BY <3>2, <3>4
  <2>2. CASE o # p
    <3>1. S[o] = R[o] /\ d.runQueue[o] = s.runQueue[o]
      BY <1>2, <1>6, <1>7, <2>2 DEF KernelOK, Kernel
    <3>2. /\ Holds(R[o], s.runQueue[o], s.runLink)
          /\ \A u \in Thread : In(u, R[o]) => s.priority[u] = o
      BY DEF RunsAre
    <3>3. \A u \in Thread : In(u, R[o]) => u # t /\ ~In(u, R[p])
      BY <1>1, <1>2, <2>2, <3>2 DEF RunsAre
    <3>4. Chained(R[o], s.runQueue[o].head, n)
      BY <1>3, <3>2, <3>3, ChainFrame DEF Holds
    <3>5. QED BY <1>6, <3>1, <3>2, <3>4 DEF Holds
  <2>3. QED BY <2>1, <2>2
<1>11. RunsAre(d, S)
  BY <1>9, <1>10 DEF RunsAre
<1>12. QED BY <1>1, <1>4, <1>6, <1>7, <1>11

\* enqueueRunTail of the thread that idles, which is the last of its queue.
LEMMA EnqueueRunAgain ==
  ASSUME NEW s, KernelOK(s), NEW R, RunsAre(s, R), NEW t \in Thread,
         R[s.priority[t]] # <<>>,
         t = R[s.priority[t]][Len(R[s.priority[t]])],
         NEW d, d = EnqueueRunTail(s, t)
  PROVE  /\ KernelOK(d) /\ RunsAre(d, R)
         /\ d.state = s.state /\ d.priority = s.priority /\ SameCpu(s, d)
         /\ WaitsSame(s, d) /\ s.runMask \subseteq d.runMask
<1> DEFINE e == EnqueueTail(s.runQueue[s.priority[t]], s.runLink, t)
<1>1. PICK p, l, n : p = s.priority[t] /\ l = e.list /\ n = e.link
  OBVIOUS
<1>2. /\ p \in Priority /\ s.runQueue[p] \in ListType /\ s.runLink \in LinkType
      /\ Holds(R[p], s.runQueue[p], s.runLink) /\ R[p] # <<>>
      /\ t = R[p][Len(R[p])]
  BY <1>1 DEF KernelOK, Kernel, RunsAre
<1>3. /\ Holds(R[p], l, n)
      /\ \A u \in Thread : n[u].next = s.runLink[u].next
  <2>1. PICK r, old, f : r = R[p] /\ old = s.runQueue[p] /\ f = s.runLink
    OBVIOUS
  <2>2. /\ old \in ListType /\ f \in LinkType /\ Holds(r, old, f) /\ r # <<>>
        /\ t = r[Len(r)] /\ l = EnqueueTail(old, f, t).list
        /\ n = EnqueueTail(old, f, t).link
    BY <1>1, <1>2, <2>1
  <2>3. /\ Holds(r, EnqueueTail(old, f, t).list, EnqueueTail(old, f, t).link)
        /\ \A u \in Thread : EnqueueTail(old, f, t).link[u].next = f[u].next
    BY <2>2, EnqueueAgain
  <2>4. QED BY <2>1, <2>2, <2>3
<1>4. KernelOK(d) /\ SameCpu(s, d) /\ s.runMask \subseteq d.runMask
  BY EnqueueRunTailOK
<1>5. d = [s EXCEPT !.runQueue[p] = l, !.runLink = n, !.runMask = @ \cup {p}]
  BY <1>1, Zenon DEF EnqueueRunTail
<1>6. /\ d.runQueue = [s.runQueue EXCEPT ![p] = l] /\ d.runLink = n
      /\ d.state = s.state /\ d.priority = s.priority /\ WaitsSame(s, d)
  BY <1>5 DEF KernelOK, Kernel, WaitsSame
<1>7. ASSUME NEW o \in Priority PROVE Holds(R[o], d.runQueue[o], d.runLink)
  <2>1. CASE o = p
    BY <1>2, <1>3, <1>6, <2>1 DEF KernelOK, Kernel
  <2>2. CASE o # p
    <3>1. d.runQueue[o] = s.runQueue[o] /\ Holds(R[o], s.runQueue[o], s.runLink)
      BY <1>2, <1>6, <2>2 DEF KernelOK, Kernel, RunsAre
    <3>2. Chained(R[o], s.runQueue[o].head, n)
      BY <1>3, <3>1, ChainFrame DEF Holds
    <3>3. QED BY <1>6, <3>1, <3>2 DEF Holds
  <2>3. QED BY <2>1, <2>2
<1>8. RunsAre(d, R)
  BY <1>6, <1>7 DEF RunsAre
<1>9. QED BY <1>4, <1>6, <1>8

\* The first of a run queue gets the processor.
LEMMA DispatchHeadIs ==
  ASSUME NEW s, KernelOK(s), NEW R, RunsAre(s, R), NEW p \in s.runMask,
         NEW d, d = DispatchHead(s, p), NEW S, S = Cut(R, p)
  PROVE  /\ KernelOK(d) /\ RunsAre(d, S)
         /\ d.state = s.state /\ d.priority = s.priority /\ WaitsSame(s, d)
         /\ d.cpu = "run" /\ R[p] # <<>> /\ d.current = Head(R[p])
<1> DEFINE e == RemoveHead(s.runQueue[p], s.runLink)
<1>1. PICK l, n : l = e.list /\ n = e.link
  OBVIOUS
<1>2. /\ p \in Priority /\ s.runQueue[p] \in ListType /\ s.runLink \in LinkType
      /\ Holds(R[p], s.runQueue[p], s.runLink)
      /\ R \in [Priority -> Seq(Thread)]
  BY DEF KernelOK, Kernel, RunsAre
<1>3. R[p] # <<>>
  BY <1>2, MaskIs
<1>4. /\ Holds(Tail(R[p]), l, n)
      /\ \A u \in Thread : n[u].next = s.runLink[u].next
  BY <1>1, <1>2, <1>3, RemoveHeadIs
<1>5. KernelOK(d) /\ d.cpu = "run"
  BY DispatchHeadOK
<1>6. /\ s.runQueue[p].head = R[p][1] /\ R[p][1] \in Thread
      /\ Head(R[p]) = R[p][1] /\ Null \notin Thread
  BY <1>2, <1>3, SchedAssumption DEF Holds, Chained
<1>7. DequeueHead(s.runQueue[p], s.runLink) =
        [thread |-> R[p][1], list |-> l, link |-> n]
  BY <1>1, <1>6 DEF DequeueHead, IsEmpty
<1>8. d = [s EXCEPT !.runQueue[p] = l, !.runLink = n,
                    !.runMask = IF IsEmpty(l) THEN @ \ {p} ELSE @,
                    !.current = R[p][1], !.cpu = "run"]
  BY <1>6, <1>7 DEF DispatchHead
<1>9. /\ d.runQueue = [s.runQueue EXCEPT ![p] = l] /\ d.runLink = n
      /\ d.state = s.state /\ d.priority = s.priority /\ WaitsSame(s, d)
      /\ d.current = R[p][1]
  BY <1>8 DEF KernelOK, Kernel, WaitsSame
<1>10. S = [R EXCEPT ![p] = Tail(R[p])]
  BY DEF Cut
<1>11. /\ Tail(R[p]) \in Seq(Thread)
       /\ \A u : In(u, Tail(R[p])) => In(u, R[p])
  BY <1>2, <1>3, Tailed DEF Holds, Chained
<1>12. S \in [Priority -> Seq(Thread)]
  BY <1>2, <1>10, <1>11
<1>13. ASSUME NEW o \in Priority
       PROVE  /\ Holds(S[o], d.runQueue[o], d.runLink)
              /\ \A u \in Thread : In(u, S[o]) => d.priority[u] = o
  <2>1. CASE o = p
    <3>1. S[o] = Tail(R[p]) /\ d.runQueue[o] = l
      BY <1>2, <1>9, <1>10, <2>1 DEF KernelOK, Kernel
    <3>2. QED BY <1>4, <1>9, <1>11, <2>1, <3>1 DEF RunsAre
  <2>2. CASE o # p
    <3>1. S[o] = R[o] /\ d.runQueue[o] = s.runQueue[o]
      BY <1>2, <1>9, <1>10, <2>2 DEF KernelOK, Kernel
    <3>2. /\ Holds(R[o], s.runQueue[o], s.runLink)
          /\ \A u \in Thread : In(u, R[o]) => s.priority[u] = o
      BY DEF RunsAre
    <3>3. Chained(R[o], s.runQueue[o].head, n)
      BY <1>4, <3>2, ChainFrame DEF Holds
    <3>4. QED BY <1>9, <3>1, <3>2, <3>3 DEF Holds
  <2>3. QED BY <2>1, <2>2
<1>14. RunsAre(d, S)
  BY <1>12, <1>13 DEF RunsAre
<1>15. QED BY <1>3, <1>5, <1>6, <1>9, <1>10, <1>14

(***************************************************************************)
(* The processor passes on: to the first of the best priority that R has,  *)
(* out of S, or to the idle loop of the one who leaves.                    *)
(***************************************************************************)
Passed(R, S, leaver, R2, cur, cpu) ==
  IF \A p \in Priority : R[p] = <<>>
  THEN cur = leaver /\ cpu = "idle" /\ R2 = R
  ELSE \E top \in Priority :
         /\ R[top] # <<>> /\ \A o \in Priority : R[o] # <<>> => top <= o
         /\ cur = Head(S[top]) /\ R2 = Cut(S, top)
         /\ cpu = "run"

LEMMA WaitsFrame ==
  ASSUME NEW s, NEW d, NEW W, WaitsAre(s, W), WaitsSame(s, d), d.state = s.state
  PROVE  WaitsAre(d, W)
BY DEF WaitsAre, WaitsSame

\* dispatchAny: S are the run queues with the current thread at its place.
LEMMA DispatchIs ==
  ASSUME NEW s, KernelOK(s), s.walk.queue = Null,
         NEW R, RunsAre(s, R), NEW W, WaitsAre(s, W), NEW S,
         s.current # Null =>
           s.state[s.current] \in {"Waiting", "Running", "Exited"},
         IF CurrentRuns(s)
         THEN LET p == s.priority[s.current]
              IN  \/ /\ S = R /\ R[p] # <<>> /\ R[p][Len(R[p])] = s.current
                  \/ /\ S = Put(R, p, s.current)
                     /\ ~In(s.current, R[p]) /\ \E o \in Priority : R[o] # <<>>
         ELSE S = R,
         \A t \in Thread : In(t, S[s.priority[t]]) <=> s.state[t] = "Running",
         NEW d, d = DispatchAny(s)
  PROVE  \E R2 : /\ CleanKernel(d, R2, W)
                 /\ Passed(R, S, s.current, R2, d.current, d.cpu)
                 /\ d.state = s.state /\ d.priority = s.priority
                 /\ WaitsSame(s, d)
<1>1. s \in Kernel /\ Null \notin Thread /\ R \in [Priority -> Seq(Thread)]
  BY SchedAssumption DEF KernelOK, RunsAre
<1>2. /\ s.current \in Thread \cup {Null} /\ s.priority \in [Thread -> Priority]
      /\ s.runMask \subseteq Priority
  BY <1>1 DEF Kernel, Pointer
<1>3. CASE \A p \in Priority : R[p] = <<>>
  <2>1. s.runMask = {}
    BY <1>2, <1>3, MaskIs
  <2>2. ~CurrentRuns(s) /\ S = R
    BY <1>2, <1>3 DEF CurrentRuns
  <2>3. d = [s EXCEPT !.cpu = "idle"]
    BY <2>1, <2>2 DEF DispatchAny
  <2>4. KernelOK(d)
    BY <2>3, SetCpuOK
  <2>5. /\ d.state = s.state /\ d.priority = s.priority /\ WaitsSame(s, d)
        /\ d.runQueue = s.runQueue /\ d.runLink = s.runLink
        /\ d.cpu = "idle" /\ d.current = s.current
    BY <1>1, <2>3 DEF Kernel, WaitsSame
  <2> HIDE <2>3
  <2>6. RunsAre(d, R) /\ WaitsAre(d, W)
    BY <2>5, WaitsFrame DEF RunsAre
  <2>7. Idles(d) /\ ~Leaves(d) /\ ~CurrentRuns(d)
    BY <2>2, <2>5 DEF Idles, Leaves, CurrentRuns
  <2>8. ReadyAre(d, R)
    BY <2>2, <2>5, <2>7 DEF ReadyAre
  <2>9. CurrentOK(d, R) /\ WalkOK(d, W)
    BY <2>5, <2>7 DEF CurrentOK, WalkOK, WaitsSame
  <2>10. CleanKernel(d, R, W)
    BY <2>4, <2>5, <2>6, <2>8, <2>9 DEF CleanKernel
  <2>11. Passed(R, S, s.current, R, d.current, d.cpu)
    BY <1>3, <2>5 DEF Passed
  <2>12. QED BY <2>5, <2>10, <2>11
<1>4. CASE ~(\A p \in Priority : R[p] = <<>>)
  <2>1. s.runMask # {}
    BY <1>4, MaskIs
  <2>2. PICK top : top = HighestPriority(s.runMask)
    OBVIOUS
  <2>3. top \in s.runMask /\ top \in Priority /\ \A o \in s.runMask : top <= o
    BY <1>2, <2>1, <2>2, HighestPriorityOK
  <2>4. PICK e : e = IF CurrentRuns(s) THEN EnqueueRunTail(s, s.current) ELSE s
    OBVIOUS
  <2>5. d = DispatchHead(e, top)
    BY <2>1, <2>2, <2>4 DEF DispatchAny
  <2>6. /\ KernelOK(e) /\ RunsAre(e, S) /\ s.runMask \subseteq e.runMask
        /\ e.state = s.state /\ e.priority = s.priority /\ WaitsSame(s, e)
    <3>1. CASE ~CurrentRuns(s)
      BY <2>4, <3>1 DEF WaitsSame
    <3>2. CASE CurrentRuns(s)
      <4>1. s.current \in Thread /\ e = EnqueueRunTail(s, s.current)
        BY <1>2, <2>4, <3>2 DEF CurrentRuns
      <4>2. CASE S = R /\ R[s.priority[s.current]] # <<>>
                 /\ R[s.priority[s.current]][Len(R[s.priority[s.current]])] = s.current
        BY <4>1, <4>2, EnqueueRunAgain
      <4>3. CASE /\ S = Put(R, s.priority[s.current], s.current)
                 /\ ~In(s.current, R[s.priority[s.current]])
        <5>1. PICK c : c = s.current
          OBVIOUS
        <5>2. /\ c \in Thread /\ ~In(c, R[s.priority[c]])
              /\ e = EnqueueRunTail(s, c)
              /\ S = Put(R, s.priority[c], c)
          BY <4>1, <4>3, <5>1
        <5>3. QED BY <5>2, EnqueueRunIs
      <4>4. QED BY <3>2, <4>2, <4>3
    <3>3. QED BY <3>1, <3>2
  <2>7. PICK R2 : R2 = Cut(S, top)
    OBVIOUS
  <2>8. /\ KernelOK(d) /\ RunsAre(d, R2)
        /\ d.state = e.state /\ d.priority = e.priority /\ WaitsSame(e, d)
        /\ d.cpu = "run" /\ S[top] # <<>> /\ d.current = Head(S[top])
    <3>1. top \in e.runMask
      BY <2>3, <2>6
    <3>2. QED BY <2>5, <2>6, <2>7, <3>1, DispatchHeadIs
  <2>9. d.state = s.state /\ d.priority = s.priority /\ WaitsSame(s, d)
    BY <2>6, <2>8 DEF WaitsSame
  <2>10. WaitsAre(d, W)
    BY <2>9, WaitsFrame
  <2>11. ~Idles(d) /\ ~Leaves(d)
    BY <2>8 DEF Idles, Leaves
  <2>12. /\ S \in [Priority -> Seq(Thread)] /\ Distinct(S[top])
         /\ \A t \in Thread : In(t, S[top]) => s.priority[t] = top
    BY <2>3, <2>6 DEF RunsAre, Holds, Chained
  <2>13. /\ d.current \in Thread /\ In(d.current, S[top])
         /\ \A u : In(u, Tail(S[top])) <=> In(u, S[top]) /\ u # d.current
    BY <2>3, <2>8, <2>12, Tailed
  <2>14. s.state[d.current] = "Running"
    BY <2>12, <2>13
  <2>15. \A p \in Priority : R2[p] = IF p = top THEN Tail(S[top]) ELSE S[p]
    BY <2>7, <2>12 DEF Cut
  <2>16. ReadyAre(d, R2)
    <3>1. ASSUME NEW t \in Thread
          PROVE  In(t, R2[s.priority[t]]) <=> s.state[t] = "Running" /\ t # d.current
      <4>1. s.priority[t] \in Priority
        BY <1>2
      <4>2. CASE s.priority[t] = top
        BY <2>3, <2>13, <2>15, <4>2
      <4>3. CASE s.priority[t] # top
        <5>1. t # d.current
          BY <2>12, <2>13, <4>3
        <5>2. QED BY <2>15, <4>1, <4>3, <5>1
      <4>4. QED BY <4>2, <4>3
    <3>2. QED BY <2>9, <2>11, <3>1 DEF ReadyAre
  <2>17. CurrentOK(d, R2) /\ WalkOK(d, W)
    BY <1>1, <2>8, <2>9, <2>11, <2>13, <2>14 DEF CurrentOK, WalkOK, WaitsSame
  <2>18. CleanKernel(d, R2, W)
    BY <2>8, <2>10, <2>16, <2>17 DEF CleanKernel
  <2>19. \A o \in Priority : R[o] # <<>> => top <= o
    BY <2>3, MaskIs
  <2>20. R[top] # <<>>
    BY <2>3, MaskIs
  <2>21. Passed(R, S, s.current, R2, d.current, d.cpu)
    BY <1>4, <2>3, <2>7, <2>8, <2>19, <2>20 DEF Passed
  <2>22. QED BY <2>9, <2>18, <2>21
<1>5. QED BY <1>3, <1>4

-----------------------------------------------------------------------------
\* The queues of R after one of them has changed.
LEMMA PutRunIs ==
  ASSUME NEW R \in [Priority -> Seq(Thread)], NEW p \in Priority, NEW t \in Thread,
         NEW S, S = Put(R, p, t)
  PROVE  /\ S \in [Priority -> Seq(Thread)] /\ S[p] = Append(R[p], t)
         /\ \A o \in Priority : o # p => S[o] = R[o]
<1>1. PICK a : a = Append(R[p], t)
  OBVIOUS
<1>2. a \in Seq(Thread)
  BY <1>1
<1>3. S = [R EXCEPT ![p] = a]
  BY <1>1 DEF Put
<1>4. QED BY <1>1, <1>2, <1>3

LEMMA PutWaitIs ==
  ASSUME NEW R \in [AnyQueue -> Seq(Thread)], NEW p \in AnyQueue, NEW t \in Thread,
         NEW S, S = Put(R, p, t)
  PROVE  /\ S \in [AnyQueue -> Seq(Thread)] /\ S[p] = Append(R[p], t)
         /\ \A o \in AnyQueue : o # p => S[o] = R[o]
<1>1. PICK a : a = Append(R[p], t)
  OBVIOUS
<1>2. a \in Seq(Thread)
  BY <1>1
<1>3. S = [R EXCEPT ![p] = a]
  BY <1>1 DEF Put
<1>4. QED BY <1>1, <1>2, <1>3

LEMMA CutIs ==
  ASSUME NEW R \in [AnyQueue -> Seq(Thread)], NEW p \in AnyQueue, R[p] # <<>>,
         NEW S, S = Cut(R, p)
  PROVE  /\ S \in [AnyQueue -> Seq(Thread)] /\ S[p] = Tail(R[p])
         /\ \A o \in AnyQueue : o # p => S[o] = R[o]
<1>1. PICK a : a = Tail(R[p])
  OBVIOUS
<1>2. a \in Seq(Thread)
  BY <1>1
<1>3. S = [R EXCEPT ![p] = a]
  BY <1>1 DEF Cut
<1>4. QED BY <1>1, <1>2, <1>3

\* A thread that is ready is Running, and on the queue of its priority.
LEMMA OnRunQueue ==
  ASSUME NEW s, NEW R, RunsAre(s, R), ReadyAre(s, R), NEW p \in Priority,
         NEW t \in Thread, In(t, R[p])
  PROVE  s.priority[t] = p /\ s.state[t] = "Running"
BY DEF RunsAre, ReadyAre

\* To make t ready puts it on its run queue once, and not behind a thread
\* that idles on the same queue.
MayRun(s, t) ==
  /\ s.state[t] # "Running"
  /\ ~Idles(s) => t # s.current
  /\ Idles(s) /\ CurrentRuns(s) => s.priority[t] # s.priority[s.current]

\* run (Thread.cpp:257-262): a thread that was not Running is ready.
LEMMA MadeReady ==
  ASSUME NEW s, KernelOK(s), NEW R, RunsAre(s, R), ReadyAre(s, R),
         CurrentOK(s, R), NEW t \in Thread, MayRun(s, t),
         NEW d, d = Run(s, t), NEW S, S = Put(R, s.priority[t], t)
  PROVE  /\ KernelOK(d) /\ RunsAre(d, S) /\ ReadyAre(d, S) /\ CurrentOK(d, S)
         /\ d.state = [s.state EXCEPT ![t] = "Running"]
         /\ d.priority = s.priority /\ SameCpu(s, d) /\ WaitsSame(s, d)
<1>1. PICK e : e = [s EXCEPT !.state[t] = "Running"]
  OBVIOUS
<1>2. KernelOK(e) /\ SameCpu(s, e)
  BY <1>1, SetStateOK DEF State
<1>3. /\ e.state = [s.state EXCEPT ![t] = "Running"] /\ e.priority = s.priority
      /\ e.runQueue = s.runQueue /\ e.runLink = s.runLink /\ WaitsSame(s, e)
  BY <1>1 DEF KernelOK, Kernel, WaitsSame
<1>4. RunsAre(e, R)
  BY <1>3 DEF RunsAre
<1>5. ~In(t, R[s.priority[t]])
  BY DEF ReadyAre, MayRun
<1>6. /\ ~In(t, R[e.priority[t]]) /\ d = EnqueueRunTail(e, t)
      /\ S = Put(R, e.priority[t], t)
  BY <1>1, <1>3, <1>5 DEF Run
<1>7. /\ KernelOK(d) /\ RunsAre(d, S) /\ d.state = e.state
      /\ d.priority = e.priority /\ SameCpu(e, d) /\ WaitsSame(e, d)
  BY <1>2, <1>4, <1>6, EnqueueRunIs
<1>8. /\ d.state = [s.state EXCEPT ![t] = "Running"]
      /\ d.priority = s.priority /\ SameCpu(s, d) /\ WaitsSame(s, d)
  BY <1>2, <1>3, <1>7 DEF SameCpu, WaitsSame
<1>9. /\ s.state \in [Thread -> State] /\ s.priority \in [Thread -> Priority]
      /\ s.current \in Thread \cup {Null} /\ Null \notin Thread
      /\ R \in [Priority -> Seq(Thread)]
  BY SchedAssumption DEF KernelOK, Kernel, Pointer, RunsAre
<1>10. PICK p : p = s.priority[t]
  OBVIOUS
<1>11. /\ p \in Priority /\ S \in [Priority -> Seq(Thread)]
       /\ S[p] = Append(R[p], t) /\ \A o \in Priority : o # p => S[o] = R[o]
  <2>1. p \in Priority /\ S = Put(R, p, t)
    BY <1>9, <1>10
  <2>2. R \in [Priority -> Seq(Thread)]
    BY <1>9
  <2>3. QED BY <2>1, <2>2, PutRunIs
<1>12. Distinct(R[p]) /\ R[p] \in Seq(Thread) /\ ~In(t, R[p])
  BY <1>5, <1>10, <1>11 DEF RunsAre, Holds, Chained
<1>13. /\ S[p] # <<>> /\ S[p][Len(S[p])] = t
       /\ \A u : In(u, S[p]) <=> In(u, R[p]) \/ u = t
  BY <1>11, <1>12, Appended
<1>14. d.cpu = s.cpu /\ d.walk = s.walk /\ d.current = s.current
  BY <1>8 DEF SameCpu
<1>15. (Idles(d) <=> Idles(s)) /\ (Leaves(d) <=> Leaves(s))
  BY <1>14 DEF Idles, Leaves
<1>16. ASSUME NEW u \in Thread
       PROVE  In(u, S[d.priority[u]]) <=>
                d.state[u] = "Running" /\ (u # d.current \/ Idles(d))
  <2>1. In(u, R[s.priority[u]]) <=>
          s.state[u] = "Running" /\ (u # s.current \/ Idles(s))
    BY DEF ReadyAre
  <2>2. s.priority[u] \in Priority
    BY <1>9
  <2>3. CASE u = t
    BY <1>8, <1>9, <1>10, <1>13, <1>14, <1>15, <2>3 DEF MayRun
  <2>4. CASE u # t
    <3>1. In(u, S[s.priority[u]]) <=> In(u, R[s.priority[u]])
      BY <1>11, <1>13, <2>2, <2>4
    <3>2. d.state[u] = s.state[u]
      BY <1>8, <1>9, <2>4
    <3>3. QED BY <1>8, <1>14, <1>15, <2>1, <3>1, <3>2
  <2>5. QED BY <2>3, <2>4
<1>17. ReadyAre(d, S)
  BY <1>16 DEF ReadyAre
<1>18. CurrentOK(d, S)
  <2>1. ~Idles(d) => /\ d.current # Null
                     /\ d.state[d.current] = IF Leaves(d) THEN "Exited" ELSE "Running"
    BY <1>8, <1>9, <1>14, <1>15 DEF CurrentOK, MayRun
  <2>2. Idles(d) /\ d.current # Null =>
          d.state[d.current] \in {"Waiting", "Running", "Exited"}
    BY <1>8, <1>9, <1>14, <1>15 DEF CurrentOK
  <2>3. ASSUME Idles(d), CurrentRuns(d)
        PROVE  /\ S[d.priority[d.current]] # <<>>
               /\ S[d.priority[d.current]][Len(S[d.priority[d.current]])] = d.current
    <3>1. PICK c : c = s.current
      OBVIOUS
    <3>2. c \in Thread /\ d.current = c /\ d.priority[c] = s.priority[c]
      BY <1>8, <1>9, <1>14, <2>3, <3>1 DEF CurrentRuns
    <3>3. CASE c = t
      BY <1>10, <1>13, <3>2, <3>3, <1>8
    <3>4. CASE c # t
      <4>1. CurrentRuns(s) /\ Idles(s)
        BY <1>8, <1>9, <1>15, <2>3, <3>1, <3>2, <3>4 DEF CurrentRuns
      <4>2. s.priority[c] # p /\ s.priority[c] \in Priority
        BY <1>9, <1>10, <3>1, <3>2, <4>1 DEF MayRun
      <4>3. S[s.priority[c]] = R[s.priority[c]]
        BY <1>11, <4>2
      <4>4. /\ R[s.priority[c]] # <<>>
            /\ R[s.priority[c]][Len(R[s.priority[c]])] = c
        BY <3>1, <4>1 DEF CurrentOK
      <4>5. QED BY <3>2, <4>3, <4>4
    <3>5. QED BY <3>3, <3>4
  <2>4. QED BY <2>1, <2>2, <2>3 DEF CurrentOK
<1>19. QED BY <1>7, <1>8, <1>17, <1>18
\* A running thread is put on the wait queue q (Thread.cpp:243-249).
LEMMA WaitsMore ==
  ASSUME NEW s, KernelOK(s), NEW W, WaitsAre(s, W), s.walk.queue = Null,
         NEW c \in Thread, s.state[c] # "Waiting", NEW q \in AnyQueue, NEW l, NEW n,
         l = EnqueueTail(s.queue[q], s.waitLink, c).list,
         n = EnqueueTail(s.queue[q], s.waitLink, c).link,
         NEW d, d.state = [s.state EXCEPT ![c] = "Waiting"],
         d.waitQueue = [s.waitQueue EXCEPT ![c] = q], d.walk = s.walk,
         d.queue = [s.queue EXCEPT ![q] = l], d.waitLink = n,
         NEW V, V = Put(W, q, c)
  PROVE  WaitsAre(d, V)
<1>1. /\ s.queue \in [AnyQueue -> ListType] /\ s.waitLink \in LinkType
      /\ s.state \in [Thread -> State]
      /\ s.waitQueue \in [Thread -> AnyQueue \cup {Null}]
      /\ W \in [AnyQueue -> Seq(Thread)] /\ Null \notin AnyQueue
  BY SchedAssumption DEF KernelOK, Kernel, WaitsAre, AnyQueue
<1>2. ASSUME NEW o \in AnyQueue
      PROVE  /\ Holds(W[o], s.queue[o], s.waitLink)
             /\ \A t \in Thread :
                  In(t, W[o]) <=> s.state[t] = "Waiting" /\ s.waitQueue[t] = o
  BY <1>1 DEF WaitsAre
<1>3. ~In(c, W[q])
  BY <1>2
<1>4. /\ V \in [AnyQueue -> Seq(Thread)] /\ V[q] = Append(W[q], c)
      /\ \A o \in AnyQueue : o # q => V[o] = W[o]
  BY <1>1, PutWaitIs
<1>5. W[q] \in Seq(Thread) /\ Distinct(W[q])
  BY <1>2 DEF Holds, Chained
<1>6. \A u : In(u, V[q]) <=> In(u, W[q]) \/ u = c
  BY <1>3, <1>4, <1>5, Appended
<1>7. /\ Holds(V[q], l, n)
      /\ \A u \in Thread : u # c /\ ~In(u, W[q]) => n[u].next = s.waitLink[u].next
  <2>1. s.queue[q] \in ListType /\ Holds(W[q], s.queue[q], s.waitLink)
    BY <1>1, <1>2
  <2>2. QED BY <1>1, <1>3, <1>4, <2>1, EnqueueTailIs
<1>8. ASSUME NEW o \in AnyQueue
      PROVE  /\ Holds(V[o], d.queue[o], d.waitLink)
             /\ \A t \in Thread :
                  In(t, V[o]) <=> d.state[t] = "Waiting" /\ d.waitQueue[t] = o
  <2>1. CASE o = q
    <3>1. Holds(V[o], d.queue[o], d.waitLink)
      BY <1>1, <1>7, <2>1
    <3>2. ASSUME NEW t \in Thread
          PROVE  In(t, V[q]) <=> d.state[t] = "Waiting" /\ d.waitQueue[t] = q
      BY <1>1, <1>2, <1>6
    <3>3. QED BY <2>1, <3>1, <3>2
  <2>2. CASE o # q
    <3>1. V[o] = W[o] /\ d.queue[o] = s.queue[o]
      BY <1>1, <1>4, <2>2
    <3>2. \A t \in Thread : In(t, W[o]) => t # c /\ ~In(t, W[q])
      BY <1>2, <2>2
    <3>3. Chained(W[o], s.queue[o].head, n)
      BY <1>2, <1>7, <3>2, ChainFrame DEF Holds
    <3>4. Holds(V[o], d.queue[o], d.waitLink)
      BY <1>2, <3>1, <3>3 DEF Holds
    <3>5. ASSUME NEW t \in Thread
          PROVE  In(t, W[o]) <=> d.state[t] = "Waiting" /\ d.waitQueue[t] = o
      BY <1>1, <1>2, <2>2
    <3>6. QED BY <3>1, <3>4, <3>5
  <2>3. QED BY <2>1, <2>2
<1>9. \A t \in Thread : d.state[t] = "Waiting" => d.waitQueue[t] \in AnyQueue
  BY <1>1 DEF WaitsAre
<1>10. QED BY <1>1, <1>4, <1>8, <1>9 DEF WaitsAre

\* The first of the wait queue q is woken: what remains are its chains.
LEMMA WaitsLess ==
  ASSUME NEW s, KernelOK(s), NEW W, WaitsAre(s, W),
         NEW q \in AnyQueue, W[q] # <<>>, NEW t, t = W[q][1],
         NEW V, V = Cut(W, q),
         NEW d, d.state = [s.state EXCEPT ![t] = "Running"],
         d.waitQueue = [s.waitQueue EXCEPT ![t] = Null],
         d.walk.queue = s.walk.queue,
         \A u \in Thread : u # t => d.waitLink[u].next = s.waitLink[u].next,
         \A o \in AnyQueue : o # q => d.queue[o] = s.queue[o],
         IF s.walk.queue = q THEN Chained(V[q], d.walk.thread, d.waitLink)
                             ELSE Holds(V[q], d.queue[q], d.waitLink),
         s.walk.queue # q => d.walk.thread = s.walk.thread
  PROVE  WaitsAre(d, V)
<1>1. /\ s.state \in [Thread -> State]
      /\ s.waitQueue \in [Thread -> AnyQueue \cup {Null}]
      /\ W \in [AnyQueue -> Seq(Thread)] /\ Null \notin AnyQueue
  BY SchedAssumption DEF KernelOK, Kernel, WaitsAre, AnyQueue
<1>2. ASSUME NEW o \in AnyQueue
      PROVE  /\ IF s.walk.queue = o THEN Chained(W[o], s.walk.thread, s.waitLink)
                                    ELSE Holds(W[o], s.queue[o], s.waitLink)
             /\ \A u \in Thread :
                  In(u, W[o]) <=> s.state[u] = "Waiting" /\ s.waitQueue[u] = o
  BY DEF WaitsAre
<1>3. /\ V \in [AnyQueue -> Seq(Thread)] /\ V[q] = Tail(W[q])
      /\ \A o \in AnyQueue : o # q => V[o] = W[o]
  <2>1. W \in [AnyQueue -> Seq(Thread)]
    BY <1>1
  <2>2. V \in [AnyQueue -> Seq(Thread)]
    BY <2>1, CutIs
  <2>3. V[q] = Tail(W[q])
    BY <2>1 DEF Cut
  <2>4. \A o \in AnyQueue : o # q => V[o] = W[o]
    BY <2>1, CutIs
  <2>5. QED BY <2>2, <2>3, <2>4
<1>4. W[q] \in Seq(Thread) /\ Distinct(W[q])
  BY <1>2 DEF Holds, Chained
<1>5. /\ t \in Thread /\ In(t, W[q])
      /\ \A u : In(u, V[q]) <=> In(u, W[q]) /\ u # t
  BY <1>3, <1>4, Tailed
<1>6. s.state[t] = "Waiting" /\ s.waitQueue[t] = q
  BY <1>2, <1>5
<1>7. ASSUME NEW o \in AnyQueue
      PROVE  /\ IF d.walk.queue = o THEN Chained(V[o], d.walk.thread, d.waitLink)
                                    ELSE Holds(V[o], d.queue[o], d.waitLink)
             /\ \A u \in Thread :
                  In(u, V[o]) <=> d.state[u] = "Waiting" /\ d.waitQueue[u] = o
  <2>1. CASE o = q
    <3>1. ASSUME NEW u \in Thread
          PROVE  In(u, V[q]) <=> d.state[u] = "Waiting" /\ d.waitQueue[u] = q
      BY <1>1, <1>2, <1>5, <1>6
    <3>2. QED BY <2>1, <3>1
  <2>2. CASE o # q
    <3>1. V[o] = W[o] /\ d.queue[o] = s.queue[o]
      BY <1>3, <2>2
    <3>2. \A u \in Thread : In(u, W[o]) => u # t
      BY <1>2, <1>6, <2>2
    <3>3. \A u \in Thread : In(u, W[o]) => d.waitLink[u].next = s.waitLink[u].next
      BY <3>2
    <3>4. CASE s.walk.queue = o
      <4>1. Chained(W[o], s.walk.thread, d.waitLink)
        BY <1>2, <3>3, <3>4, ChainFrame
      <4>2. d.walk.thread = s.walk.thread
        BY <2>2, <3>4
      <4>3. ASSUME NEW u \in Thread
            PROVE  In(u, W[o]) <=> d.state[u] = "Waiting" /\ d.waitQueue[u] = o
        BY <1>1, <1>2, <1>6, <2>2
      <4>4. QED BY <3>1, <3>4, <4>1, <4>2, <4>3
    <3>5. CASE s.walk.queue # o
      <4>1. Chained(W[o], s.queue[o].head, d.waitLink)
        BY <1>2, <3>3, <3>5, ChainFrame DEF Holds
      <4>2. Holds(W[o], s.queue[o], d.waitLink)
        BY <1>2, <3>5, <4>1 DEF Holds
      <4>3. ASSUME NEW u \in Thread
            PROVE  In(u, W[o]) <=> d.state[u] = "Waiting" /\ d.waitQueue[u] = o
        BY <1>1, <1>2, <1>6, <2>2
      <4>4. QED BY <3>1, <3>5, <4>2, <4>3
    <3>6. QED BY <3>4, <3>5
  <2>3. QED BY <2>1, <2>2
<1>8. \A u \in Thread : d.state[u] = "Waiting" => d.waitQueue[u] \in AnyQueue
  BY <1>1, <1>5 DEF WaitsAre
<1>9. QED BY <1>1, <1>3, <1>7, <1>8 DEF WaitsAre

\* The rest of a chain.
LEMMA ChainTail ==
  ASSUME NEW s, NEW h, NEW link, Chained(s, h, link), s # <<>>,
         NEW n, \A u \in Thread : u # h => n[u].next = link[u].next
  PROVE  Chained(Tail(s), link[h].next, n)
<1>1. PICK m, a : m = Len(s) /\ a = Tail(s)
  OBVIOUS
<1>2. /\ s \in Seq(Thread) /\ Distinct(s) /\ h = s[1] /\ m \in Nat \ {0}
  BY <1>1 DEF Chained
<1>3. /\ a \in Seq(Thread) /\ Distinct(a) /\ Len(a) = m - 1
      /\ \A i \in 1..Len(a) : a[i] = s[i + 1]
      /\ \A u : In(u, a) <=> In(u, s) /\ u # h
  BY <1>1, <1>2, Tailed
<1>4. \A i \in 1..m : link[s[i]].next = IF i = m THEN Null ELSE s[i + 1]
  BY <1>1 DEF Chained
<1>5. link[h].next = IF a = <<>> THEN Null ELSE a[1]
  <2>1. 1 \in 1..m /\ link[h].next = IF 1 = m THEN Null ELSE s[1 + 1]
    BY <1>2, <1>4
  <2>2. CASE m = 1
    <3>1. Len(a) = 0
      BY <1>3, <2>2
    <3>2. a = <<>>
      BY <1>3, <3>1
    <3>3. QED BY <2>1, <2>2, <3>2
  <2>3. CASE m # 1
    <3>1. 1 \in 1..Len(a)
      BY <1>2, <1>3, <2>3
    <3>2. a # <<>> /\ a[1] = s[1 + 1]
      BY <1>3, <3>1
    <3>3. QED BY <2>1, <2>3, <3>2
  <2>4. QED BY <2>2, <2>3
<1>6. ASSUME NEW i \in 1..Len(a)
      PROVE  n[a[i]].next = IF i = Len(a) THEN Null ELSE a[i + 1]
  <2>1. /\ i + 1 \in 1..m /\ a[i] = s[i + 1] /\ a[i] \in Thread
    BY <1>2, <1>3
  <2>2. a[i] # h
    BY <1>3 DEF In
  <2>3. n[a[i]].next = link[s[i + 1]].next
    BY <2>1, <2>2
  <2>4. link[s[i + 1]].next = IF i + 1 = m THEN Null ELSE s[(i + 1) + 1]
    BY <1>4, <2>1
  <2>5. CASE i = Len(a)
    BY <1>2, <1>3, <2>3, <2>4, <2>5
  <2>6. CASE i # Len(a)
    <3>1. i + 1 # m /\ i + 1 \in 1..Len(a)
      BY <1>2, <1>3, <2>6
    <3>2. a[i + 1] = s[(i + 1) + 1]
      BY <1>3, <3>1
    <3>3. QED BY <2>3, <2>4, <2>6, <3>1, <3>2
  <2>7. QED BY <2>5, <2>6
<1>7. Chained(a, link[h].next, n)
  BY <1>3, <1>5, <1>6 DEF Chained
<1>8. QED BY <1>1, <1>7
-----------------------------------------------------------------------------
(***************************************************************************)
(* Every call of a clean client keeps the kernel clean, and does with the  *)
(* two families of queues what the abstract scheduler does.                *)
(***************************************************************************)

\* While no loop of WakeupAll runs, the wait queues are what they look like.
LEMMA NoWalkIs ==
  ASSUME NEW s, NEW R, NEW W, CleanKernel(s, R, W), s.cpu # "wakeall"
  PROVE  /\ s.walk.queue = Null /\ Null \notin AnyQueue /\ ~Leaves(s)
         /\ \A q \in AnyQueue : Holds(W[q], s.queue[q], s.waitLink)
BY SchedAssumption DEF CleanKernel, WalkOK, WaitsAre, AnyQueue, Leaves

\* The thread that makes a call is Running, and on no queue.
LEMMA CallerIs ==
  ASSUME NEW s, NEW R, NEW W, CleanKernel(s, R, W), s.cpu = "run"
  PROVE  /\ s.current \in Thread /\ s.state[s.current] = "Running"
         /\ s.walk.queue = Null /\ ~Idles(s) /\ ~Leaves(s)
         /\ ~In(s.current, R[s.priority[s.current]])
         /\ s.priority[s.current] \in Priority
BY NoWalkIs DEF CleanKernel, Idles, Leaves, CurrentOK, KernelOK, Kernel, Pointer,
   ReadyAre

\* Sleep and Join (Thread.cpp:229-255).
LEMMA SleepIs ==
  ASSUME NEW s, NEW R, NEW W, CleanKernel(s, R, W), s.cpu = "run",
         NEW q \in AnyQueue, NEW c, c = s.current, NEW d, d = Sleep(s, q),
         NEW V, V = Put(W, q, c)
  PROVE  \E R2 : /\ CleanKernel(d, R2, V)
                 /\ Passed(R, R, c, R2, d.current, d.cpu)
                 /\ d.state = [s.state EXCEPT ![c] = "Waiting"]
                 /\ d.priority = s.priority
                 /\ d.waitQueue = [s.waitQueue EXCEPT ![c] = q]
<1>1. /\ c \in Thread /\ s.state[c] = "Running" /\ s.walk.queue = Null
      /\ ~Idles(s) /\ q # Null /\ c # Null
  BY CallerIs, SchedAssumption DEF AnyQueue
<1>2. PICK w, e, f : /\ w = [s EXCEPT !.state[c] = "Waiting"]
                     /\ e = QueueEnqueue(w, q, c)
                     /\ f = [e EXCEPT !.waitQueue[c] = q]
  OBVIOUS
<1>3. d = DispatchAny(f)
  BY <1>1, <1>2 DEF Sleep
<1>4. KernelOK(s)
  BY DEF CleanKernel
<1>5. KernelOK(w) /\ SameCpu(s, w)
  BY <1>1, <1>2, <1>4, SetStateOK DEF State
<1>6. KernelOK(e) /\ SameCpu(w, e)
  BY <1>1, <1>2, <1>5, QueueEnqueueOK
<1>7. KernelOK(f) /\ SameCpu(e, f)
  BY <1>1, <1>2, <1>6, SetWaitQueueOK
<1>8. /\ w.state = [s.state EXCEPT ![c] = "Waiting"] /\ w.priority = s.priority
      /\ w.runQueue = s.runQueue /\ w.runLink = s.runLink
      /\ w.queue = s.queue /\ w.waitLink = s.waitLink /\ w.waitQueue = s.waitQueue
  BY <1>2, <1>4 DEF KernelOK, Kernel
<1>9. PICK l, n : /\ l = EnqueueTail(w.queue[q], w.waitLink, c).list
                  /\ n = EnqueueTail(w.queue[q], w.waitLink, c).link
  OBVIOUS
<1>10. e = [w EXCEPT !.queue[q] = l, !.waitLink = n]
  BY <1>2, <1>9, Zenon DEF QueueEnqueue
<1>11. /\ e.state = w.state /\ e.priority = w.priority
       /\ e.runQueue = w.runQueue /\ e.runLink = w.runLink
       /\ e.queue = [w.queue EXCEPT ![q] = l] /\ e.waitLink = n
       /\ e.waitQueue = w.waitQueue
  BY <1>5, <1>10 DEF KernelOK, Kernel
<1>12. /\ f.state = e.state /\ f.priority = e.priority
       /\ f.runQueue = e.runQueue /\ f.runLink = e.runLink
       /\ f.queue = e.queue /\ f.waitLink = e.waitLink
       /\ f.waitQueue = [e.waitQueue EXCEPT ![c] = q]
  BY <1>2, <1>6 DEF KernelOK, Kernel
<1>13. /\ f.state = [s.state EXCEPT ![c] = "Waiting"] /\ f.priority = s.priority
       /\ f.waitQueue = [s.waitQueue EXCEPT ![c] = q]
       /\ f.walk = s.walk /\ f.current = c
       /\ f.queue = [s.queue EXCEPT ![q] = l] /\ f.waitLink = n
       /\ f.runQueue = s.runQueue /\ f.runLink = s.runLink
  BY <1>5, <1>6, <1>7, <1>8, <1>11, <1>12 DEF SameCpu
<1>14. RunsAre(f, R)
  BY <1>13 DEF CleanKernel, RunsAre
<1>15. WaitsAre(f, V)
  <2>1. /\ WaitsAre(s, W) /\ s.state[c] # "Waiting"
        /\ l = EnqueueTail(s.queue[q], s.waitLink, c).list
        /\ n = EnqueueTail(s.queue[q], s.waitLink, c).link
    BY <1>1, <1>8, <1>9 DEF CleanKernel
  <2>2. QED BY <1>1, <1>4, <1>13, <2>1, WaitsMore
<1>16. s.state \in [Thread -> State]
  BY <1>4 DEF KernelOK, Kernel
<1>17. ASSUME NEW t \in Thread
       PROVE  In(t, R[f.priority[t]]) <=> f.state[t] = "Running"
  BY <1>1, <1>13, <1>16 DEF CleanKernel, ReadyAre
<1>18. f.state[f.current] = "Waiting" /\ ~CurrentRuns(f) /\ f.walk.queue = Null
  BY <1>1, <1>13, <1>16 DEF CurrentRuns
<1>19. \E R2 : /\ CleanKernel(d, R2, V)
               /\ Passed(R, R, f.current, R2, d.current, d.cpu)
               /\ d.state = f.state /\ d.priority = f.priority
               /\ WaitsSame(f, d)
  <2>1. PICK S : S = R
    OBVIOUS
  <2>2. \A t \in Thread : In(t, S[f.priority[t]]) <=> f.state[t] = "Running"
    BY <1>17, <2>1
  <2>3. \E R2 : /\ CleanKernel(d, R2, V)
                /\ Passed(R, S, f.current, R2, d.current, d.cpu)
                /\ d.state = f.state /\ d.priority = f.priority
                /\ WaitsSame(f, d)
    BY <1>3, <1>7, <1>14, <1>15, <1>18, <2>1, <2>2, DispatchIs
  <2>4. QED BY <2>1, <2>3
<1>20. QED BY <1>13, <1>19 DEF WaitsSame

\* e is s without the first thread t of the wait queue q, which then has V[q].
Taken(s, e, q, t, V) ==
  /\ e.state = s.state /\ e.priority = s.priority
  /\ e.runQueue = s.runQueue /\ e.runLink = s.runLink
  /\ e.waitQueue = [s.waitQueue EXCEPT ![t] = Null]
  /\ e.cpu = s.cpu /\ e.current = s.current
  /\ e.walk.queue = s.walk.queue /\ e.walk.after = s.walk.after
  /\ \A u \in Thread : u # t => e.waitLink[u].next = s.waitLink[u].next
  /\ \A o \in AnyQueue : o # q => e.queue[o] = s.queue[o]
  /\ IF s.walk.queue = q THEN Chained(V[q], e.walk.thread, e.waitLink)
                         ELSE Holds(V[q], e.queue[q], e.waitLink)
  /\ s.walk.queue # q => e.walk.thread = s.walk.thread

\* The first thread of the wait queue q, taken from it, is made ready.
LEMMA WokenIs ==
  ASSUME NEW s, NEW R, NEW W, CleanKernel(s, R, W),
         NEW q \in AnyQueue, W[q] # <<>>, NEW t, t = W[q][1],
         Idles(s) => Undisturbed(s, t),
         NEW V, V = Cut(W, q),
         NEW e, KernelOK(e), Taken(s, e, q, t, V),
         NEW d, d = Run(e, t), NEW S, S = Put(R, s.priority[t], t)
  PROVE  /\ KernelOK(d) /\ RunsAre(d, S) /\ ReadyAre(d, S) /\ CurrentOK(d, S)
         /\ WaitsAre(d, V) /\ SameCpu(e, d)
         /\ d.state = [s.state EXCEPT ![t] = "Running"]
         /\ d.priority = s.priority /\ d.waitQueue = e.waitQueue
         /\ t \in Thread /\ s.state[t] = "Waiting" /\ s.waitQueue[t] = q
<1>1. KernelOK(s) /\ WaitsAre(s, W) /\ RunsAre(s, R) /\ ReadyAre(s, R) /\ CurrentOK(s, R)
  BY DEF CleanKernel
<1>2. W[q] \in Seq(Thread) /\ Distinct(W[q])
  BY <1>1 DEF WaitsAre, Holds, Chained
<1>3. t \in Thread /\ In(t, W[q])
  BY <1>2, Tailed
<1>4. s.state[t] = "Waiting" /\ s.waitQueue[t] = q
  BY <1>1, <1>3 DEF WaitsAre
<1>5. (Idles(e) <=> Idles(s)) /\ (Leaves(e) <=> Leaves(s)) /\ (CurrentRuns(e) <=> CurrentRuns(s))
  BY DEF Idles, Leaves, CurrentRuns, Taken
<1>6. RunsAre(e, R) /\ ReadyAre(e, R) /\ CurrentOK(e, R)
  <2>1. RunsAre(e, R)
    BY <1>1 DEF RunsAre, Taken
  <2>2. ReadyAre(e, R)
    BY <1>1, <1>5 DEF ReadyAre, Taken
  <2>3. CurrentOK(e, R)
    BY <1>1, <1>5 DEF CurrentOK, Taken
  <2>4. QED BY <2>1, <2>2, <2>3
<1>7. ~Idles(e) => t # e.current
  BY <1>1, <1>4, <1>5 DEF CurrentOK, Taken
<1>8. Idles(e) /\ CurrentRuns(e) => e.priority[t] # e.priority[e.current]
  BY <1>4, <1>5 DEF CurrentRuns, Undisturbed, Taken
<1>9. MayRun(e, t) /\ S = Put(R, e.priority[t], t)
  BY <1>4, <1>7, <1>8 DEF Taken, MayRun
<1>10. /\ KernelOK(d) /\ RunsAre(d, S) /\ ReadyAre(d, S) /\ CurrentOK(d, S)
       /\ d.state = [e.state EXCEPT ![t] = "Running"]
       /\ d.priority = e.priority /\ SameCpu(e, d) /\ WaitsSame(e, d)
  BY <1>3, <1>6, <1>9, MadeReady
<1>11. /\ d.queue = e.queue /\ d.waitLink = e.waitLink
       /\ d.waitQueue = e.waitQueue /\ d.walk = e.walk
       /\ d.state = [s.state EXCEPT ![t] = "Running"]
  BY <1>10 DEF WaitsSame, Taken
<1>12. WaitsAre(d, V)
  <2>1. /\ d.waitQueue = [s.waitQueue EXCEPT ![t] = Null]
        /\ d.walk.queue = s.walk.queue
        /\ \A u \in Thread : u # t => d.waitLink[u].next = s.waitLink[u].next
        /\ \A o \in AnyQueue : o # q => d.queue[o] = s.queue[o]
        /\ s.walk.queue # q => d.walk.thread = s.walk.thread
    BY <1>11 DEF Taken
  <2>2. IF s.walk.queue = q THEN Chained(V[q], d.walk.thread, d.waitLink)
                            ELSE Holds(V[q], d.queue[q], d.waitLink)
    BY <1>11 DEF Taken
  <2>3. QED BY <1>1, <1>11, <2>1, <2>2, WaitsLess
<1>13. QED BY <1>3, <1>4, <1>10, <1>11, <1>12 DEF Taken
\* WakeupOne (ThreadQueue.hpp:26-31).
LEMMA WakeIs ==
  ASSUME NEW s, NEW R, NEW W, CleanKernel(s, R, W), s.cpu # "wakeall",
         NEW q \in AnyQueue, ~IsEmpty(s.queue[q]), NEW t, t = s.queue[q].head,
         Idles(s) => Undisturbed(s, t), NEW d, d = WakeupOne(s, q),
         NEW V, V = Cut(W, q), NEW S, S = Put(R, s.priority[t], t)
  PROVE  /\ CleanKernel(d, S, V)
         /\ W[q] # <<>> /\ t = W[q][1] /\ t \in Thread
         /\ s.state[t] = "Waiting" /\ s.waitQueue[t] = q
         /\ d.state = [s.state EXCEPT ![t] = "Running"]
         /\ d.priority = s.priority
         /\ d.waitQueue = [s.waitQueue EXCEPT ![t] = Null]
         /\ d.cpu = s.cpu /\ d.current = s.current
<1>1. /\ s.walk.queue = Null /\ q # Null
      /\ Holds(W[q], s.queue[q], s.waitLink)
      /\ KernelOK(s) /\ WaitsAre(s, W) /\ Null \notin Thread
  BY NoWalkIs, SchedAssumption DEF CleanKernel
<1>2. W[q] # <<>> /\ t = W[q][1] /\ W[q] \in Seq(Thread) /\ Distinct(W[q])
  BY <1>1 DEF IsEmpty, Holds, Chained
<1>3. t \in Thread /\ In(t, W[q])
  BY <1>2, Tailed
<1>4. s.state[t] = "Waiting" /\ s.waitQueue[t] = q
  BY <1>1, <1>3 DEF WaitsAre
<1>5. /\ s.queue[q] \in ListType /\ EndsAgree(s.queue[q]) /\ s.waitLink \in LinkType
  BY <1>1 DEF KernelOK, Kernel, WaitQueueEnds
<1>6. PICK l, n : /\ l = RemoveHead(s.queue[q], s.waitLink).list
                  /\ n = RemoveHead(s.queue[q], s.waitLink).link
  OBVIOUS
<1>7. l \in ListType /\ EndsAgree(l) /\ n \in LinkType
  BY <1>1, <1>5, <1>6, RemoveHeadOK DEF ListType, LinkType
<1>8. /\ Holds(Tail(W[q]), l, n)
      /\ \A u \in Thread : n[u].next = s.waitLink[u].next
  BY <1>1, <1>2, <1>5, <1>6, RemoveHeadIs
<1>9. PICK e, f : /\ e = [s EXCEPT !.queue[q] = l, !.waitLink = n]
                  /\ f = [e EXCEPT !.waitQueue[t] = Null]
  OBVIOUS
<1>10. KernelOK(e) /\ SameCpu(s, e)
  BY <1>1, <1>7, <1>9, WaitQueuesOK
<1>11. KernelOK(f) /\ SameCpu(e, f)
  BY <1>3, <1>9, <1>10, SetWaitQueueOK
<1>12. f = [s EXCEPT !.queue[q] = l, !.waitLink = n, !.waitQueue[t] = Null]
  BY <1>9
<1>13. d = Run(f, t)
  <2>1. d = Wakeup(s, t)
    BY DEF WakeupOne
  <2>2. Dequeue(s.queue[q], s.waitLink, t) = RemoveHead(s.queue[q], s.waitLink)
    BY DEF Dequeue
  <2>3. ~DequeueFaults(s.queue[q], s.waitLink, t)
    BY DEF DequeueFaults
  <2>4. PICK r : r = Dequeue(s.queue[q], s.waitLink, t)
    OBVIOUS
  <2>5. l = r.list /\ n = r.link
    BY <1>6, <2>2, <2>4
  <2>6. Wakeup(s, t) = Run([s EXCEPT !.queue[q] = r.list, !.waitLink = r.link,
                                     !.waitQueue[t] = Null], t)
    BY <1>1, <1>4, <2>3, <2>4 DEF Wakeup
  <2>7. QED BY <1>12, <2>1, <2>5, <2>6
<1>14. /\ f.state = s.state /\ f.priority = s.priority
       /\ f.runQueue = s.runQueue /\ f.runLink = s.runLink
       /\ f.queue = [s.queue EXCEPT ![q] = l] /\ f.waitLink = n
       /\ f.waitQueue = [s.waitQueue EXCEPT ![t] = Null]
       /\ f.walk = s.walk /\ f.cpu = s.cpu /\ f.current = s.current
  BY <1>1, <1>12 DEF KernelOK, Kernel
<1>15. V[q] = Tail(W[q])
  BY <1>1 DEF WaitsAre, Cut
<1>16. /\ \A u \in Thread : u # t => f.waitLink[u].next = s.waitLink[u].next
       /\ \A o \in AnyQueue : o # q => f.queue[o] = s.queue[o]
       /\ f.queue[q] = l
  BY <1>1, <1>8, <1>14 DEF KernelOK, Kernel
<1>17. /\ IF s.walk.queue = q THEN Chained(V[q], f.walk.thread, f.waitLink)
                              ELSE Holds(V[q], f.queue[q], f.waitLink)
       /\ s.walk.queue # q => f.walk.thread = s.walk.thread
       /\ f.walk.queue = s.walk.queue /\ f.walk.after = s.walk.after
  BY <1>1, <1>8, <1>14, <1>15, <1>16
<1>23. Taken(s, f, q, t, V)
  BY <1>14, <1>16, <1>17 DEF Taken
<1>18. /\ KernelOK(d) /\ RunsAre(d, S) /\ ReadyAre(d, S) /\ CurrentOK(d, S)
       /\ WaitsAre(d, V) /\ SameCpu(f, d)
       /\ d.state = [s.state EXCEPT ![t] = "Running"]
       /\ d.priority = s.priority /\ d.waitQueue = f.waitQueue
  BY <1>2, <1>11, <1>13, <1>23, WokenIs
<1>19. d.cpu = s.cpu /\ d.current = s.current /\ d.walk = s.walk
  BY <1>14, <1>18 DEF SameCpu
<1>20. WalkOK(d, V) /\ d.cpu \in {"run", "idle", "wakeall"}
  BY <1>1, <1>19 DEF CleanKernel, WalkOK
<1>21. CleanKernel(d, S, V)
  BY <1>18, <1>20 DEF CleanKernel
<1>22. QED BY <1>2, <1>3, <1>4, <1>14, <1>18, <1>19, <1>21

\* WakeupAll (Thread.cpp:278-290) starts: the queues are the same.
LEMMA WakeAllIs ==
  ASSUME NEW s, NEW R, NEW W, CleanKernel(s, R, W), s.cpu \in {"run", "idle"},
         NEW q \in WaitQueue, Idles(s) => Harmless(s, W[q]),
         NEW d, d = WakeupAll(s, q, s.cpu)
  PROVE  /\ CleanKernel(d, R, W) /\ d.cpu = "wakeall"
         /\ d.walk.queue = q /\ d.walk.after = s.cpu
         /\ d.state = s.state /\ d.priority = s.priority
         /\ d.waitQueue = s.waitQueue /\ d.current = s.current
<1>1. /\ q \in AnyQueue /\ q # Null /\ KernelOK(s) /\ RunsAre(s, R)
      /\ WaitsAre(s, W) /\ ReadyAre(s, R) /\ CurrentOK(s, R)
      /\ \A o \in AnyQueue : Holds(W[o], s.queue[o], s.waitLink)
  BY NoWalkIs, SchedAssumption DEF CleanKernel, AnyQueue
<1>2. KernelOK(d) /\ d.cpu = "wakeall"
  BY <1>1, WakeupAllOK
<1>3. /\ d.walk = [queue |-> q, thread |-> s.queue[q].head, after |-> s.cpu]
      /\ d.state = s.state /\ d.priority = s.priority
      /\ d.runQueue = s.runQueue /\ d.runLink = s.runLink
      /\ d.queue = s.queue /\ d.waitLink = s.waitLink
      /\ d.waitQueue = s.waitQueue /\ d.current = s.current
  BY <1>1 DEF WakeupAll, KernelOK, Kernel
<1>4. /\ d.walk.queue = q /\ d.walk.thread = s.queue[q].head
      /\ d.walk.after = s.cpu
  BY <1>3
<1>5. (Idles(d) <=> Idles(s)) /\ ~Leaves(d) /\ ~Leaves(s)
      /\ (CurrentRuns(d) <=> CurrentRuns(s))
  BY <1>2, <1>3, <1>4 DEF Idles, Leaves, CurrentRuns
<1>6. RunsAre(d, R)
  BY <1>1, <1>3 DEF RunsAre
<1>7. WaitsAre(d, W)
  BY <1>1, <1>3, <1>4 DEF WaitsAre, Holds
<1>8. ReadyAre(d, R)
  BY <1>1, <1>3, <1>5 DEF ReadyAre
<1>9. CurrentOK(d, R)
  BY <1>1, <1>3, <1>5 DEF CurrentOK
<1>10. Idles(d) => Harmless(d, W[q])
  BY <1>3, <1>5 DEF Harmless
<1>11. WalkOK(d, W)
  BY <1>2, <1>4, <1>5, <1>10 DEF WalkOK
<1>12. QED
  BY <1>2, <1>3, <1>4, <1>6, <1>7, <1>8, <1>9, <1>11 DEF CleanKernel

\* Exit of the running thread (Thread.cpp:197-208): it will leave.
LEMMA ExitIs ==
  ASSUME NEW s, NEW R, NEW W, CleanKernel(s, R, W), s.cpu = "run",
         NEW c, c = s.current, NEW d,
         d = WakeupAll([s EXCEPT !.state[c] = "Exited"], c, "dispatch")
  PROVE  /\ CleanKernel(d, R, W) /\ d.cpu = "wakeall"
         /\ d.walk.queue = c /\ d.walk.after = "dispatch"
         /\ d.state = [s.state EXCEPT ![c] = "Exited"]
         /\ d.priority = s.priority
         /\ d.waitQueue = s.waitQueue /\ d.current = s.current
<1>1. /\ c \in Thread /\ s.state[c] = "Running" /\ c \in AnyQueue /\ c # Null
      /\ ~Idles(s) /\ ~Leaves(s) /\ KernelOK(s) /\ RunsAre(s, R)
      /\ WaitsAre(s, W) /\ ReadyAre(s, R) /\ CurrentOK(s, R)
      /\ \A o \in AnyQueue : Holds(W[o], s.queue[o], s.waitLink)
  BY NoWalkIs, CallerIs, SchedAssumption DEF CleanKernel, AnyQueue
<1>2. PICK e : e = [s EXCEPT !.state[c] = "Exited"]
  OBVIOUS
<1>3. KernelOK(e)
  BY <1>1, <1>2, SetStateOK DEF State
<1>4. KernelOK(d) /\ d.cpu = "wakeall"
  BY <1>1, <1>2, <1>3, WakeupAllOK
<1>5. /\ e.state = [s.state EXCEPT ![c] = "Exited"] /\ e.priority = s.priority
      /\ e.runQueue = s.runQueue /\ e.runLink = s.runLink
      /\ e.queue = s.queue /\ e.waitLink = s.waitLink
      /\ e.waitQueue = s.waitQueue /\ e.current = s.current
  BY <1>1, <1>2 DEF KernelOK, Kernel
<1>6. /\ d.walk = [queue |-> c, thread |-> e.queue[c].head, after |-> "dispatch"]
      /\ d.state = e.state /\ d.priority = e.priority
      /\ d.runQueue = e.runQueue /\ d.runLink = e.runLink
      /\ d.queue = e.queue /\ d.waitLink = e.waitLink
      /\ d.waitQueue = e.waitQueue /\ d.current = e.current
  BY <1>2, <1>3 DEF WakeupAll, KernelOK, Kernel
<1>7. /\ d.walk.queue = c /\ d.walk.thread = s.queue[c].head
      /\ d.walk.after = "dispatch"
  BY <1>5, <1>6
<1>8. ~Idles(d) /\ Leaves(d)
  BY <1>4, <1>7 DEF Idles, Leaves
<1>9. s.state \in [Thread -> State] /\ d.state = [s.state EXCEPT ![c] = "Exited"]
  BY <1>1, <1>5, <1>6 DEF KernelOK, Kernel
<1>10. /\ d.priority = s.priority
       /\ d.runQueue = s.runQueue /\ d.runLink = s.runLink
       /\ d.queue = s.queue /\ d.waitLink = s.waitLink
       /\ d.waitQueue = s.waitQueue /\ d.current = c
  BY <1>5, <1>6
<1>11. RunsAre(d, R)
  <2>1. RunsAre(s, R)
    BY <1>1
  <2>2. QED BY <1>10, <2>1 DEF RunsAre
<1>12. WaitsAre(d, W)
  <2>1. WaitsAre(s, W)
    BY <1>1
  <2>2. ASSUME NEW o \in AnyQueue
        PROVE  /\ IF d.walk.queue = o THEN Chained(W[o], d.walk.thread, d.waitLink)
                                      ELSE Holds(W[o], d.queue[o], d.waitLink)
               /\ \A t \in Thread :
                    In(t, W[o]) <=> d.state[t] = "Waiting" /\ d.waitQueue[t] = o
    <3>1. IF d.walk.queue = o THEN Chained(W[o], d.walk.thread, d.waitLink)
                              ELSE Holds(W[o], d.queue[o], d.waitLink)
      BY <1>1, <1>7, <1>10 DEF Holds
    <3>2. ASSUME NEW t \in Thread
          PROVE  In(t, W[o]) <=> d.state[t] = "Waiting" /\ d.waitQueue[t] = o
      <4>1. In(t, W[o]) <=> s.state[t] = "Waiting" /\ s.waitQueue[t] = o
        BY <2>1 DEF WaitsAre
      <4>2. d.state[t] = "Waiting" <=> s.state[t] = "Waiting"
        BY <1>1, <1>9
      <4>3. QED BY <1>10, <4>1, <4>2
    <3>3. QED BY <3>1, <3>2
  <2>3. \A t \in Thread : d.state[t] = "Waiting" => d.waitQueue[t] \in AnyQueue
    BY <1>1, <1>9, <1>10, <2>1 DEF WaitsAre
  <2>4. W \in [AnyQueue -> Seq(Thread)]
    BY <2>1 DEF WaitsAre
  <2>5. QED BY <2>2, <2>3, <2>4 DEF WaitsAre
<1>13. ReadyAre(d, R) /\ CurrentOK(d, R)
  BY <1>1, <1>8, <1>9, <1>10 DEF ReadyAre, CurrentOK
<1>14. WalkOK(d, W)
  BY <1>4, <1>7, <1>8, <1>10 DEF WalkOK
<1>15. QED
  BY <1>4, <1>7, <1>9, <1>10, <1>11, <1>12, <1>13, <1>14 DEF CleanKernel
\* WakeupAll takes the next thread from its queue (Thread.cpp:284-289).
LEMMA NextIs ==
  ASSUME NEW s, NEW R, NEW W, CleanKernel(s, R, W), s.cpu = "wakeall",
         NEW t, t = s.walk.thread, t # Null, NEW q, q = s.walk.queue,
         NEW d, d = WakeupAllNext(s),
         NEW V, V = Cut(W, q), NEW S, S = Put(R, s.priority[t], t)
  PROVE  /\ CleanKernel(d, S, V) /\ q \in AnyQueue
         /\ W[q] # <<>> /\ t = W[q][1] /\ t \in Thread
         /\ s.state[t] = "Waiting" /\ s.waitQueue[t] = q
         /\ d.state = [s.state EXCEPT ![t] = "Running"]
         /\ d.priority = s.priority
         /\ d.waitQueue = [s.waitQueue EXCEPT ![t] = Null]
         /\ d.cpu = s.cpu /\ d.current = s.current
         /\ d.walk.queue = q /\ d.walk.after = s.walk.after
<1>1. /\ KernelOK(s) /\ WaitsAre(s, W) /\ CurrentOK(s, R) /\ WalkOK(s, W)
      /\ Null \notin Thread
  BY SchedAssumption DEF CleanKernel
<1>2. q \in AnyQueue /\ q # Null /\ (Idles(s) => Harmless(s, W[q]))
  <2>1. Leaves(s) => s.current \in Thread
    BY <1>1 DEF CurrentOK, KernelOK, Kernel, Pointer, Idles, Leaves
  <2>2. QED BY <1>1, <2>1, SchedAssumption DEF WalkOK, AnyQueue
<1>3. /\ Chained(W[q], t, s.waitLink)
      /\ \A u \in Thread :
           In(u, W[q]) <=> s.state[u] = "Waiting" /\ s.waitQueue[u] = q
  BY <1>1, <1>2 DEF WaitsAre
<1>4. W[q] # <<>> /\ t = W[q][1] /\ W[q] \in Seq(Thread) /\ Distinct(W[q])
  BY <1>3 DEF Chained
<1>5. t \in Thread /\ In(t, W[q])
  BY <1>4, Tailed
<1>6. PICK e : e = WalkNext(s)
  OBVIOUS
<1>7. KernelOK(e) /\ e.cpu = s.cpu /\ d = Run(e, t)
  BY <1>1, <1>6, WalkNextOK
<1>8. /\ e.state = s.state /\ e.priority = s.priority
      /\ e.runQueue = s.runQueue /\ e.runLink = s.runLink
      /\ e.queue = s.queue /\ e.waitLink = [s.waitLink EXCEPT ![t] = NullLink]
      /\ e.waitQueue = [s.waitQueue EXCEPT ![t] = Null]
      /\ e.current = s.current
      /\ e.walk = [s.walk EXCEPT !.thread = s.waitLink[t].next]
  BY <1>1, <1>6 DEF WalkNext, KernelOK, Kernel
<1>9. /\ e.walk.queue = q /\ e.walk.after = s.walk.after
      /\ e.walk.thread = s.waitLink[t].next
  BY <1>1, <1>8 DEF KernelOK, Kernel
<1>10. \A u \in Thread : u # t => e.waitLink[u].next = s.waitLink[u].next
  BY <1>1, <1>8 DEF KernelOK, Kernel, LinkType, LinkOf
<1>11. V[q] = Tail(W[q])
  BY <1>1, <1>2 DEF WaitsAre, Cut
<1>12. Chained(V[q], e.walk.thread, e.waitLink)
  BY <1>3, <1>4, <1>9, <1>10, <1>11, ChainTail
<1>13. Taken(s, e, q, t, V)
  BY <1>7, <1>8, <1>9, <1>10, <1>12 DEF Taken
<1>14. Idles(s) => Undisturbed(s, t)
  <2>1. Len(W[q]) \in Nat \ {0}
    BY <1>4
  <2>2. 1 \in 1..Len(W[q])
    BY <2>1
  <2>3. QED BY <1>2, <1>4, <2>2 DEF Harmless, Undisturbed
<1>15. /\ KernelOK(d) /\ RunsAre(d, S) /\ ReadyAre(d, S) /\ CurrentOK(d, S)
       /\ WaitsAre(d, V) /\ SameCpu(e, d)
       /\ d.state = [s.state EXCEPT ![t] = "Running"]
       /\ d.priority = s.priority /\ d.waitQueue = e.waitQueue
       /\ s.state[t] = "Waiting" /\ s.waitQueue[t] = q
  BY <1>2, <1>4, <1>7, <1>13, <1>14, WokenIs
<1>16. /\ d.cpu = s.cpu /\ d.current = s.current /\ d.walk.queue = q
       /\ d.walk.after = s.walk.after
  BY <1>7, <1>8, <1>9, <1>15 DEF SameCpu
<1>17. (Idles(d) <=> Idles(s)) /\ (Leaves(d) <=> Leaves(s))
  BY <1>16 DEF Idles, Leaves
<1>18. Idles(d) => Harmless(d, V[q])
  <2>1. SUFFICES ASSUME Idles(s), s.current # Null, NEW i \in 1..Len(V[q]),
                        V[q][i] # s.current,
                        s.priority[V[q][i]] = s.priority[s.current]
                 PROVE  ~CurrentRuns(d) /\ \A j \in 1..i : V[q][j] # s.current
    BY <1>15, <1>16, <1>17 DEF Harmless
  <2>2. PICK m : m = Len(W[q])
    OBVIOUS
  <2>3. /\ m \in Nat /\ Len(V[q]) = m - 1
        /\ \A j \in 1..Len(V[q]) : V[q][j] = W[q][j + 1]
    BY <1>4, <1>11, <2>2
  <2>4. i + 1 \in 1..m /\ V[q][i] = W[q][i + 1]
    BY <2>3
  <2>5. ~CurrentRuns(s) /\ \A j \in 1..(i + 1) : W[q][j] # s.current
    BY <1>2, <2>1, <2>2, <2>4 DEF Harmless
  <2>6. t # s.current
    BY <1>4, <2>3, <2>5
  <2>7. ~CurrentRuns(d)
    BY <1>1, <1>15, <1>16, <2>5, <2>6 DEF CurrentRuns, KernelOK, Kernel, Pointer
  <2>8. ASSUME NEW j \in 1..i PROVE V[q][j] # s.current
    <3>1. j \in 1..Len(V[q]) /\ j + 1 \in 1..(i + 1)
      BY <2>3
    <3>2. QED BY <2>3, <2>5, <3>1
  <2>9. QED BY <2>7, <2>8
<1>19. WalkOK(d, V)
  BY <1>1, <1>2, <1>16, <1>17, <1>18 DEF WalkOK
<1>20. CleanKernel(d, S, V)
  BY <1>15, <1>16, <1>19 DEF CleanKernel
<1>21. QED BY <1>2, <1>4, <1>5, <1>8, <1>15, <1>16, <1>20

\* The loop of WakeupAll is over (Thread.cpp:290): its queue is empty.
LEMMA WalkEndIs ==
  ASSUME NEW s, NEW R, NEW W, CleanKernel(s, R, W), s.cpu = "wakeall",
         s.walk.thread = Null, NEW d, d = WalkEnd(s)
  PROVE  /\ KernelOK(d) /\ RunsAre(d, R) /\ WaitsAre(d, W)
         /\ d.state = s.state /\ d.priority = s.priority
         /\ d.waitQueue = s.waitQueue /\ d.current = s.current
         /\ d.cpu = IF Leaves(s) THEN "run" ELSE s.walk.after
         /\ d.walk.queue = Null /\ W[s.walk.queue] = <<>>
<1>1. /\ KernelOK(s) /\ RunsAre(s, R) /\ WaitsAre(s, W) /\ CurrentOK(s, R)
      /\ WalkOK(s, W) /\ Null \notin Thread
  BY SchedAssumption DEF CleanKernel
<1>2. PICK q : q = s.walk.queue
  OBVIOUS
<1>3. q \in AnyQueue
  <2>1. Leaves(s) => s.current \in Thread
    BY <1>1 DEF CurrentOK, KernelOK, Kernel, Pointer, Idles, Leaves
  <2>2. QED BY <1>1, <1>2, <2>1 DEF WalkOK, AnyQueue
<1>4. Chained(W[q], Null, s.waitLink)
  BY <1>1, <1>2, <1>3 DEF WaitsAre
<1>5. W[q] = <<>>
  <2>1. W[q] # <<>> => W[q][1] \in Thread
    BY <1>4 DEF Chained
  <2>2. QED BY <1>1, <1>4, <2>1 DEF Chained
<1>6. KernelOK(d)
  BY <1>1, WalkEndOK
<1>7. /\ d.state = s.state /\ d.priority = s.priority
      /\ d.runQueue = s.runQueue /\ d.runLink = s.runLink
      /\ d.queue = [s.queue EXCEPT ![q] = EmptyList] /\ d.waitLink = s.waitLink
      /\ d.waitQueue = s.waitQueue /\ d.current = s.current
      /\ d.walk = NoWalk
      /\ d.cpu = IF s.walk.after = "dispatch" THEN "run" ELSE s.walk.after
  BY <1>1, <1>2 DEF WalkEnd, KernelOK, Kernel
<1>8. d.walk.queue = Null
  BY <1>7 DEF NoWalk
<1>9. RunsAre(d, R)
  BY <1>1, <1>7 DEF RunsAre
<1>10. s.queue \in [AnyQueue -> ListType] /\ Null \notin AnyQueue
  BY <1>1, SchedAssumption DEF KernelOK, Kernel, AnyQueue
<1>11. ASSUME NEW o \in AnyQueue PROVE Holds(W[o], d.queue[o], d.waitLink)
  <2>1. CASE o = q
    <3>1. d.queue[o] = EmptyList
      BY <1>7, <1>10, <2>1
    <3>2. Holds(<<>>, EmptyList, d.waitLink)
      BY <1>4, <1>5 DEF EmptyList, Holds, Chained
    <3>3. QED BY <1>5, <2>1, <3>1, <3>2
  <2>2. CASE o # q
    <3>1. d.queue[o] = s.queue[o] /\ d.waitLink = s.waitLink
      BY <1>7, <1>10, <2>2
    <3>2. Holds(W[o], s.queue[o], s.waitLink)
      BY <1>1, <1>2, <2>2 DEF WaitsAre
    <3>3. QED BY <3>1, <3>2
  <2>3. QED BY <2>1, <2>2
<1>12. WaitsAre(d, W)
  BY <1>1, <1>7, <1>8, <1>10, <1>11 DEF WaitsAre
<1>13. d.cpu = IF Leaves(s) THEN "run" ELSE s.walk.after
  BY <1>7 DEF Leaves
<1>14. QED BY <1>2, <1>5, <1>6, <1>7, <1>8, <1>9, <1>12, <1>13

\* The caller of WakeupAll goes on.
LEMMA EndIs ==
  ASSUME NEW s, NEW R, NEW W, CleanKernel(s, R, W), s.cpu = "wakeall",
         s.walk.thread = Null, ~Leaves(s), NEW d, d = WakeupAllEnd(s)
  PROVE  /\ CleanKernel(d, R, W) /\ d.cpu = s.walk.after
         /\ d.state = s.state /\ d.priority = s.priority
         /\ d.waitQueue = s.waitQueue /\ d.current = s.current
<1>1. KernelOK(s) /\ ReadyAre(s, R) /\ CurrentOK(s, R)
  BY DEF CleanKernel
<1>2. d = WalkEnd(s) /\ d.cpu \in {"run", "idle"}
  BY <1>1, WalkEndOK DEF Leaves
<1>3. /\ KernelOK(d) /\ RunsAre(d, R) /\ WaitsAre(d, W)
      /\ d.state = s.state /\ d.priority = s.priority
      /\ d.waitQueue = s.waitQueue /\ d.current = s.current
      /\ d.cpu = s.walk.after /\ d.walk.queue = Null
  BY <1>2, WalkEndIs
<1>4. (Idles(d) <=> Idles(s)) /\ ~Leaves(d) /\ (CurrentRuns(d) <=> CurrentRuns(s))
  BY <1>2, <1>3 DEF Idles, Leaves, CurrentRuns
<1>5. ReadyAre(d, R) /\ CurrentOK(d, R)
  BY <1>1, <1>3, <1>4 DEF ReadyAre, CurrentOK
<1>6. WalkOK(d, W)
  BY <1>2, <1>3 DEF WalkOK
<1>7. QED BY <1>2, <1>3, <1>5, <1>6 DEF CleanKernel

\* The exited thread leaves the processor (Thread.cpp:204-208).
LEMMA LeaveIs ==
  ASSUME NEW s, NEW R, NEW W, CleanKernel(s, R, W), s.cpu = "wakeall",
         s.walk.thread = Null, Leaves(s), NEW d, d = WakeupAllEnd(s)
  PROVE  \E R2 : /\ CleanKernel(d, R2, W)
                 /\ Passed(R, R, s.current, R2, d.current, d.cpu)
                 /\ d.state = s.state /\ d.priority = s.priority
                 /\ d.waitQueue = s.waitQueue /\ W[s.current] = <<>>
<1>1. KernelOK(s) /\ ReadyAre(s, R) /\ CurrentOK(s, R) /\ WalkOK(s, W)
  BY DEF CleanKernel
<1>2. PICK f : f = WalkEnd(s)
  OBVIOUS
<1>3. d = DispatchAny(f)
  BY <1>1, <1>2, WalkEndOK DEF Leaves
<1>4. /\ KernelOK(f) /\ RunsAre(f, R) /\ WaitsAre(f, W)
      /\ f.state = s.state /\ f.priority = s.priority
      /\ f.waitQueue = s.waitQueue /\ f.current = s.current
      /\ f.walk.queue = Null /\ W[s.walk.queue] = <<>>
  BY <1>2, WalkEndIs
<1>5. ~Idles(s) /\ s.state[s.current] = "Exited" /\ s.walk.queue = s.current
  BY <1>1 DEF CurrentOK, WalkOK, Idles, Leaves
<1>6. ~CurrentRuns(f) /\ f.state[f.current] = "Exited"
  BY <1>4, <1>5 DEF CurrentRuns
<1>7. PICK S : S = R
  OBVIOUS
<1>8. \A t \in Thread : In(t, S[f.priority[t]]) <=> f.state[t] = "Running"
  BY <1>1, <1>4, <1>5, <1>7 DEF ReadyAre
<1>9. \E R2 : /\ CleanKernel(d, R2, W)
              /\ Passed(R, S, f.current, R2, d.current, d.cpu)
              /\ d.state = f.state /\ d.priority = f.priority
              /\ WaitsSame(f, d)
  BY <1>3, <1>4, <1>6, <1>7, <1>8, DispatchIs
<1>10. QED BY <1>4, <1>5, <1>7, <1>9 DEF WaitsSame
\* The idle loop ends (Thread.cpp:330-362).
LEMMA IdleEndIs ==
  ASSUME NEW s, NEW R, NEW W, CleanKernel(s, R, W), IdleEnds(s),
         NEW d, d = DispatchAny(s)
  PROVE  \E R2 : /\ CleanKernel(d, R2, W)
                 /\ Passed(R, R, s.current, R2, d.current, d.cpu)
                 /\ d.state = s.state /\ d.priority = s.priority
                 /\ d.waitQueue = s.waitQueue
                 /\ \E p \in Priority : R[p] # <<>>
<1>1. /\ KernelOK(s) /\ RunsAre(s, R) /\ WaitsAre(s, W) /\ ReadyAre(s, R)
      /\ CurrentOK(s, R)
  BY DEF CleanKernel
<1>2. s.cpu = "idle" /\ Idles(s)
  BY DEF IdleEnds, Idles
<1>3. s.walk.queue = Null
  BY <1>2, NoWalkIs
<1>4. PICK S : S = R
  OBVIOUS
<1>5. \A t \in Thread : In(t, S[s.priority[t]]) <=> s.state[t] = "Running"
  BY <1>1, <1>2, <1>4 DEF ReadyAre
<1>6. s.current # Null => s.state[s.current] \in {"Waiting", "Running", "Exited"}
  BY <1>1, <1>2 DEF CurrentOK
<1>7. PICK p : p = s.priority[s.current]
  OBVIOUS
<1>8. CurrentRuns(s) => R[p] # <<>> /\ R[p][Len(R[p])] = s.current
  BY <1>1, <1>2, <1>7 DEF CurrentOK
<1>9. IF CurrentRuns(s)
      THEN LET o == s.priority[s.current]
           IN  \/ /\ S = R /\ R[o] # <<>> /\ R[o][Len(R[o])] = s.current
               \/ /\ S = Put(R, o, s.current)
                  /\ ~In(s.current, R[o]) /\ \E u \in Priority : R[u] # <<>>
      ELSE S = R
  BY <1>4, <1>7, <1>8
<1>10. \E R2 : /\ CleanKernel(d, R2, W)
               /\ Passed(R, S, s.current, R2, d.current, d.cpu)
               /\ d.state = s.state /\ d.priority = s.priority
               /\ WaitsSame(s, d)
  BY <1>1, <1>3, <1>5, <1>6, <1>9, DispatchIs
<1>11. \E o \in Priority : R[o] # <<>>
  <2>1. CASE CurrentRuns(s)
    <3>1. s.priority[s.current] \in Priority
      BY <1>1, <2>1 DEF CurrentRuns, KernelOK, Kernel, Pointer
    <3>2. QED BY <1>7, <1>8, <2>1, <3>1
  <2>2. CASE ~CurrentRuns(s)
    <3>1. PICK o \in s.runMask : TRUE
      BY <2>2 DEF IdleEnds
    <3>2. o \in Priority
      BY <1>1 DEF KernelOK, Kernel
    <3>3. QED BY <1>1, <3>2, MaskIs
  <2>3. QED BY <2>1, <2>2
<1>12. QED BY <1>4, <1>10, <1>11 DEF WaitsSame

\* Yield (Thread.cpp:292-301), with somebody ready.
LEMMA YieldIs ==
  ASSUME NEW s, NEW R, NEW W, CleanKernel(s, R, W), s.cpu = "run",
         s.runMask # {}, NEW c, c = s.current,
         NEW d, d = DispatchAny(s), NEW S, S = Put(R, s.priority[c], c)
  PROVE  \E R2 : /\ CleanKernel(d, R2, W)
                 /\ Passed(R, S, c, R2, d.current, d.cpu)
                 /\ d.state = s.state /\ d.priority = s.priority
                 /\ d.waitQueue = s.waitQueue
                 /\ \E p \in Priority : R[p] # <<>>
<1>1. /\ KernelOK(s) /\ RunsAre(s, R) /\ WaitsAre(s, W) /\ ReadyAre(s, R)
  BY DEF CleanKernel
<1>2. /\ c \in Thread /\ s.state[c] = "Running" /\ s.walk.queue = Null
      /\ ~Idles(s) /\ ~In(c, R[s.priority[c]]) /\ s.priority[c] \in Priority
      /\ c # Null
  BY CallerIs, SchedAssumption
<1>3. \E o \in Priority : R[o] # <<>>
  <2>1. PICK o \in s.runMask : TRUE
    OBVIOUS
  <2>2. o \in Priority
    BY <1>1 DEF KernelOK, Kernel
  <2>3. QED BY <1>1, <2>2, MaskIs
<1>4. PICK p : p = s.priority[c]
  OBVIOUS
<1>5. /\ R \in [Priority -> Seq(Thread)] /\ R[p] \in Seq(Thread) /\ Distinct(R[p])
      /\ s.priority \in [Thread -> Priority] /\ p \in Priority
  BY <1>1, <1>2, <1>4 DEF RunsAre, Holds, Chained, KernelOK, Kernel
<1>6. /\ S[p] = Append(R[p], c) /\ \A o \in Priority : o # p => S[o] = R[o]
  <2>1. S = Put(R, p, c)
    BY <1>4
  <2>2. /\ R \in [Priority -> Seq(Thread)] /\ p \in Priority
    BY <1>5
  <2>3. c \in Thread
    BY <1>2
  <2>4. QED BY <2>1, <2>2, <2>3, PutRunIs
<1>7. \A u : In(u, S[p]) <=> In(u, R[p]) \/ u = c
  BY <1>2, <1>4, <1>5, <1>6, Appended
<1>8. ASSUME NEW t \in Thread
      PROVE  In(t, S[s.priority[t]]) <=> s.state[t] = "Running"
  <2>1. /\ In(t, R[s.priority[t]]) <=> s.state[t] = "Running" /\ t # c
        /\ s.priority[t] \in Priority
    BY <1>1, <1>2, <1>5 DEF ReadyAre
  <2>2. CASE s.priority[t] = p
    BY <1>2, <1>7, <2>1, <2>2
  <2>3. CASE s.priority[t] # p
    BY <1>4, <1>6, <2>1, <2>3
  <2>4. QED BY <2>2, <2>3
<1>9. IF CurrentRuns(s)
      THEN LET o == s.priority[s.current]
           IN  \/ /\ S = R /\ R[o] # <<>> /\ R[o][Len(R[o])] = s.current
               \/ /\ S = Put(R, o, s.current)
                  /\ ~In(s.current, R[o]) /\ \E u \in Priority : R[u] # <<>>
      ELSE S = R
  BY <1>2, <1>3 DEF CurrentRuns
<1>10. s.current # Null => s.state[s.current] \in {"Waiting", "Running", "Exited"}
  BY <1>2
<1>11. \E R2 : /\ CleanKernel(d, R2, W)
               /\ Passed(R, S, s.current, R2, d.current, d.cpu)
               /\ d.state = s.state /\ d.priority = s.priority
               /\ WaitsSame(s, d)
  BY <1>1, <1>2, <1>8, <1>9, <1>10, DispatchIs
<1>12. QED BY <1>3, <1>11 DEF WaitsSame

\* A state is written of a thread that is neither ready nor asleep, before and
\* after.
WithState(s, t, new) == [s EXCEPT !.state[t] = new]

\* t is on no queue.
Apart(s, t) ==
  s.state[t] # "Waiting" /\ (s.state[t] = "Running" => ~Idles(s) /\ t = s.current)

LEMMA SetStateIs ==
  ASSUME NEW s, NEW R, NEW W, CleanKernel(s, R, W), NEW t \in Thread, Apart(s, t),
         NEW new, new = "Suspended" \/ new = "Disabled",
         NEW d, d = WithState(s, t, new)
  PROVE  /\ KernelOK(d) /\ RunsAre(d, R) /\ WaitsAre(d, W) /\ SameCpu(s, d)
         /\ d.state = [s.state EXCEPT ![t] = new] /\ d.priority = s.priority
         /\ d.waitQueue = s.waitQueue
         /\ d.runQueue = s.runQueue /\ d.runLink = s.runLink
         /\ d.queue = s.queue /\ d.waitLink = s.waitLink
         /\ \A u \in Thread : In(u, R[d.priority[u]]) <=>
              d.state[u] = "Running" /\ (u # s.current \/ Idles(s))
<1>1. KernelOK(s) /\ RunsAre(s, R) /\ WaitsAre(s, W) /\ ReadyAre(s, R)
  BY DEF CleanKernel
<1>2. KernelOK(d) /\ SameCpu(s, d)
  <2>1. new \in State
    BY DEF State
  <2>2. QED BY <1>1, <2>1, SetStateOK DEF WithState
<1>3. /\ d.state = [s.state EXCEPT ![t] = new] /\ d.priority = s.priority
      /\ d.waitQueue = s.waitQueue
      /\ d.runQueue = s.runQueue /\ d.runLink = s.runLink
      /\ d.queue = s.queue /\ d.waitLink = s.waitLink /\ d.walk = s.walk
      /\ s.state \in [Thread -> State]
  BY <1>1 DEF KernelOK, Kernel, WithState
<1>4. RunsAre(d, R)
  BY <1>1, <1>3 DEF RunsAre
<1>5. \A u \in Thread : d.state[u] = "Waiting" <=> s.state[u] = "Waiting"
  BY <1>3 DEF Apart
<1>6. WaitsAre(d, W)
  BY <1>1, <1>3, <1>5 DEF WaitsAre
<1>7. ASSUME NEW u \in Thread
      PROVE  In(u, R[d.priority[u]]) <=>
               d.state[u] = "Running" /\ (u # s.current \/ Idles(s))
  BY <1>1, <1>3 DEF ReadyAre, Apart
<1>8. QED BY <1>2, <1>3, <1>4, <1>6, <1>7

\* The destructor (Thread.cpp:134-195), of an exited thread...
LEMMA DestroyIs ==
  ASSUME NEW s, NEW R, NEW W, CleanKernel(s, R, W), s.cpu = "run",
         NEW t \in Thread, t # s.current, s.state[t] = "Exited",
         NEW d, d = WithState(s, t, "Disabled")
  PROVE  /\ CleanKernel(d, R, W)
         /\ d.state = [s.state EXCEPT ![t] = "Disabled"]
         /\ d.priority = s.priority /\ d.waitQueue = s.waitQueue
         /\ d.cpu = s.cpu /\ d.current = s.current
<1>1. /\ KernelOK(d) /\ RunsAre(d, R) /\ WaitsAre(d, W) /\ SameCpu(s, d)
      /\ d.state = [s.state EXCEPT ![t] = "Disabled"] /\ d.priority = s.priority
      /\ d.waitQueue = s.waitQueue
      /\ \A u \in Thread : In(u, R[d.priority[u]]) <=>
           d.state[u] = "Running" /\ (u # s.current \/ Idles(s))
  <2>1. Apart(s, t)
    BY DEF Apart
  <2>2. QED BY <2>1, SetStateIs
<1>2. /\ d.cpu = s.cpu /\ d.current = s.current /\ d.walk = s.walk
      /\ ~Idles(d) /\ ~Idles(s) /\ ~Leaves(d)
  BY <1>1, CallerIs DEF SameCpu, Idles, Leaves
<1>3. ReadyAre(d, R)
  BY <1>1, <1>2 DEF ReadyAre
<1>4. s.current \in Thread /\ s.state[s.current] = "Running" /\ s.walk.queue = Null
  BY CallerIs
<1>5. CurrentOK(d, R)
  BY <1>1, <1>2, <1>4, SchedAssumption DEF CurrentOK, CleanKernel, KernelOK, Kernel
<1>6. WalkOK(d, W)
  BY <1>2, <1>4 DEF WalkOK
<1>7. QED BY <1>1, <1>2, <1>3, <1>5, <1>6 DEF CleanKernel

\* ...and of the running one.
WithoutCaller(s, c) == [s EXCEPT !.state[c] = "Disabled", !.current = Null]

LEMMA DestroySelfIs ==
  ASSUME NEW s, NEW R, NEW W, CleanKernel(s, R, W), s.cpu = "run",
         NEW c, c = s.current,
         NEW d, d = DispatchAny(WithoutCaller(s, c))
  PROVE  \E R2 : /\ CleanKernel(d, R2, W)
                 /\ Passed(R, R, Null, R2, d.current, d.cpu)
                 /\ d.state = [s.state EXCEPT ![c] = "Disabled"]
                 /\ d.priority = s.priority /\ d.waitQueue = s.waitQueue
<1>1. PICK e, f : e = WithState(s, c, "Disabled") /\ f = [e EXCEPT !.current = Null]
  OBVIOUS
<1>2. /\ c \in Thread /\ s.state[c] = "Running" /\ s.walk.queue = Null /\ ~Idles(s)
  BY CallerIs
<1>3. /\ KernelOK(e) /\ RunsAre(e, R) /\ WaitsAre(e, W) /\ SameCpu(s, e)
      /\ e.state = [s.state EXCEPT ![c] = "Disabled"] /\ e.priority = s.priority
      /\ e.waitQueue = s.waitQueue
      /\ \A u \in Thread : In(u, R[e.priority[u]]) <=>
           e.state[u] = "Running" /\ (u # s.current \/ Idles(s))
  <2>1. Apart(s, c)
    BY <1>2 DEF Apart
  <2>2. c \in Thread /\ e = WithState(s, c, "Disabled")
    BY <1>1, <1>2
  <2>3. QED BY <2>1, <2>2, SetStateIs
<1>4. KernelOK(f)
  BY <1>1, <1>3 DEF KernelOK, Kernel, Pointer, RunQueueEnds, WaitQueueEnds,
     MaskMatchesQueues, WalkMatchesCpu
<1>5. /\ f.state = e.state /\ f.priority = e.priority /\ WaitsSame(e, f)
      /\ f.runQueue = e.runQueue /\ f.runLink = e.runLink /\ f.current = Null
      /\ f.walk = s.walk /\ f.waitQueue = s.waitQueue
  BY <1>1, <1>3 DEF WaitsSame, SameCpu, KernelOK, Kernel
<1>6. RunsAre(f, R) /\ WaitsAre(f, W)
  BY <1>3, <1>5, WaitsFrame DEF RunsAre
<1>7. PICK S : S = R
  OBVIOUS
<1>8. s.state \in [Thread -> State]
  BY DEF CleanKernel, KernelOK, Kernel
<1>9. \A u \in Thread : In(u, S[f.priority[u]]) <=> f.state[u] = "Running"
  BY <1>2, <1>3, <1>5, <1>7, <1>8
<1>10. ~CurrentRuns(f) /\ f.walk.queue = Null
  BY <1>2, <1>5 DEF CurrentRuns
<1>11. d = DispatchAny(f)
  <2>1. f = [s EXCEPT !.state[c] = "Disabled", !.current = Null]
    BY <1>1 DEF WithState, CleanKernel, KernelOK, Kernel
  <2>2. f = WithoutCaller(s, c)
    BY <2>1 DEF WithoutCaller
  <2>3. QED BY <2>2
<1>12. \E R2 : /\ CleanKernel(d, R2, W)
               /\ Passed(R, S, f.current, R2, d.current, d.cpu)
               /\ d.state = f.state /\ d.priority = f.priority
               /\ WaitsSame(f, d)
  BY <1>4, <1>5, <1>6, <1>7, <1>9, <1>10, <1>11, DispatchIs
<1>13. QED BY <1>3, <1>5, <1>7, <1>12 DEF WaitsSame

\* A thread that has not been constructed gets its priority and its state.
WithPriority(s, t, p) == [s EXCEPT !.priority[t] = p]

LEMMA SetPriorityOK ==
  ASSUME NEW s, KernelOK(s), NEW t \in Thread, NEW p \in Priority,
         NEW d, d = WithPriority(s, t, p)
  PROVE  /\ KernelOK(d) /\ d.priority = [s.priority EXCEPT ![t] = p]
         /\ d.state = s.state /\ WaitsSame(s, d) /\ SameCpu(s, d)
         /\ d.runQueue = s.runQueue /\ d.runLink = s.runLink
<1>1. KernelOK(d)
  BY DEF WithPriority, KernelOK, Kernel, RunQueueEnds, WaitQueueEnds,
     MaskMatchesQueues, WalkMatchesCpu
<1>2. /\ d.priority = [s.priority EXCEPT ![t] = p]
      /\ d.state = s.state /\ WaitsSame(s, d) /\ SameCpu(s, d)
      /\ d.runQueue = s.runQueue /\ d.runLink = s.runLink
  BY DEF WithPriority, WaitsSame, SameCpu, KernelOK, Kernel
<1>3. QED BY <1>1, <1>2

LEMMA MadeIs ==
  ASSUME NEW s, NEW R, NEW W, CleanKernel(s, R, W), s.cpu = "run",
         NEW t \in Thread, s.state[t] = "None", NEW p \in Priority,
         NEW d, d = WithPriority(WithState(s, t, "Suspended"), t, p)
  PROVE  /\ CleanKernel(d, R, W)
         /\ d.state = [s.state EXCEPT ![t] = "Suspended"]
         /\ d.priority = [s.priority EXCEPT ![t] = p]
         /\ d.waitQueue = s.waitQueue /\ SameCpu(s, d)
<1>1. PICK e : e = WithState(s, t, "Suspended")
  OBVIOUS
<1>2. /\ KernelOK(e) /\ RunsAre(e, R) /\ WaitsAre(e, W) /\ SameCpu(s, e)
      /\ e.state = [s.state EXCEPT ![t] = "Suspended"] /\ e.priority = s.priority
      /\ e.waitQueue = s.waitQueue
      /\ \A u \in Thread : In(u, R[e.priority[u]]) <=>
           e.state[u] = "Running" /\ (u # s.current \/ Idles(s))
  <2>1. Apart(s, t)
    BY DEF Apart
  <2>2. QED BY <1>1, <2>1, SetStateIs
<1>3. d = WithPriority(e, t, p)
  BY <1>1
<1>4. /\ KernelOK(d) /\ d.priority = [e.priority EXCEPT ![t] = p]
      /\ d.state = e.state /\ WaitsSame(e, d) /\ SameCpu(e, d)
      /\ d.runQueue = e.runQueue /\ d.runLink = e.runLink
  BY <1>2, <1>3, SetPriorityOK
<1>5. /\ d.state = [s.state EXCEPT ![t] = "Suspended"]
      /\ d.priority = [s.priority EXCEPT ![t] = p]
      /\ d.waitQueue = s.waitQueue /\ SameCpu(s, d)
      /\ s.state \in [Thread -> State] /\ s.priority \in [Thread -> Priority]
  BY <1>2, <1>4 DEF SameCpu, WaitsSame, CleanKernel, KernelOK, Kernel
<1>6. /\ s.current \in Thread /\ s.state[s.current] = "Running"
      /\ s.walk.queue = Null /\ ~Idles(s) /\ ~Leaves(s) /\ t # s.current
      /\ s.current # Null
  BY CallerIs, SchedAssumption
<1>7. d.cpu = s.cpu /\ d.walk = s.walk /\ d.current = s.current
  BY <1>5 DEF SameCpu
<1>8. ~Idles(d) /\ ~Leaves(d)
  BY <1>6, <1>7 DEF Idles, Leaves
<1>9. \A o \in Priority : ~In(t, R[o])
  <2>1. RunsAre(s, R) /\ ReadyAre(s, R)
    BY DEF CleanKernel
  <2>2. QED BY <2>1, OnRunQueue
<1>10. RunsAre(d, R)
  <2>1. ASSUME NEW o \in Priority, NEW u \in Thread, In(u, R[o])
        PROVE  d.priority[u] = o
    <3>1. u # t /\ s.priority[u] = o
      BY <1>2, <1>9, <2>1 DEF RunsAre
    <3>2. QED BY <1>5, <3>1
  <2>2. QED BY <1>2, <1>4, <2>1 DEF RunsAre
<1>11. WaitsAre(d, W)
  BY <1>2, <1>4, WaitsFrame
<1>12. ReadyAre(d, R)
  <2>1. ASSUME NEW u \in Thread
        PROVE  In(u, R[d.priority[u]]) <=>
                 d.state[u] = "Running" /\ (u # d.current \/ Idles(d))
    <3>1. CASE u = t
      <4>1. d.state[t] = "Suspended" /\ d.priority[t] = p
        BY <1>5
      <4>2. QED BY <1>9, <3>1, <4>1
    <3>2. CASE u # t
      <4>1. d.priority[u] = e.priority[u] /\ d.state[u] = e.state[u]
        BY <1>2, <1>4, <1>5, <3>2
      <4>2. QED BY <1>2, <1>6, <1>7, <1>8, <4>1
    <3>3. QED BY <3>1, <3>2
  <2>2. QED BY <2>1 DEF ReadyAre
<1>13. CurrentOK(d, R)
  BY <1>5, <1>6, <1>7, <1>8 DEF CurrentOK
<1>14. WalkOK(d, W) /\ d.cpu = "run"
  BY <1>6, <1>7 DEF WalkOK
<1>15. CleanKernel(d, R, W)
  BY <1>4, <1>10, <1>11, <1>12, <1>13, <1>14 DEF CleanKernel
<1>16. QED BY <1>5, <1>15

\* The constructor (Thread.cpp:88-132) of a thread that is made ready.
LEMMA SpawnIs ==
  ASSUME NEW s, NEW R, NEW W, CleanKernel(s, R, W), s.cpu = "run",
         NEW t \in Thread, s.state[t] = "None", NEW p \in Priority,
         NEW made, made = WithPriority(WithState(s, t, "Suspended"), t, p),
         NEW d, d = Run(made, t), NEW S, S = Put(R, p, t)
  PROVE  /\ CleanKernel(d, S, W)
         /\ d.state = [s.state EXCEPT ![t] = "Running"]
         /\ d.priority = [s.priority EXCEPT ![t] = p]
         /\ d.waitQueue = s.waitQueue /\ SameCpu(s, d)
<1>1. PICK e : e = made
  OBVIOUS
<1>2. /\ CleanKernel(e, R, W)
      /\ e.state = [s.state EXCEPT ![t] = "Suspended"]
      /\ e.priority = [s.priority EXCEPT ![t] = p]
      /\ e.waitQueue = s.waitQueue /\ SameCpu(s, e)
  BY <1>1, MadeIs
<1>3. /\ KernelOK(e) /\ RunsAre(e, R) /\ WaitsAre(e, W) /\ ReadyAre(e, R)
      /\ CurrentOK(e, R) /\ e.cpu = "run" /\ e.walk.queue = Null /\ t # e.current
      /\ ~Idles(e)
  <2>1. e.cpu = "run" /\ e.current = s.current
    BY <1>2 DEF SameCpu
  <2>2. e.walk.queue = Null /\ ~Idles(e)
    BY <1>2, <2>1, CallerIs
  <2>3. t # s.current
    BY CallerIs
  <2>4. QED BY <1>2, <2>1, <2>2, <2>3 DEF CleanKernel
<1>4. /\ s.state \in [Thread -> State] /\ s.priority \in [Thread -> Priority]
  BY DEF CleanKernel, KernelOK, Kernel
<1>5. e.state[t] = "Suspended" /\ e.priority[t] = p
  BY <1>2, <1>4
<1>6. MayRun(e, t)
  BY <1>3, <1>5 DEF MayRun
<1>7. d = Run(e, t) /\ S = Put(R, e.priority[t], t)
  BY <1>1, <1>5
<1>8. /\ KernelOK(d) /\ RunsAre(d, S) /\ ReadyAre(d, S) /\ CurrentOK(d, S)
      /\ d.state = [e.state EXCEPT ![t] = "Running"]
      /\ d.priority = e.priority /\ SameCpu(e, d) /\ WaitsSame(e, d)
  <2>1. KernelOK(e) /\ RunsAre(e, R) /\ ReadyAre(e, R) /\ CurrentOK(e, R)
    BY <1>3
  <2>2. QED BY <1>6, <1>7, <2>1, MadeReady
<1>9. /\ d.queue = e.queue /\ d.waitLink = e.waitLink
      /\ d.waitQueue = e.waitQueue /\ d.walk = e.walk /\ d.cpu = "run"
      /\ SameCpu(s, d)
  BY <1>2, <1>3, <1>8 DEF WaitsSame, SameCpu
<1>10. d.state = [s.state EXCEPT ![t] = "Running"]
  BY <1>2, <1>4, <1>8
<1>11. \A u \in Thread : d.state[u] = "Waiting" <=> e.state[u] = "Waiting"
  BY <1>2, <1>4, <1>10
<1>12. WaitsAre(d, W)
  BY <1>3, <1>9, <1>11 DEF WaitsAre
<1>13. WalkOK(d, W)
  BY <1>3, <1>9 DEF WalkOK
<1>14. CleanKernel(d, S, W)
  BY <1>8, <1>9, <1>12, <1>13 DEF CleanKernel
<1>15. QED BY <1>2, <1>8, <1>9, <1>10, <1>14
-----------------------------------------------------------------------------
(***************************************************************************)
(* What the client sees of a clean kernel.                                 *)
(***************************************************************************)
LEMMA ChainsAre ==
  ASSUME NEW s, NEW R, NEW W, CleanKernel(s, R, W)
  PROVE  /\ \A p \in Priority : ChainFrom(s.runQueue[p].head, s.runLink) = R[p]
         /\ \A q \in AnyQueue :
              ChainFrom(IF s.walk.queue = q THEN s.walk.thread ELSE s.queue[q].head,
                        s.waitLink) = W[q]
<1>1. RunsAre(s, R) /\ WaitsAre(s, W)
  BY DEF CleanKernel
<1>2. ASSUME NEW p \in Priority
      PROVE  ChainFrom(s.runQueue[p].head, s.runLink) = R[p]
  <2>1. Chained(R[p], s.runQueue[p].head, s.runLink)
    BY <1>1 DEF RunsAre, Holds
  <2>2. QED BY <2>1, ClientAssumption, ChainIs
<1>3. ASSUME NEW q \in AnyQueue, NEW h,
             h = IF s.walk.queue = q THEN s.walk.thread ELSE s.queue[q].head
      PROVE  ChainFrom(h, s.waitLink) = W[q]
  <2>1. Chained(W[q], h, s.waitLink)
    BY <1>1, <1>3 DEF WaitsAre, Holds
  <2>2. QED BY <2>1, ClientAssumption, ChainIs
<1>4. QED BY <1>2, <1>3

LEMMA SeenAre ==
  ASSUME NEW R, NEW W, CleanKernel(k, R, W)
  PROVE  /\ ReadyChains = R /\ WaitChains = W
         /\ \A p \in Priority : ReadyChain(p) = R[p]
         /\ \A q \in AnyQueue : WaitChain(q) = W[q]
<1>1. /\ \A p \in Priority : ReadyChain(p) = R[p]
      /\ \A q \in AnyQueue : WaitChain(q) = W[q]
  BY ChainsAre DEF ReadyChain, WaitChain
<1>2. R \in [Priority -> Seq(Thread)] /\ W \in [AnyQueue -> Seq(Thread)]
  BY DEF CleanKernel, RunsAre, WaitsAre
<1>3. QED BY <1>1, <1>2 DEF ReadyChains, WaitChains

LEMMA SeenNext ==
  ASSUME NEW R, NEW W, CleanKernel(k', R, W)
  PROVE  ReadyChains' = R /\ WaitChains' = W
<1>1. /\ \A p \in Priority : ReadyChain(p)' = R[p]
      /\ \A q \in AnyQueue : WaitChain(q)' = W[q]
  BY ChainsAre DEF ReadyChain, WaitChain
<1>2. R \in [Priority -> Seq(Thread)] /\ W \in [AnyQueue -> Seq(Thread)]
  BY DEF CleanKernel, RunsAre, WaitsAre
<1>3. QED BY <1>1, <1>2 DEF ReadyChains, WaitChains

\* The processor passes on as the abstract scheduler says.
LEMMA PassesOn ==
  ASSUME NEW R \in [Priority -> Seq(Thread)], NEW S \in [Priority -> Seq(Thread)],
         NEW R2, NEW leaver,
         ReadyChains = R, ReadyChains' = R2,
         Passed(R, S, leaver, R2, k'.current, PhaseOf(k'))
  PROVE  Ideal!Pass(S, leaver)
<1>1. Priority = Ideal!Priority /\ Priority \subseteq Int
  BY SchedAssumption DEF Priority, Ideal!Priority
<1>2. Ideal!ReadyPriorities = {p \in Priority : R[p] # <<>>}
  BY <1>1 DEF Ideal!ReadyPriorities
<1>3. CASE \A p \in Priority : R[p] = <<>>
  <2>1. Ideal!ReadyPriorities = {}
    BY <1>2, <1>3
  <2>2. QED BY <1>3, <2>1 DEF Passed, Ideal!Pass
<1>4. CASE ~ \A p \in Priority : R[p] = <<>>
  <2>1. PICK top \in Priority :
          /\ R[top] # <<>> /\ \A o \in Priority : R[o] # <<>> => top <= o
          /\ k'.current = Head(S[top]) /\ R2 = Cut(S, top)
          /\ PhaseOf(k') = "run"
    BY <1>4 DEF Passed
  <2>2. Ideal!ReadyPriorities # {}
    BY <1>2, <2>1
  <2>3. Ideal!Top = top
    <3>1. PICK T : T = Ideal!ReadyPriorities
      OBVIOUS
    <3>2. top \in T /\ T \subseteq Int /\ \A o \in T : top <= o
      BY <1>1, <1>2, <2>1, <3>1
    <3>3. \A p \in T : (\A o \in T : p <= o) => p = top
      BY <3>2
    <3>4. (CHOOSE p \in T : \A o \in T : p <= o) = top
      BY <3>2, <3>3
    <3>5. QED BY <3>1, <3>4 DEF Ideal!Top
  <2>4. ReadyChains' = [S EXCEPT ![top] = Tail(@)]
    BY <2>1 DEF Cut
  <2>5. QED BY <2>1, <2>2, <2>3, <2>4 DEF Ideal!Pass
<1>5. QED BY <1>3, <1>4
-----------------------------------------------------------------------------
(***************************************************************************)
(* The inductive invariant of the clean client: the kernel is clean, a     *)
(* thread in Join waits for a constructed one or has been woken by its     *)
(* exit, and the stacks of living threads are there.                       *)
(***************************************************************************)
JoinsOK ==
  /\ \A u \in Thread :
       pc[u] = "join" =>
         /\ joinThread[u] \in Thread
         /\ \/ /\ k.state[u] = "Waiting" /\ k.waitQueue[u] = joinThread[u]
               /\ k.state[joinThread[u]] \notin {"None", "Disabled"}
            \/ k.state[u] = "Running" /\ k.state[joinThread[u]] = "Exited"
  /\ \A u \in Thread :
       k.state[u] = "Waiting" /\ k.waitQueue[u] \in Thread =>
         pc[u] = "join" /\ joinThread[u] = k.waitQueue[u]

StacksOK ==
  /\ k.current # Null => sp = k.current
  /\ k.current = Null => stack[sp] = "external" \/ (stack[sp] = "live" /\ stray = sp)
  /\ \A t \in Thread :
       IF k.state[t] = "Disabled"
       THEN stack[t] = "live" => stray = t
       ELSE /\ stack[t] = IF ownsStack[t] THEN "live" ELSE "external"
            /\ k.state[t] = "None" => ~ownsStack[t]
  /\ stray # Null => k.state[stray] = "Disabled"

CleanNow == \E R, W : CleanKernel(k, R, W)

CleanInv == IInv /\ JoinsOK /\ StacksOK /\ CleanNow

\* What every step does: keep the rest of the invariant, and move as the
\* abstract scheduler does.
Stepped ==
  /\ JoinsOK' /\ StacksOK' /\ CleanNow'
  /\ Ideal!Next \/ UNCHANGED Ideal!vars

\* What the kernel is, in a state and in the next one.
LEMMA KernelTypes ==
  ASSUME NEW s, NEW R, NEW W, CleanKernel(s, R, W)
  PROVE  /\ s.state \in [Thread -> State] /\ s.priority \in [Thread -> Priority]
         /\ s.waitQueue \in [Thread -> AnyQueue \cup {Null}]
         /\ s.current \in Thread \cup {Null}
         /\ R \in [Priority -> Seq(Thread)] /\ W \in [AnyQueue -> Seq(Thread)]
BY DEF CleanKernel, KernelOK, Kernel, Pointer, RunsAre, WaitsAre

LEMMA PassedTo ==
  ASSUME NEW d, NEW R, NEW S, NEW leaver, NEW R2, NEW W, CleanKernel(d, R2, W),
         Passed(R, S, leaver, R2, d.current, d.cpu)
  PROVE  /\ d.cpu \in {"run", "idle"} /\ PhaseOf(d) = d.cpu
         /\ Passed(R, S, leaver, R2, d.current, PhaseOf(d))
         /\ d.current = Null => leaver = Null
<1>1. d.cpu \in {"run", "idle"}
  BY DEF Passed
<1>2. PhaseOf(d) = d.cpu
  BY <1>1 DEF PhaseOf
<1>3. d.cpu = "run" => d.current # Null
  BY DEF CleanKernel, CurrentOK, Idles
<1>4. d.cpu = "idle" => d.current = leaver
  BY DEF Passed
<1>5. QED BY <1>1, <1>2, <1>3, <1>4

\* The stacks when nothing is destroyed.
LEMMA StacksFrame ==
  ASSUME IInv, StacksOK, UNCHANGED stackVars,
         Switches \/ (UNCHANGED sp /\ k'.current = k.current),
         k'.current = Null => k.current = Null,
         \A t \in Thread : /\ k'.state[t] = "Disabled" <=> k.state[t] = "Disabled"
                           /\ k'.state[t] = "None" => k.state[t] = "None"
  PROVE  StacksOK'
<1>1. stray \in Thread \cup {Null} /\ sp \in Thread
  BY DEF IInv, TypeOK, Pointer
<1>2. /\ k'.current # Null => sp' = k'.current
      /\ k'.current = Null => sp' = sp
  BY DEF Switches, StacksOK
<1>3. stack' = stack /\ ownsStack' = ownsStack /\ stray' = stray
  BY DEF stackVars
<1>4. QED BY <1>1, <1>2, <1>3 DEF StacksOK

\* Those in Join when nobody goes to sleep or exits...
LEMMA JoinsSame ==
  ASSUME JoinsOK, k'.state = k.state, k'.waitQueue = k.waitQueue,
         UNCHANGED <<pc, joinThread>>
  PROVE  JoinsOK'
BY DEF JoinsOK

\* ...and when a thread is woken.
LEMMA JoinsWake ==
  ASSUME NEW R, NEW W, CleanKernel(k, R, W), JoinsOK, NEW t \in Thread,
         k.state[t] = "Waiting", NEW q \in AnyQueue, k.waitQueue[t] = q,
         q \in Thread => k.state[q] = "Exited",
         k'.state = [k.state EXCEPT ![t] = "Running"],
         k'.waitQueue = [k.waitQueue EXCEPT ![t] = Null],
         UNCHANGED <<pc, joinThread>>
  PROVE  JoinsOK'
<1>1. /\ k.state \in [Thread -> State]
      /\ k.waitQueue \in [Thread -> AnyQueue \cup {Null}]
  BY KernelTypes
<1>2. ASSUME NEW u \in Thread, pc[u] = "join"
      PROVE  /\ joinThread[u] \in Thread
             /\ \/ /\ k'.state[u] = "Waiting" /\ k'.waitQueue[u] = joinThread[u]
                   /\ k'.state[joinThread[u]] \notin {"None", "Disabled"}
                \/ k'.state[u] = "Running" /\ k'.state[joinThread[u]] = "Exited"
  BY <1>1, <1>2 DEF JoinsOK
<1>3. ASSUME NEW u \in Thread, k'.state[u] = "Waiting", k'.waitQueue[u] \in Thread
      PROVE  pc[u] = "join" /\ joinThread[u] = k'.waitQueue[u]
  <2>1. u # t
    BY <1>1, <1>3
  <2>2. QED BY <1>1, <1>3, <2>1 DEF JoinsOK
<1>4. QED BY <1>2, <1>3 DEF JoinsOK

\* The running thread sleeps, in Join or elsewhere.
LEMMA SleepStep ==
  ASSUME CleanNow, NEW c \in Thread, Calls(c), NEW q \in AnyQueue, k' = Sleep(k, q)
  PROVE  /\ CleanNow' /\ Ideal!Block(q)
         /\ k'.state = [k.state EXCEPT ![c] = "Waiting"]
         /\ k'.waitQueue = [k.waitQueue EXCEPT ![c] = q]
         /\ k'.current # Null
<1>1. PICK R, W : CleanKernel(k, R, W)
  BY DEF CleanNow
<1>2. k.cpu = "run" /\ c = k.current
  BY DEF Calls
<1>3. PICK V : V = Put(W, q, c)
  OBVIOUS
<1>4. PICK d : d = k'
  OBVIOUS
<1>5. PICK R2 : /\ CleanKernel(d, R2, V)
                /\ Passed(R, R, c, R2, d.current, d.cpu)
                /\ d.state = [k.state EXCEPT ![c] = "Waiting"]
                /\ d.priority = k.priority
                /\ d.waitQueue = [k.waitQueue EXCEPT ![c] = q]
  BY <1>1, <1>2, <1>3, <1>4, SleepIs
<1>6. /\ Passed(R, R, c, R2, d.current, PhaseOf(d))
      /\ d.current = Null => c = Null
  BY <1>5, PassedTo
<1>7. ReadyChains = R /\ WaitChains = W
  BY <1>1, SeenAre
<1>8. ReadyChains' = R2 /\ WaitChains' = V
  BY <1>4, <1>5, SeenNext
<1>9. R \in [Priority -> Seq(Thread)]
  BY <1>1, KernelTypes
<1>10. Ideal!Pass(ReadyChains, k.current)
  BY <1>2, <1>4, <1>6, <1>7, <1>8, <1>9, PassesOn
<1>11. WaitChains' = [WaitChains EXCEPT ![q] = Append(@, k.current)]
  BY <1>2, <1>3, <1>7, <1>8 DEF Put
<1>12. PhaseOf(k) = "run"
  BY <1>2 DEF PhaseOf
<1>13. Ideal!Block(q)
  BY <1>2, <1>4, <1>5, <1>10, <1>11, <1>12 DEF Ideal!Block
<1>14. c # Null
  BY SchedAssumption
<1>15. QED BY <1>4, <1>5, <1>6, <1>13, <1>14 DEF CleanNow
\* The thread that makes a call, among the others.
LEMMA CallerNow ==
  ASSUME IInv, CleanNow, NEW c \in Thread, Calls(c)
  PROVE  /\ k.cpu = "run" /\ c = k.current /\ k.current # Null
         /\ k.state[c] = "Running" /\ pc[c] = "call" /\ PhaseOf(k) = "run"
         /\ k.state \in [Thread -> State] /\ k.priority \in [Thread -> Priority]
         /\ k.waitQueue \in [Thread -> AnyQueue \cup {Null}]
         /\ pc \in [Thread -> PC] /\ joinThread \in [Thread -> Pointer]
         /\ sp \in Thread /\ stray \in Thread \cup {Null}
         /\ stack \in [Thread -> {"external", "live", "freed"}]
         /\ ownsStack \in [Thread -> BOOLEAN]
<1>1. PICK R, W : CleanKernel(k, R, W)
  BY DEF CleanNow
<1>2. k.cpu = "run" /\ c = k.current /\ pc[c] = "call" /\ PhaseOf(k) = "run"
  BY DEF Calls, PhaseOf
<1>3. k.state[c] = "Running" /\ k.current # Null
  BY <1>1, <1>2, CallerIs, SchedAssumption
<1>4. QED BY <1>1, <1>2, <1>3, KernelTypes DEF IInv, TypeOK, Pointer

LEMMA JoinStep ==
  ASSUME CleanInv, NEW c \in Thread, NEW t \in Thread, Join(c, t)
  PROVE  Stepped
<1>1. Calls(c) /\ IInv /\ JoinsOK /\ StacksOK /\ CleanNow
  BY DEF Join, CleanInv
<1>2. /\ c = k.current /\ k.current # Null /\ k.state[c] = "Running"
      /\ pc[c] = "call" /\ k.state \in [Thread -> State]
      /\ k.waitQueue \in [Thread -> AnyQueue \cup {Null}]
      /\ pc \in [Thread -> PC] /\ joinThread \in [Thread -> Pointer]
  BY <1>1, CallerNow
<1>3. t \in AnyQueue /\ Ideal!Queue = AnyQueue
  BY DEF AnyQueue, Ideal!Queue
<1>4. /\ CleanNow' /\ Ideal!Block(t)
      /\ k'.state = [k.state EXCEPT ![c] = "Waiting"]
      /\ k'.waitQueue = [k.waitQueue EXCEPT ![c] = t]
      /\ k'.current # Null
  BY <1>1, <1>3, SleepStep DEF Join
<1>5. /\ t # c /\ k.state[t] \notin {"None", "Disabled"} /\ Switches
      /\ joinThread' = [joinThread EXCEPT ![c] = t]
      /\ pc' = [pc EXCEPT ![c] = "join"] /\ UNCHANGED stackVars
  BY DEF Join, Exists
<1>6. \A u \in Thread : /\ k'.state[u] = "Disabled" <=> k.state[u] = "Disabled"
                        /\ k'.state[u] = "None" => k.state[u] = "None"
  BY <1>2, <1>4
<1>7. StacksOK'
  BY <1>1, <1>4, <1>5, <1>6, StacksFrame
<1>8. ASSUME NEW u \in Thread, pc'[u] = "join"
      PROVE  /\ joinThread'[u] \in Thread
             /\ \/ /\ k'.state[u] = "Waiting" /\ k'.waitQueue[u] = joinThread'[u]
                   /\ k'.state[joinThread'[u]] \notin {"None", "Disabled"}
                \/ k'.state[u] = "Running" /\ k'.state[joinThread'[u]] = "Exited"
  <2>1. CASE u = c
    BY <1>2, <1>4, <1>5, <2>1
  <2>2. CASE u # c
    BY <1>1, <1>2, <1>4, <1>5, <1>8, <2>2 DEF JoinsOK
  <2>3. QED BY <2>1, <2>2
<1>9. ASSUME NEW u \in Thread, k'.state[u] = "Waiting", k'.waitQueue[u] \in Thread
      PROVE  pc'[u] = "join" /\ joinThread'[u] = k'.waitQueue[u]
  BY <1>1, <1>2, <1>4, <1>5, <1>9 DEF JoinsOK
<1>10. JoinsOK'
  BY <1>8, <1>9 DEF JoinsOK
<1>11. QED BY <1>3, <1>4, <1>7, <1>10 DEF Stepped, Ideal!Next

LEMMA SleepOnStep ==
  ASSUME CleanInv, NEW c \in Thread, NEW q \in WaitQueue, SleepOn(c, q)
  PROVE  Stepped
<1>1. Calls(c) /\ IInv /\ JoinsOK /\ StacksOK /\ CleanNow
  BY DEF SleepOn, CleanInv
<1>2. /\ c = k.current /\ k.current # Null /\ k.state[c] = "Running"
      /\ pc[c] = "call" /\ k.state \in [Thread -> State]
      /\ k.waitQueue \in [Thread -> AnyQueue \cup {Null}]
      /\ pc \in [Thread -> PC] /\ joinThread \in [Thread -> Pointer]
  BY <1>1, CallerNow
<1>3. q \in AnyQueue /\ Ideal!Queue = AnyQueue /\ q \notin Thread
  BY SchedAssumption DEF AnyQueue, Ideal!Queue
<1>4. /\ CleanNow' /\ Ideal!Block(q)
      /\ k'.state = [k.state EXCEPT ![c] = "Waiting"]
      /\ k'.waitQueue = [k.waitQueue EXCEPT ![c] = q]
      /\ k'.current # Null
  BY <1>1, <1>3, SleepStep DEF SleepOn
<1>5. /\ Switches /\ joinThread' = joinThread
      /\ pc' = [pc EXCEPT ![c] = "switch"] /\ UNCHANGED stackVars
  BY DEF SleepOn
<1>6. \A u \in Thread : /\ k'.state[u] = "Disabled" <=> k.state[u] = "Disabled"
                        /\ k'.state[u] = "None" => k.state[u] = "None"
  BY <1>2, <1>4
<1>7. StacksOK'
  BY <1>1, <1>4, <1>5, <1>6, StacksFrame
<1>8. ASSUME NEW u \in Thread, pc'[u] = "join"
      PROVE  /\ joinThread'[u] \in Thread
             /\ \/ /\ k'.state[u] = "Waiting" /\ k'.waitQueue[u] = joinThread'[u]
                   /\ k'.state[joinThread'[u]] \notin {"None", "Disabled"}
                \/ k'.state[u] = "Running" /\ k'.state[joinThread'[u]] = "Exited"
  BY <1>1, <1>2, <1>4, <1>5, <1>8 DEF JoinsOK
<1>9. ASSUME NEW u \in Thread, k'.state[u] = "Waiting", k'.waitQueue[u] \in Thread
      PROVE  pc'[u] = "join" /\ joinThread'[u] = k'.waitQueue[u]
  BY <1>1, <1>2, <1>3, <1>4, <1>5, <1>9 DEF JoinsOK
<1>10. JoinsOK'
  BY <1>8, <1>9 DEF JoinsOK
<1>11. QED BY <1>3, <1>4, <1>7, <1>10 DEF Stepped, Ideal!Next

LEMMA YieldStep ==
  ASSUME CleanInv, NEW c \in Thread, YieldTo(c)
  PROVE  Stepped
<1>1. Calls(c) /\ IInv /\ JoinsOK /\ StacksOK /\ CleanNow
  BY DEF YieldTo, CleanInv
<1>2. PICK R, W : CleanKernel(k, R, W)
  BY <1>1 DEF CleanNow
<1>3. /\ k.cpu = "run" /\ c = k.current /\ k.current # Null
      /\ k.state[c] = "Running" /\ pc[c] = "call" /\ PhaseOf(k) = "run"
      /\ k.priority \in [Thread -> Priority] /\ pc \in [Thread -> PC]
  BY <1>1, CallerNow
<1>4. PICK d : d = k'
  OBVIOUS
<1>5. k.runMask # {} /\ d = DispatchAny(k)
  BY <1>3, <1>4 DEF YieldTo, Yield, CurrentRuns
<1>6. PICK S : S = Put(R, k.priority[c], c)
  OBVIOUS
<1>7. PICK R2 : /\ CleanKernel(d, R2, W)
                /\ Passed(R, S, c, R2, d.current, d.cpu)
                /\ d.state = k.state /\ d.priority = k.priority
                /\ d.waitQueue = k.waitQueue
                /\ \E p \in Priority : R[p] # <<>>
  BY <1>2, <1>3, <1>5, <1>6, YieldIs
<1>8. /\ Passed(R, S, c, R2, d.current, PhaseOf(d))
      /\ d.current = Null => c = Null
  BY <1>7, PassedTo
<1>9. ReadyChains = R /\ WaitChains = W
  BY <1>2, SeenAre
<1>10. ReadyChains' = R2 /\ WaitChains' = W
  BY <1>4, <1>7, SeenNext
<1>11. /\ R \in [Priority -> Seq(Thread)] /\ k.priority[c] \in Priority
  BY <1>2, <1>3, KernelTypes
<1>12. S \in [Priority -> Seq(Thread)]
  BY <1>6, <1>11, PutRunIs
<1>13. Ideal!Pass(S, k.current)
  BY <1>3, <1>4, <1>8, <1>9, <1>10, <1>11, <1>12, PassesOn
<1>14. S = [ReadyChains EXCEPT ![k.priority[k.current]] = Append(@, k.current)]
  BY <1>3, <1>6, <1>9 DEF Put
<1>15. Ideal!ReadyPriorities # {}
  BY <1>7, <1>9 DEF Ideal!ReadyPriorities, Ideal!Priority, Priority
<1>16. Ideal!Defer
  BY <1>3, <1>4, <1>7, <1>9, <1>10, <1>13, <1>14, <1>15 DEF Ideal!Defer
<1>17. Switches /\ UNCHANGED stackVars /\ pc' = [pc EXCEPT ![c] = "switch"]
       /\ joinThread' = joinThread
  BY DEF YieldTo
<1>18. StacksOK'
  BY <1>1, <1>3, <1>4, <1>7, <1>8, <1>17, StacksFrame
<1>19. JoinsOK'
  <2>1. k'.state = k.state /\ k'.waitQueue = k.waitQueue
    BY <1>4, <1>7
  <2>2. \A u \in Thread : pc'[u] = "join" => pc[u] = "join"
    BY <1>3, <1>17
  <2>3. \A u \in Thread : k.state[u] = "Waiting" => pc'[u] = pc[u]
    BY <1>3, <1>17
  <2>4. QED BY <1>1, <1>17, <2>1, <2>2, <2>3 DEF JoinsOK
<1>20. QED BY <1>4, <1>7, <1>16, <1>18, <1>19 DEF Stepped, CleanNow, Ideal!Next
LEMMA IdleEndStep ==
  ASSUME CleanInv, IdleEnd
  PROVE  Stepped
<1>1. IInv /\ JoinsOK /\ StacksOK
  BY DEF CleanInv
<1>2. PICK R, W : CleanKernel(k, R, W)
  BY DEF CleanInv, CleanNow
<1>3. PICK d : d = k'
  OBVIOUS
<1>4. PICK R2 : /\ CleanKernel(d, R2, W)
                /\ Passed(R, R, k.current, R2, d.current, d.cpu)
                /\ d.state = k.state /\ d.priority = k.priority
                /\ d.waitQueue = k.waitQueue
                /\ \E p \in Priority : R[p] # <<>>
  <2>1. IdleEnds(k) /\ d = DispatchAny(k)
    BY <1>3 DEF IdleEnd
  <2>2. QED BY <1>2, <2>1, IdleEndIs
<1>5. /\ Passed(R, R, k.current, R2, d.current, PhaseOf(d))
      /\ d.current = Null => k.current = Null
  BY <1>4, PassedTo
<1>6. /\ ReadyChains = R /\ WaitChains = W
      /\ ReadyChains' = R2 /\ WaitChains' = W
      /\ R \in [Priority -> Seq(Thread)]
  BY <1>2, <1>3, <1>4, SeenAre, SeenNext, KernelTypes
<1>7. Ideal!Pass(ReadyChains, k.current)
  BY <1>3, <1>5, <1>6, PassesOn
<1>8. Ideal!ReadyPriorities # {}
  BY <1>4, <1>6 DEF Ideal!ReadyPriorities, Ideal!Priority, Priority
<1>9. PhaseOf(k) = "idle"
  BY DEF IdleEnd, IdleEnds, PhaseOf
<1>10. Ideal!EndIdle
  BY <1>3, <1>4, <1>6, <1>7, <1>8, <1>9 DEF Ideal!EndIdle
<1>11. /\ Switches /\ UNCHANGED stackVars /\ UNCHANGED <<pc, joinThread>>
  BY DEF IdleEnd
<1>12. StacksOK'
  BY <1>1, <1>3, <1>4, <1>5, <1>11, StacksFrame
<1>13. JoinsOK'
  BY <1>1, <1>3, <1>4, <1>11, JoinsSame
<1>14. QED BY <1>3, <1>4, <1>10, <1>12, <1>13 DEF Stepped, CleanNow, Ideal!Next

LEMMA ResumeStep ==
  ASSUME CleanInv, NEW c \in Thread, Resume(c)
  PROVE  Stepped
<1>1. /\ IInv /\ JoinsOK /\ StacksOK
      /\ k' = k /\ c = k.current /\ k.cpu = "run" /\ stack' = FreeStray
      /\ stray' = Null /\ pc' = [pc EXCEPT ![c] = "call"]
      /\ joinThread' = joinThread /\ ownsStack' = ownsStack /\ sp' = sp
  BY DEF CleanInv, Resume
<1>2. PICK R, W : CleanKernel(k, R, W)
  BY DEF CleanInv, CleanNow
<1>3. CleanKernel(k', R, W)
  BY <1>1, <1>2
<1>4. UNCHANGED Ideal!vars
  BY <1>1, <1>2, <1>3, SeenAre, SeenNext DEF Ideal!vars
<1>5. /\ k.state[c] = "Running" /\ c # Null
      /\ stack \in [Thread -> {"external", "live", "freed"}]
      /\ stray \in Thread \cup {Null} /\ sp \in Thread /\ pc \in [Thread -> PC]
  BY <1>1, <1>2, CallerIs, SchedAssumption DEF IInv, TypeOK, Pointer
<1>6. JoinsOK'
  <2>1. \A u \in Thread : pc'[u] = "join" => pc[u] = "join"
    BY <1>1, <1>5
  <2>2. \A u \in Thread : k.state[u] = "Waiting" => pc'[u] = pc[u]
    BY <1>1, <1>5
  <2>3. QED BY <1>1, <2>1, <2>2 DEF JoinsOK
<1>7. \A t \in Thread :
        stack'[t] = IF stray = t THEN "freed" ELSE stack[t]
  BY <1>1, <1>5, SchedAssumption DEF FreeStray
<1>8. StacksOK'
  <2>1. ASSUME NEW t \in Thread
        PROVE  IF k'.state[t] = "Disabled"
               THEN stack'[t] = "live" => stray' = t
               ELSE /\ stack'[t] = IF ownsStack'[t] THEN "live" ELSE "external"
                    /\ k'.state[t] = "None" => ~ownsStack'[t]
    <3>1. CASE k.state[t] = "Disabled"
      <4>1. stack[t] = "live" => stray = t
        BY <1>1, <3>1 DEF StacksOK
      <4>2. stack'[t] # "live"
        BY <1>7, <4>1
      <4>3. QED BY <1>1, <3>1, <4>2
    <3>2. CASE k.state[t] # "Disabled"
      <4>1. stray # t
        BY <1>1, <3>2, SchedAssumption DEF StacksOK
      <4>2. stack'[t] = stack[t]
        BY <1>7, <4>1
      <4>3. /\ stack[t] = IF ownsStack[t] THEN "live" ELSE "external"
            /\ k.state[t] = "None" => ~ownsStack[t]
        BY <1>1, <3>2 DEF StacksOK
      <4>4. QED BY <1>1, <3>2, <4>2, <4>3
    <3>3. QED BY <3>1, <3>2
  <2>2. k'.current # Null /\ sp' = k'.current /\ stray' = Null
    BY <1>1, <1>5 DEF StacksOK
  <2>3. QED BY <2>1, <2>2 DEF StacksOK
<1>9. QED BY <1>3, <1>4, <1>6, <1>8 DEF Stepped, CleanNow

\* A thread is woken, at once or by the loop of WakeupAll.
LEMMA WakeStep ==
  ASSUME IInv, JoinsOK, StacksOK, NEW R, NEW W, CleanKernel(k, R, W),
         NEW q \in AnyQueue, q \in Thread => k.state[q] = "Exited",
         W[q] # <<>>, NEW t \in Thread, t = W[q][1],
         k.state[t] = "Waiting", k.waitQueue[t] = q,
         CleanKernel(k', Put(R, k.priority[t], t), Cut(W, q)),
         k'.state = [k.state EXCEPT ![t] = "Running"],
         k'.priority = k.priority,
         k'.waitQueue = [k.waitQueue EXCEPT ![t] = Null],
         k'.current = k.current, PhaseOf(k') = PhaseOf(k),
         UNCHANGED <<pc, joinThread>>, UNCHANGED stackVars,
         Switches \/ UNCHANGED sp
  PROVE  Stepped
<1>1. /\ ReadyChains = R /\ WaitChains = W
      /\ ReadyChains' = Put(R, k.priority[t], t) /\ WaitChains' = Cut(W, q)
  BY SeenAre, SeenNext
<1>2. Head(W[q]) = t
  <2>1. W[q] \in Seq(Thread)
    BY KernelTypes
  <2>2. QED BY <2>1
<1>3. Ideal!Wake(q)
  BY <1>1, <1>2 DEF Ideal!Wake, Put, Cut
<1>4. Ideal!Next
  BY <1>3 DEF Ideal!Next, Ideal!Queue, AnyQueue
<1>5. JoinsOK'
  BY JoinsWake
<1>6. k.state \in [Thread -> State]
  BY KernelTypes
<1>7. \A u \in Thread : /\ k'.state[u] = "Disabled" <=> k.state[u] = "Disabled"
                        /\ k'.state[u] = "None" => k.state[u] = "None"
  BY <1>6
<1>8. StacksOK'
  BY <1>7, StacksFrame
<1>9. QED BY <1>4, <1>5, <1>8 DEF Stepped, CleanNow

LEMMA WakesNow ==
  ASSUME IInv, CleanNow, Wakes
  PROVE  k.cpu \in {"run", "idle"} /\ (Idles(k) <=> k.cpu = "idle")
BY DEF Wakes, Calls, Idles

LEMMA WakeOneStep ==
  ASSUME CleanInv, NEW q \in WaitQueue, SafeWakeOne(q)
  PROVE  Stepped
<1>1. /\ IInv /\ JoinsOK /\ StacksOK /\ Wakes /\ ~IsEmpty(k.queue[q])
      /\ IdleSafe(<<k.queue[q].head>>)
      /\ UNCHANGED <<pc, joinThread>> /\ UNCHANGED stackVars /\ UNCHANGED sp
  BY DEF CleanInv, SafeWakeOne, WakeOne
<1>2. PICK R, W : CleanKernel(k, R, W)
  BY DEF CleanInv, CleanNow
<1>3. q \in AnyQueue /\ q \notin Thread
  BY SchedAssumption DEF AnyQueue
<1>4. k.cpu \in {"run", "idle"} /\ (Idles(k) <=> k.cpu = "idle")
  BY <1>1, WakesNow DEF CleanInv
<1>5. PICK t, S, V, d : /\ t = k.queue[q].head /\ S = Put(R, k.priority[t], t)
                        /\ V = Cut(W, q) /\ d = k'
  OBVIOUS
<1>6. d = WakeupOne(k, q)
  BY <1>5 DEF SafeWakeOne, WakeOne
<1>7. Idles(k) => Undisturbed(k, t)
  <2>1. IdleSafe(<<t>>)
    BY <1>1, <1>5
  <2>2. Len(<<t>>) = 1 /\ <<t>>[1] = t /\ 1 \in 1..1
    OBVIOUS
  <2>3. QED BY <1>4, <2>1, <2>2 DEF IdleSafe, Peer, Undisturbed
<1>8. /\ CleanKernel(d, S, V)
      /\ W[q] # <<>> /\ t = W[q][1] /\ t \in Thread
      /\ k.state[t] = "Waiting" /\ k.waitQueue[t] = q
      /\ d.state = [k.state EXCEPT ![t] = "Running"]
      /\ d.priority = k.priority
      /\ d.waitQueue = [k.waitQueue EXCEPT ![t] = Null]
      /\ d.cpu = k.cpu /\ d.current = k.current
  <2>1. k.cpu # "wakeall" /\ ~IsEmpty(k.queue[q])
    BY <1>1, <1>4
  <2>2. QED BY <1>2, <1>3, <1>5, <1>6, <1>7, <2>1, WakeIs
<1>9. PhaseOf(d) = PhaseOf(k)
  BY <1>4, <1>8 DEF PhaseOf
<1>10. QED
  <2>1. CleanKernel(k', Put(R, k.priority[t], t), Cut(W, q))
    BY <1>5, <1>8
  <2>2. QED BY <1>1, <1>2, <1>3, <1>5, <1>8, <1>9, <2>1, WakeStep
LEMMA WakeAllStart ==
  ASSUME CleanInv, NEW q \in WaitQueue, SafeWakeAll(q)
  PROVE  Stepped
<1>1. /\ IInv /\ JoinsOK /\ StacksOK /\ Wakes /\ IdleSafe(WaitChain(q))
      /\ k' = WakeupAll(k, q, k.cpu)
      /\ UNCHANGED <<pc, joinThread>> /\ UNCHANGED stackVars /\ UNCHANGED sp
  BY DEF CleanInv, SafeWakeAll, WakeAll
<1>2. PICK R, W : CleanKernel(k, R, W)
  BY DEF CleanInv, CleanNow
<1>3. k.cpu \in {"run", "idle"} /\ (Idles(k) <=> k.cpu = "idle")
  BY <1>1, WakesNow DEF CleanInv
<1>4. ReadyChains = R /\ WaitChains = W /\ WaitChain(q) = W[q]
  BY <1>2, SeenAre DEF AnyQueue
<1>5. Idles(k) => Harmless(k, W[q])
  BY <1>1, <1>3, <1>4 DEF IdleSafe, Peer, Harmless
<1>6. PICK d : d = k'
  OBVIOUS
<1>7. /\ CleanKernel(d, R, W) /\ d.cpu = "wakeall"
      /\ d.walk.queue = q /\ d.walk.after = k.cpu
      /\ d.state = k.state /\ d.priority = k.priority
      /\ d.waitQueue = k.waitQueue /\ d.current = k.current
  <2>1. d = WakeupAll(k, q, k.cpu)
    BY <1>1, <1>6
  <2>2. QED BY <1>2, <1>3, <1>5, <2>1, WakeAllIs
<1>8. PhaseOf(d) = PhaseOf(k)
  BY <1>3, <1>7 DEF PhaseOf
<1>9. UNCHANGED Ideal!vars
  BY <1>4, <1>6, <1>7, <1>8, SeenNext DEF Ideal!vars
<1>10. JoinsOK'
  BY <1>1, <1>6, <1>7, JoinsSame
<1>11. StacksOK'
  BY <1>1, <1>6, <1>7, StacksFrame
<1>12. QED BY <1>6, <1>7, <1>9, <1>10, <1>11 DEF Stepped, CleanNow

LEMMA ExitStep ==
  ASSUME CleanInv, NEW c \in Thread, Exit(c, c)
  PROVE  Stepped
<1>1. /\ IInv /\ JoinsOK /\ StacksOK /\ CleanNow /\ Calls(c)
      /\ pc' = [pc EXCEPT ![c] = "exited"] /\ joinThread' = joinThread
      /\ UNCHANGED stackVars /\ UNCHANGED sp
      /\ k' = WakeupAll([k EXCEPT !.state[c] = "Exited"], c, "dispatch")
  BY DEF CleanInv, Exit
<1>2. PICK R, W : CleanKernel(k, R, W)
  BY DEF CleanInv, CleanNow
<1>3. /\ k.cpu = "run" /\ c = k.current /\ k.current # Null
      /\ k.state[c] = "Running" /\ pc[c] = "call" /\ PhaseOf(k) = "run"
      /\ k.state \in [Thread -> State] /\ pc \in [Thread -> PC]
  BY <1>1, CallerNow
<1>4. PICK d : d = k'
  OBVIOUS
<1>5. /\ CleanKernel(d, R, W) /\ d.cpu = "wakeall"
      /\ d.walk.queue = c /\ d.walk.after = "dispatch"
      /\ d.state = [k.state EXCEPT ![c] = "Exited"]
      /\ d.priority = k.priority
      /\ d.waitQueue = k.waitQueue /\ d.current = k.current
  <2>1. d = WakeupAll([k EXCEPT !.state[c] = "Exited"], c, "dispatch")
    BY <1>1, <1>4
  <2>2. QED BY <1>2, <1>3, <2>1, ExitIs
<1>6. /\ ReadyChains = R /\ WaitChains = W
      /\ ReadyChains' = R /\ WaitChains' = W /\ PhaseOf(d) = "leaving"
  BY <1>2, <1>4, <1>5, SeenAre, SeenNext DEF PhaseOf
<1>7. Ideal!Finish
  BY <1>3, <1>4, <1>5, <1>6 DEF Ideal!Finish
<1>8. \A u \in Thread : /\ k'.state[u] = "Disabled" <=> k.state[u] = "Disabled"
                        /\ k'.state[u] = "None" => k.state[u] = "None"
  BY <1>3, <1>4, <1>5
<1>9. StacksOK'
  BY <1>1, <1>4, <1>5, <1>8, StacksFrame
<1>10. ASSUME NEW u \in Thread, pc'[u] = "join"
       PROVE  /\ joinThread'[u] \in Thread
              /\ \/ /\ k'.state[u] = "Waiting" /\ k'.waitQueue[u] = joinThread'[u]
                    /\ k'.state[joinThread'[u]] \notin {"None", "Disabled"}
                 \/ k'.state[u] = "Running" /\ k'.state[joinThread'[u]] = "Exited"
  BY <1>1, <1>3, <1>4, <1>5, <1>10 DEF JoinsOK
<1>11. ASSUME NEW u \in Thread, k'.state[u] = "Waiting", k'.waitQueue[u] \in Thread
       PROVE  pc'[u] = "join" /\ joinThread'[u] = k'.waitQueue[u]
  BY <1>1, <1>3, <1>4, <1>5, <1>11 DEF JoinsOK
<1>12. JoinsOK'
  BY <1>10, <1>11 DEF JoinsOK
<1>13. QED BY <1>4, <1>5, <1>7, <1>9, <1>12 DEF Stepped, CleanNow, Ideal!Next

\* The loop of WakeupAll: a thread, its end, and the end of an exit.
LEMMA WalkStep ==
  ASSUME CleanInv, WakeAllStep
  PROVE  Stepped
<1>1. /\ IInv /\ JoinsOK /\ StacksOK /\ k.cpu = "wakeall"
      /\ k' = WakeupAllStep(k) /\ Switches
      /\ UNCHANGED <<pc, joinThread>> /\ UNCHANGED stackVars
  BY DEF CleanInv, WakeAllStep
<1>2. PICK R, W : CleanKernel(k, R, W)
  BY DEF CleanInv, CleanNow
<1>3. PICK d, t, q : d = k' /\ t = k.walk.thread /\ q = k.walk.queue
  OBVIOUS
<1>4. ReadyChains = R /\ WaitChains = W /\ R \in [Priority -> Seq(Thread)]
  BY <1>2, SeenAre, KernelTypes
<1>5. CASE t # Null
  <2>1. PICK S, V : S = Put(R, k.priority[t], t) /\ V = Cut(W, q)
    OBVIOUS
  <2>2. d = WakeupAllNext(k)
    BY <1>1, <1>3, <1>5 DEF WakeupAllStep
  <2>3. /\ CleanKernel(d, S, V) /\ q \in AnyQueue
        /\ W[q] # <<>> /\ t = W[q][1] /\ t \in Thread
        /\ k.state[t] = "Waiting" /\ k.waitQueue[t] = q
        /\ d.state = [k.state EXCEPT ![t] = "Running"]
        /\ d.priority = k.priority
        /\ d.waitQueue = [k.waitQueue EXCEPT ![t] = Null]
        /\ d.cpu = k.cpu /\ d.current = k.current
        /\ d.walk.queue = q /\ d.walk.after = k.walk.after
    BY <1>1, <1>2, <1>3, <1>5, <2>1, <2>2, NextIs
  <2>4. PhaseOf(d) = PhaseOf(k)
    BY <2>3 DEF PhaseOf
  <2>5. q \in Thread => k.state[q] = "Exited"
    <3>1. q \in IF Leaves(k) THEN {k.current} ELSE WaitQueue
      BY <1>1, <1>2, <1>3 DEF CleanKernel, WalkOK
    <3>2. Leaves(k) => k.state[k.current] = "Exited"
      BY <1>2 DEF CleanKernel, CurrentOK, Idles, Leaves
    <3>3. QED BY <3>1, <3>2, SchedAssumption
  <2>6. CleanKernel(k', Put(R, k.priority[t], t), Cut(W, q))
    BY <1>3, <2>1, <2>3
  <2>7. QED BY <1>1, <1>2, <1>3, <2>3, <2>4, <2>5, <2>6, WakeStep
<1>6. CASE t = Null /\ ~Leaves(k)
  <2>1. d = WakeupAllEnd(k)
    BY <1>1, <1>3, <1>6 DEF WakeupAllStep
  <2>2. /\ CleanKernel(d, R, W) /\ d.cpu = k.walk.after
        /\ d.state = k.state /\ d.priority = k.priority
        /\ d.waitQueue = k.waitQueue /\ d.current = k.current
    BY <1>1, <1>2, <1>3, <1>6, <2>1, EndIs
  <2>3. PhaseOf(d) = PhaseOf(k)
    <3>1. k.walk.after \in {"run", "idle"}
      BY <1>1, <1>2, <1>6 DEF CleanKernel, KernelOK, Kernel, WalkMatchesCpu, Leaves
    <3>2. QED BY <1>1, <2>2, <3>1 DEF PhaseOf
  <2>4. UNCHANGED Ideal!vars
    BY <1>3, <1>4, <2>2, <2>3, SeenNext DEF Ideal!vars
  <2>5. JoinsOK'
    BY <1>1, <1>3, <2>2, JoinsSame
  <2>6. StacksOK'
    BY <1>1, <1>3, <2>2, StacksFrame
  <2>7. QED BY <1>3, <2>2, <2>4, <2>5, <2>6 DEF Stepped, CleanNow
<1>7. CASE t = Null /\ Leaves(k)
  <2>1. d = WakeupAllEnd(k)
    BY <1>1, <1>3, <1>7 DEF WakeupAllStep
  <2>2. PICK R2 : /\ CleanKernel(d, R2, W)
                  /\ Passed(R, R, k.current, R2, d.current, d.cpu)
                  /\ d.state = k.state /\ d.priority = k.priority
                  /\ d.waitQueue = k.waitQueue /\ W[k.current] = <<>>
    BY <1>1, <1>2, <1>3, <1>7, <2>1, LeaveIs
  <2>3. /\ Passed(R, R, k.current, R2, d.current, PhaseOf(d))
        /\ d.current = Null => k.current = Null
    BY <2>2, PassedTo
  <2>4. ReadyChains' = R2 /\ WaitChains' = W
    BY <1>3, <2>2, SeenNext
  <2>5. Ideal!Pass(ReadyChains, k.current)
    BY <1>3, <1>4, <2>3, <2>4, PassesOn
  <2>6. PhaseOf(k) = "leaving"
    BY <1>7 DEF PhaseOf, Leaves
  <2>7. Ideal!Leave
    BY <1>3, <1>4, <2>2, <2>4, <2>5, <2>6 DEF Ideal!Leave
  <2>8. JoinsOK'
    BY <1>1, <1>3, <2>2, JoinsSame
  <2>9. StacksOK'
    BY <1>1, <1>3, <2>2, <2>3, StacksFrame
  <2>10. QED BY <1>3, <2>2, <2>7, <2>8, <2>9 DEF Stepped, CleanNow, Ideal!Next
<1>8. QED BY <1>5, <1>6, <1>7
\* A thread that nobody joins has nobody on its queue.
LEMMA NobodyJoins ==
  ASSUME JoinsOK, NEW R, NEW W, CleanKernel(k, R, W), NEW t \in Thread, ~Joined(t)
  PROVE  W[t] = <<>>
<1> SUFFICES ASSUME W[t] # <<>> PROVE FALSE
  OBVIOUS
<1>1. /\ t \in AnyQueue /\ W[t] \in Seq(Thread)
      /\ \A u \in Thread :
           In(u, W[t]) => k.state[u] = "Waiting" /\ k.waitQueue[u] = t
  BY DEF AnyQueue, CleanKernel, WaitsAre
<1>2. PICK u : u = W[t][1]
  OBVIOUS
<1>3. 1 \in 1..Len(W[t]) /\ u \in Thread
  BY <1>1, <1>2
<1>4. In(u, W[t])
  BY <1>2, <1>3 DEF In
<1>5. pc[u] = "join" /\ joinThread[u] = t
  BY <1>1, <1>3, <1>4 DEF JoinsOK
<1>6. QED BY <1>3, <1>5 DEF Joined

LEMMA StrayFreed ==
  ASSUME IInv
  PROVE  \A t \in Thread : FreeStray[t] = IF stray = t THEN "freed" ELSE stack[t]
BY SchedAssumption DEF IInv, TypeOK, FreeStray, Pointer

LEMMA DestroyStep ==
  ASSUME CleanInv, NEW c \in Thread, NEW t \in Thread, CleanDestroy(c, t)
  PROVE  Stepped
<1>1. /\ IInv /\ JoinsOK /\ StacksOK /\ CleanNow /\ Calls(c) /\ t # c
      /\ k.state[t] = "Exited" /\ ~Joined(t)
      /\ k' = [k EXCEPT !.state[t] = "Disabled"]
      /\ stack' = IF ownsStack[t] THEN [FreeStray EXCEPT ![t] = "freed"]
                                  ELSE FreeStray
      /\ stray' = Null /\ UNCHANGED <<pc, joinThread, ownsStack, sp>>
  BY DEF CleanInv, CleanDestroy, Destroy
<1>2. PICK R, W : CleanKernel(k, R, W)
  BY DEF CleanInv, CleanNow
<1>3. /\ k.cpu = "run" /\ c = k.current /\ k.current # Null
      /\ k.state[c] = "Running" /\ PhaseOf(k) = "run"
      /\ k.state \in [Thread -> State] /\ pc \in [Thread -> PC]
      /\ stack \in [Thread -> {"external", "live", "freed"}]
      /\ sp \in Thread
  BY <1>1, CallerNow
<1>4. PICK d : d = k'
  OBVIOUS
<1>5. /\ CleanKernel(d, R, W)
      /\ d.state = [k.state EXCEPT ![t] = "Disabled"]
      /\ d.priority = k.priority /\ d.waitQueue = k.waitQueue
      /\ d.cpu = k.cpu /\ d.current = k.current
  <2>1. d = WithState(k, t, "Disabled")
    BY <1>1, <1>4 DEF WithState
  <2>2. t # k.current
    BY <1>1, <1>3
  <2>3. QED BY <1>1, <1>2, <1>3, <2>1, <2>2, DestroyIs
<1>6. /\ ReadyChains = R /\ WaitChains = W
      /\ ReadyChains' = R /\ WaitChains' = W /\ PhaseOf(d) = "run"
  BY <1>2, <1>3, <1>4, <1>5, SeenAre, SeenNext DEF PhaseOf
<1>7. W[t] = <<>>
  BY <1>1, <1>2, NobodyJoins
<1>8. Ideal!Retire(t)
  BY <1>1, <1>3, <1>4, <1>5, <1>6, <1>7 DEF Ideal!Retire
<1>9. JoinsOK'
  BY <1>1, <1>3, <1>4, <1>5 DEF JoinsOK, Joined
<1>10. \A u \in Thread :
         stack'[u] = IF stray = u \/ (u = t /\ ownsStack[t]) THEN "freed"
                     ELSE stack[u]
  <2>1. FreeStray \in [Thread -> {"external", "live", "freed"}]
    BY <1>1, FreeStrayOK, Parts
  <2>2. QED BY <1>1, <2>1, StrayFreed
<1>11. StacksOK'
  <2>1. ASSUME NEW u \in Thread
        PROVE  IF k'.state[u] = "Disabled"
               THEN stack'[u] = "live" => stray' = u
               ELSE /\ stack'[u] = IF ownsStack'[u] THEN "live" ELSE "external"
                    /\ k'.state[u] = "None" => ~ownsStack'[u]
    <3>1. stack[t] = IF ownsStack[t] THEN "live" ELSE "external"
      BY <1>1 DEF StacksOK
    <3>2. CASE u = t
      BY <1>3, <1>4, <1>5, <1>10, <3>1, <3>2
    <3>3. CASE u # t
      BY <1>1, <1>3, <1>4, <1>5, <1>10, <3>3, SchedAssumption DEF StacksOK
    <3>4. QED BY <3>2, <3>3
  <2>2. k'.current # Null /\ sp' = k'.current /\ stray' = Null
    BY <1>1, <1>3, <1>4, <1>5 DEF StacksOK
  <2>3. QED BY <2>1, <2>2 DEF StacksOK
<1>12. QED BY <1>4, <1>5, <1>8, <1>9, <1>11 DEF Stepped, CleanNow, Ideal!Next

LEMMA DestroySelfStep ==
  ASSUME CleanInv, NEW c \in Thread, ~Joined(c), DestroySelf(c)
  PROVE  Stepped
<1>1. /\ IInv /\ JoinsOK /\ StacksOK /\ CleanNow /\ Calls(c)
      /\ k' = DispatchAny([k EXCEPT !.state[c] = "Disabled", !.current = Null])
      /\ stack' = FreeStray
      /\ stray' = IF ownsStack[c] THEN c ELSE Null
      /\ ownsStack' = [ownsStack EXCEPT ![c] = FALSE]
      /\ pc' = [pc EXCEPT ![c] = "deleted"]
      /\ Switches /\ joinThread' = joinThread
  BY DEF CleanInv, DestroySelf
<1>2. PICK R, W : CleanKernel(k, R, W)
  BY DEF CleanInv, CleanNow
<1>3. /\ k.cpu = "run" /\ c = k.current /\ k.current # Null
      /\ k.state[c] = "Running" /\ PhaseOf(k) = "run" /\ pc[c] = "call"
      /\ k.state \in [Thread -> State] /\ pc \in [Thread -> PC]
      /\ ownsStack \in [Thread -> BOOLEAN] /\ sp \in Thread
  BY <1>1, CallerNow
<1>4. PICK d : d = k'
  OBVIOUS
<1>5. PICK R2 : /\ CleanKernel(d, R2, W)
                /\ Passed(R, R, Null, R2, d.current, d.cpu)
                /\ d.state = [k.state EXCEPT ![c] = "Disabled"]
                /\ d.priority = k.priority /\ d.waitQueue = k.waitQueue
  <2>1. d = DispatchAny(WithoutCaller(k, c))
    BY <1>1, <1>4 DEF WithoutCaller
  <2>2. QED BY <1>2, <1>3, <2>1, DestroySelfIs
<1>6. Passed(R, R, Null, R2, d.current, PhaseOf(d))
  BY <1>5, PassedTo
<1>7. /\ ReadyChains = R /\ WaitChains = W
      /\ ReadyChains' = R2 /\ WaitChains' = W
      /\ R \in [Priority -> Seq(Thread)]
  BY <1>2, <1>4, <1>5, SeenAre, SeenNext, KernelTypes
<1>8. W[c] = <<>>
  BY <1>1, <1>2, NobodyJoins
<1>9. Ideal!Pass(ReadyChains, Null)
  BY <1>4, <1>6, <1>7, PassesOn
<1>10. Ideal!RetireSelf
  BY <1>3, <1>4, <1>5, <1>7, <1>8, <1>9 DEF Ideal!RetireSelf
<1>11. JoinsOK'
  <2>1. ASSUME NEW u \in Thread, pc'[u] = "join"
        PROVE  /\ joinThread'[u] \in Thread
               /\ \/ /\ k'.state[u] = "Waiting" /\ k'.waitQueue[u] = joinThread'[u]
                     /\ k'.state[joinThread'[u]] \notin {"None", "Disabled"}
                  \/ k'.state[u] = "Running" /\ k'.state[joinThread'[u]] = "Exited"
    <3>1. u # c /\ pc[u] = "join" /\ joinThread[u] # c
      BY <1>1, <1>3, <2>1 DEF Joined
    <3>2. joinThread'[u] = joinThread[u] /\ k'.waitQueue[u] = k.waitQueue[u]
      BY <1>1, <1>4, <1>5
    <3>3. JoinsOK /\ k'.state = [k.state EXCEPT ![c] = "Disabled"]
      BY <1>1, <1>4, <1>5
    <3>4. QED BY <1>3, <3>1, <3>2, <3>3 DEF JoinsOK
  <2>2. ASSUME NEW u \in Thread, k'.state[u] = "Waiting", k'.waitQueue[u] \in Thread
        PROVE  pc'[u] = "join" /\ joinThread'[u] = k'.waitQueue[u]
    <3>1. u # c /\ k.state[u] = "Waiting" /\ k.waitQueue[u] \in Thread
      BY <1>3, <1>4, <1>5, <2>2
    <3>2. /\ JoinsOK /\ pc'[u] = pc[u] /\ joinThread' = joinThread
          /\ k'.waitQueue = k.waitQueue
      BY <1>1, <1>3, <1>4, <1>5, <3>1
    <3>3. QED BY <3>1, <3>2 DEF JoinsOK
  <2>3. QED BY <2>1, <2>2 DEF JoinsOK
<1>12. \A u \in Thread : stack'[u] = IF stray = u THEN "freed" ELSE stack[u]
  BY <1>1, StrayFreed
<1>13. StacksOK'
  <2>1. stray # c /\ stack[c] = IF ownsStack[c] THEN "live" ELSE "external"
    BY <1>1, <1>3, SchedAssumption DEF StacksOK
  <2>2. ASSUME NEW u \in Thread
        PROVE  IF k'.state[u] = "Disabled"
               THEN stack'[u] = "live" => stray' = u
               ELSE /\ stack'[u] = IF ownsStack'[u] THEN "live" ELSE "external"
                    /\ k'.state[u] = "None" => ~ownsStack'[u]
    <3>1. CASE u = c
      BY <1>1, <1>3, <1>4, <1>5, <1>12, <2>1, <3>1
    <3>2. CASE u # c
      <4>1. k'.state[u] = k.state[u] /\ ownsStack'[u] = ownsStack[u]
        BY <1>1, <1>3, <1>4, <1>5, <3>2
      <4>2. CASE k.state[u] = "Disabled"
        BY <1>1, <1>12, <4>1, <4>2 DEF StacksOK
      <4>3. CASE k.state[u] # "Disabled"
        <5>1. stack'[u] = stack[u]
          BY <1>1, <1>12, <4>3, SchedAssumption DEF StacksOK
        <5>2. QED BY <1>1, <4>1, <4>3, <5>1 DEF StacksOK
      <4>4. QED BY <4>2, <4>3
    <3>3. QED BY <3>1, <3>2
  <2>3. k'.current # Null => sp' = k'.current
    BY <1>1 DEF Switches
  <2>4. k'.current = Null =>
          stack'[sp'] = "external" \/ (stack'[sp'] = "live" /\ stray' = sp')
    <3>1. sp = c
      BY <1>1, <1>3 DEF StacksOK
    <3>2. k'.current = Null => sp' = c
      BY <1>1, <3>1 DEF Switches
    <3>3. stack'[c] = stack[c]
      BY <1>12, <2>1
    <3>4. QED BY <1>1, <2>1, <3>2, <3>3
  <2>5. stray' # Null => k'.state[stray'] = "Disabled"
    BY <1>1, <1>3, <1>4, <1>5
  <2>6. QED BY <2>2, <2>3, <2>4, <2>5 DEF StacksOK
<1>14. QED BY <1>4, <1>5, <1>10, <1>11, <1>13 DEF Stepped, CleanNow, Ideal!Next
LEMMA CreateStep ==
  ASSUME CleanInv, NEW c \in Thread, NEW t \in Thread, Create(c, t)
  PROVE  Stepped
<1>1. /\ IInv /\ JoinsOK /\ StacksOK /\ CleanNow /\ Calls(c)
      /\ k.state[t] = "None"
      /\ stack' = [stack EXCEPT ![t] = IF t \in HeapStack THEN "live" ELSE @]
      /\ ownsStack' = [ownsStack EXCEPT ![t] = t \in HeapStack]
      /\ UNCHANGED <<joinThread, stray, pc, sp>>
  BY DEF CleanInv, Create
<1>2. PICK R, W : CleanKernel(k, R, W)
  BY DEF CleanInv, CleanNow
<1>3. /\ k.cpu = "run" /\ c = k.current /\ k.current # Null
      /\ k.state[c] = "Running" /\ PhaseOf(k) = "run"
      /\ k.state \in [Thread -> State] /\ k.priority \in [Thread -> Priority]
      /\ pc \in [Thread -> PC] /\ joinThread \in [Thread -> Pointer]
      /\ stack \in [Thread -> {"external", "live", "freed"}]
      /\ ownsStack \in [Thread -> BOOLEAN]
      /\ sp \in Thread /\ stray \in Thread \cup {Null}
  BY <1>1, CallerNow
<1>4. PICK d, p : d = k' /\ p = Clamp(RequestedPriority[t])
  OBVIOUS
<1>5. p \in Priority /\ p = Ideal!Least(RequestedPriority[t], MaxPriority)
  <2>1. RequestedPriority[t] \in Nat /\ MaxPriority \in Nat
    BY ThreadAssumption, SchedAssumption
  <2>2. QED BY <1>4, <2>1, ClampOK DEF Clamp, Ideal!Least
<1>6. PICK made : made = WithPriority(WithState(k, t, "Suspended"), t, p)
  OBVIOUS
<1>7. made = [k EXCEPT !.state[t] = "Suspended", !.priority[t] = p]
  BY <1>2, <1>6 DEF WithPriority, WithState, CleanKernel, KernelOK, Kernel
<1>8. d = IF t \in StartSuspended THEN made ELSE Run(made, t)
  <2> DEFINE n == [k EXCEPT !.state[t] = "Suspended",
                            !.priority[t] = Clamp(RequestedPriority[t])]
  <2>1. k' = IF t \in StartSuspended THEN n ELSE Run(n, t)
    BY Zenon DEF Create
  <2>2. made = n
    BY <1>4, <1>7
  <2> HIDE DEF n
  <2>3. QED BY <1>4, <2>1, <2>2
<1>9. ReadyChains = R /\ WaitChains = W
  BY <1>2, SeenAre
<1>10. PICK new : new = IF t \in StartSuspended THEN "Suspended" ELSE "Running"
  OBVIOUS
<1>11. /\ CleanNow' /\ d.state = [k.state EXCEPT ![t] = new]
       /\ d.priority = [k.priority EXCEPT ![t] = p]
       /\ d.waitQueue = k.waitQueue /\ SameCpu(k, d) /\ Ideal!Next
  <2>1. CASE t \in StartSuspended
    <3>1. /\ CleanKernel(made, R, W)
          /\ made.state = [k.state EXCEPT ![t] = "Suspended"]
          /\ made.priority = [k.priority EXCEPT ![t] = p]
          /\ made.waitQueue = k.waitQueue /\ SameCpu(k, made)
      BY <1>1, <1>2, <1>3, <1>5, <1>6, MadeIs
    <3>2. d = made
      BY <1>8, <2>1
    <3>3. ReadyChains' = R /\ WaitChains' = W
      BY <1>4, <3>1, <3>2, SeenNext
    <3>4. PhaseOf(d) = "run" /\ d.current = k.current
      BY <1>3, <3>1, <3>2 DEF SameCpu, PhaseOf
    <3>5. Ideal!Spawn(t)
      BY <1>1, <1>3, <1>4, <1>5, <1>9, <2>1, <3>1, <3>2, <3>3, <3>4
         DEF Ideal!Spawn
    <3>6. QED BY <1>4, <1>10, <2>1, <3>1, <3>2, <3>5 DEF CleanNow, Ideal!Next
  <2>2. CASE t \notin StartSuspended
    <3>1. PICK S : S = Put(R, p, t)
      OBVIOUS
    <3>2. d = Run(made, t)
      BY <1>8, <2>2
    <3>3. /\ CleanKernel(d, S, W)
          /\ d.state = [k.state EXCEPT ![t] = "Running"]
          /\ d.priority = [k.priority EXCEPT ![t] = p]
          /\ d.waitQueue = k.waitQueue /\ SameCpu(k, d)
      BY <1>1, <1>2, <1>3, <1>5, <1>6, <3>1, <3>2, SpawnIs
    <3>4. ReadyChains' = S /\ WaitChains' = W
      BY <1>4, <3>3, SeenNext
    <3>5. PhaseOf(d) = "run" /\ d.current = k.current
      BY <1>3, <3>3 DEF SameCpu, PhaseOf
    <3>6. ReadyChains' = [ReadyChains EXCEPT ![p] = Append(@, t)]
      BY <1>9, <3>1, <3>4 DEF Put
    <3>7. Ideal!Spawn(t)
      BY <1>1, <1>3, <1>4, <1>5, <1>9, <2>2, <3>3, <3>4, <3>5, <3>6
         DEF Ideal!Spawn
    <3>8. QED BY <1>4, <1>10, <2>2, <3>3, <3>7 DEF CleanNow, Ideal!Next
  <2>3. QED BY <2>1, <2>2
<1>12. /\ k'.state = [k.state EXCEPT ![t] = new] /\ k'.waitQueue = k.waitQueue
       /\ k'.current = k.current /\ new \in {"Suspended", "Running"}
       /\ pc' = pc /\ joinThread' = joinThread /\ stray' = stray /\ sp' = sp
  BY <1>1, <1>4, <1>10, <1>11 DEF SameCpu
<1>13. JoinsOK'
  <2>1. \A u \in Thread : pc[u] = "join" => u # t /\ joinThread[u] # t
    BY <1>1 DEF JoinsOK
  <2>2. QED BY <1>1, <1>3, <1>12, <2>1 DEF JoinsOK
<1>14. StacksOK'
  <2>1. ASSUME NEW u \in Thread
        PROVE  IF k'.state[u] = "Disabled"
               THEN stack'[u] = "live" => stray' = u
               ELSE /\ stack'[u] = IF ownsStack'[u] THEN "live" ELSE "external"
                    /\ k'.state[u] = "None" => ~ownsStack'[u]
    <3>1. CASE u = t
      <4>1. stack[t] = "external"
        BY <1>1 DEF StacksOK
      <4>2. QED BY <1>1, <1>3, <1>12, <3>1, <4>1
    <3>2. CASE u # t
      BY <1>1, <1>3, <1>12, <3>2 DEF StacksOK
    <3>3. QED BY <3>1, <3>2
  <2>2. k'.current # Null /\ sp' = k'.current
    BY <1>1, <1>3, <1>12 DEF StacksOK
  <2>3. stray' # Null => k'.state[stray'] = "Disabled"
    <3>1. stray # Null => stray # t /\ k.state[stray] = "Disabled"
      BY <1>1 DEF StacksOK
    <3>2. QED BY <1>3, <1>12, <3>1
  <2>4. QED BY <2>1, <2>2, <2>3 DEF StacksOK
<1>15. QED BY <1>11, <1>13, <1>14 DEF Stepped
-----------------------------------------------------------------------------
\* Every step of a clean client is a step of some client.
LEMMA CleanIsFull == CleanNext => Next
<1> SUFFICES ASSUME CleanNext PROVE Next
  OBVIOUS
<1>1. CASE System
  BY <1>1 DEF Next
<1>2. CASE ThreadCalls
  BY <1>2 DEF ThreadCalls, LivingCalls, CleanDestroy, Next
<1>3. CASE Wakeups
  BY <1>3 DEF Wakeups, SafeWakeOne, SafeWakeAll, Next
<1>4. CASE \E c \in Thread : ~Joined(c) /\ DestroySelf(c)
  BY <1>4 DEF Next
<1>5. QED BY <1>1, <1>2, <1>3, <1>4 DEF CleanNext

\* After SystemInit the main thread runs, and nobody else is there.
LEMMA CleanAtFirst == Init => CleanInv /\ Ideal!Init
<1> SUFFICES ASSUME Init PROVE CleanInv /\ Ideal!Init
  OBVIOUS
<1> DEFINE R == [p \in Priority |-> <<>>]
           W == [q \in AnyQueue |-> <<>>]
<1>1. /\ k = KernelInit(Main, MainPriority) /\ Main \in Thread
      /\ MainPriority \in Priority /\ Main # Null
  BY ThreadAssumption, SchedAssumption DEF Init
<1>2. IInv /\ KernelOK(k)
  BY InitOK DEF IInv
<1>3. /\ k.state = [t \in Thread |-> IF t = Main THEN "Running" ELSE "None"]
      /\ k.priority = [t \in Thread |-> MainPriority]
      /\ k.runQueue = [p \in Priority |-> EmptyList]
      /\ k.queue = [q \in AnyQueue |-> EmptyList]
      /\ k.waitQueue = [t \in Thread |-> Null]
      /\ k.current = Main /\ k.cpu = "run" /\ k.walk.queue = Null
  BY <1>1 DEF KernelInit, NoWalk
<1>4. ASSUME NEW link PROVE Chained(<<>>, Null, link) /\ Holds(<<>>, EmptyList, link)
  BY DEF Chained, Holds, Distinct, EmptyList
<1>5. \A t : ~In(t, <<>>)
  BY DEF In
<1>6. RunsAre(k, R)
  BY <1>3, <1>4, <1>5 DEF RunsAre
<1>7. WaitsAre(k, W)
  <2>1. Null \notin AnyQueue
    BY SchedAssumption DEF AnyQueue
  <2>2. QED BY <1>3, <1>4, <1>5, <2>1 DEF WaitsAre
<1>8. ~Idles(k) /\ ~Leaves(k)
  BY <1>3 DEF Idles, Leaves
<1>9. ReadyAre(k, R)
  BY <1>1, <1>3, <1>5, <1>8 DEF ReadyAre
<1>10. CurrentOK(k, R) /\ WalkOK(k, W)
  BY <1>1, <1>3, <1>8 DEF CurrentOK, WalkOK
<1>11. CleanKernel(k, R, W)
  BY <1>2, <1>3, <1>6, <1>7, <1>9, <1>10 DEF CleanKernel
<1>12. ReadyChains = R /\ WaitChains = W
  BY <1>11, SeenAre
<1>13. JoinsOK /\ StacksOK
  BY <1>1, <1>3, SchedAssumption DEF Init, JoinsOK, StacksOK
<1>14. Ideal!Init
  BY <1>3, <1>12 DEF Ideal!Init, Ideal!Priority, Ideal!Queue, Priority, AnyQueue, PhaseOf
<1>15. QED BY <1>2, <1>11, <1>13, <1>14 DEF CleanInv, CleanNow

\* Every step keeps the invariant, and is one of the abstract scheduler.
LEMMA CleanGoesOn ==
  CleanInv /\ [CleanNext]_vars =>
    CleanInv' /\ (Ideal!Next \/ UNCHANGED Ideal!vars)
<1> SUFFICES ASSUME CleanInv, [CleanNext]_vars
             PROVE  CleanInv' /\ (Ideal!Next \/ UNCHANGED Ideal!vars)
  OBVIOUS
<1>1. IInv'
  BY CleanIsFull, NextOK DEF CleanInv
<1>2. CASE UNCHANGED vars
  BY <1>1, <1>2 DEF vars, listVars, stackVars, CleanInv, JoinsOK, StacksOK, CleanNow,
     Ideal!vars, ReadyChains, WaitChains, ReadyChain, WaitChain
<1>3. CASE CleanNext
  <2>1. Stepped
    <3>1. CASE System
      BY <3>1, WalkStep, IdleEndStep, ResumeStep DEF System
    <3>2. CASE ThreadCalls
      BY <3>2, CreateStep, JoinStep, ExitStep, YieldStep, SleepOnStep, DestroyStep
         DEF ThreadCalls, LivingCalls
    <3>3. CASE Wakeups
      BY <3>3, WakeOneStep, WakeAllStart DEF Wakeups
    <3>4. CASE \E c \in Thread : ~Joined(c) /\ DestroySelf(c)
      BY <3>4, DestroySelfStep
    <3>5. QED BY <1>3, <3>1, <3>2, <3>3, <3>4 DEF CleanNext
  <2>2. QED BY <1>1, <2>1 DEF Stepped, CleanInv
<1>4. QED BY <1>2, <1>3

THEOREM CleanInductive == CleanSpec => []CleanInv
BY CleanAtFirst, CleanGoesOn, PTL DEF CleanSpec

(***************************************************************************)
(* A thread that is Running and does not have the processor is on the run  *)
(* queue of its priority, for any number of threads and any calls of a     *)
(* clean client (Thread.cpp:243-362).                                      *)
(***************************************************************************)
THEOREM NoThreadEverLost == CleanSpec => []NoThreadLost
<1>1. CleanInv => NoThreadLost
  <2> SUFFICES ASSUME CleanInv, NEW t \in Thread,
                      k.state[t] = "Running", t # k.current
               PROVE  \E i \in 1..Len(ReadyChain(k.priority[t])) :
                         ReadyChain(k.priority[t])[i] = t
    BY DEF NoThreadLost
  <2>1. PICK R, W : CleanKernel(k, R, W)
    BY DEF CleanInv, CleanNow
  <2>2. In(t, R[k.priority[t]])
    BY <2>1 DEF CleanKernel, ReadyAre
  <2>3. ReadyChain(k.priority[t]) = R[k.priority[t]]
    BY <2>1, SeenAre, KernelTypes
  <2>4. QED BY <2>2, <2>3 DEF In
<1>2. QED BY <1>1, CleanInductive, PTL

(***************************************************************************)
(* Join comes back to a thread that has exited and is still constructed,   *)
(* so what it returns is that thread's m_result (Thread.cpp:229-236).      *)
(***************************************************************************)
THEOREM JoinAlwaysReturnsAfterExit == CleanSpec => []JoinReturnsAfterExit
<1>1. CleanInv => JoinReturnsAfterExit
  <2> SUFFICES ASSUME CleanInv, k.cpu = "run", k.current # Null,
                      pc[k.current] = "join"
               PROVE  k.state[joinThread[k.current]] = "Exited"
    BY DEF JoinReturnsAfterExit
  <2>1. PICK R, W : CleanKernel(k, R, W)
    BY DEF CleanInv, CleanNow
  <2>2. k.current \in Thread /\ k.state[k.current] = "Running"
    BY <2>1, CallerIs
  <2>3. QED BY <2>2 DEF CleanInv, JoinsOK
<1>2. QED BY <1>1, CleanInductive, PTL

(***************************************************************************)
(* The stack under the processor is never a freed one, not even while the  *)
(* processor idles on the stack of a thread that has deleted itself        *)
(* (Thread.cpp:160-195, 376-382).                                          *)
(***************************************************************************)
THEOREM AlwaysOnLiveStack == CleanSpec => []RunsOnLiveStack
<1>1. CleanInv => RunsOnLiveStack
  <2> SUFFICES ASSUME CleanInv PROVE stack[sp] # "freed"
    BY DEF RunsOnLiveStack
  <2>1. PICK R, W : CleanKernel(k, R, W)
    BY DEF CleanInv, CleanNow
  <2>2. StacksOK
    BY DEF CleanInv
  <2>3. CASE k.current = Null
    BY <2>2, <2>3 DEF StacksOK
  <2>4. CASE k.current # Null
    <3>1. k.current \in Thread /\ sp = k.current
      BY <2>1, <2>2, <2>4, KernelTypes DEF StacksOK
    <3>2. k.state[k.current] # "Disabled"
      BY <2>1, <2>4 DEF CleanKernel, CurrentOK
    <3>3. QED BY <2>2, <3>1, <3>2 DEF StacksOK
  <2>5. QED BY <2>3, <2>4
<1>2. QED BY <1>1, CleanInductive, PTL

(***************************************************************************)
(* The stack of a destroyed thread has been freed, or is the stray one     *)
(* that the next destructor or dispatch frees (Thread.cpp:160-195).        *)
(***************************************************************************)
THEOREM NoStackEverLeaks == CleanSpec => []NoStackLeak
<1>1. CleanInv => NoStackLeak
  BY DEF CleanInv, StacksOK, NoStackLeak
<1>2. QED BY <1>1, CleanInductive, PTL

(***************************************************************************)
(* The pointer-level threads of a clean client are the abstract scheduler: *)
(* strict priorities, first come first served in every queue, and every    *)
(* thread in exactly one place.                                            *)
(***************************************************************************)
THEOREM SchedulerImplemented == CleanSpec => ImplementsScheduler
<1>1. Init => Ideal!Init
  BY CleanAtFirst
<1>2. CleanInv /\ [CleanNext]_vars => [Ideal!Next]_Ideal!vars
  BY CleanGoesOn
<1>3. QED
  BY <1>1, <1>2, CleanInductive, PTL DEF CleanSpec, ImplementsScheduler, Ideal!Spec
=============================================================================
