----------------------------- MODULE ThreadClient -----------------------------
(***************************************************************************)
(* Clients of the Thread class that keep to what its documentation allows, *)
(* and what they get: the abstract scheduler of module Scheduler.          *)
(***************************************************************************)
EXTENDS Thread, Sequences

\* Memory has room for so many Thread objects.
ASSUME ClientAssumption == IsFiniteSet(Thread)

\* The chain of next pointers from head on: its position n, as far as threads
\* go, and the threads at its positions up to the first null pointer.
ChainFrom(head, link) ==
  LET at[n \in 0..Cardinality(Thread)] ==
        IF n = 0 THEN head
        ELSE IF at[n - 1] = Null THEN Null ELSE link[at[n - 1]].next
      length == Cardinality({n \in 1..Cardinality(Thread) : at[n - 1] # Null})
  IN  [n \in 1..length |-> at[n - 1]]

ReadyChain(p) == ChainFrom(k.runQueue[p].head, k.runLink)

\* While WakeupAll empties a queue, the cursor of its loop is the real head.
WaitChain(q) ==
  ChainFrom(IF k.walk.queue = q THEN k.walk.thread ELSE k.queue[q].head,
            k.waitLink)

-----------------------------------------------------------------------------
(***************************************************************************)
(* A thread that idles in dispatchAny and is woken there is put on its run *)
(* queue by the waker and again by dispatchAny.  That is harmless as long  *)
(* as no thread of the same priority is made ready in between.             *)
(***************************************************************************)
Peer(t) == t # k.current /\ k.priority[t] = k.priority[k.current]

IdleSafe(woken) ==
  (k.cpu = "idle" /\ k.current # Null) =>
     \A i \in 1..Len(woken) :
        Peer(woken[i]) => /\ ~CurrentRuns(k)
                          /\ \A j \in 1..i : woken[j] # k.current

SafeWakeOne(q) ==
  /\ ~IsEmpty(k.queue[q])
  /\ IdleSafe(<<k.queue[q].head>>)
  /\ WakeOne(q)

SafeWakeAll(q) == IdleSafe(WaitChain(q)) /\ WakeAll(q)

\* Nobody waits for t in Join, or has been woken there and not yet resumed.
Joined(t) == \E u \in Thread : pc[u] = "join" /\ joinThread[u] = t

\* A thread destroys only exited threads that nobody still joins, or itself.
CleanDestroy(c, t) == k.state[t] = "Exited" /\ ~Joined(t) /\ Destroy(c, t)

LivingCalls ==
  \/ \E c, t \in Thread : Create(c, t) \/ Join(c, t)
  \/ \E c \in Thread :
       \/ Exit(c, c)
       \/ YieldTo(c)
       \/ \E q \in WaitQueue : SleepOn(c, q)

ThreadCalls == LivingCalls \/ \E c, t \in Thread : CleanDestroy(c, t)

Wakeups == \E q \in WaitQueue : SafeWakeOne(q) \/ SafeWakeAll(q)

CleanNext ==
  \/ System
  \/ ThreadCalls
  \/ Wakeups
  \/ \E c \in Thread : ~Joined(c) /\ DestroySelf(c)

CleanSpec == Init /\ [][CleanNext]_vars

(***************************************************************************)
(* Fairness: the processor goes on executing; the idle loop looks at the    *)
(* mask between two interrupts, however many there are; and a thread that  *)
(* gets the processor gives it up some day, as threads that are never      *)
(* preempted must, whatever queues it wakes before.                        *)
(***************************************************************************)
GivesUp(c) == YieldTo(c) \/ Exit(c, c) \/ \E q \in WaitQueue : SleepOn(c, q)

\* Nothing is destroyed, which would end what is waited for.
FairSpec ==
  /\ Init /\ [][System \/ LivingCalls \/ \E q \in WaitQueue : SafeWakeOne(q)]_vars
  /\ WF_vars(System)
  /\ SF_vars(IdleEnd)
  /\ \A c \in Thread : SF_vars(GivesUp(c))

-----------------------------------------------------------------------------
(***************************************************************************)
(* Every thread that is Running and does not have the processor is on the  *)
(* run queue of its priority ("Wake up all threads sleeping on a thread    *)
(* queue", Thread.hpp:78: a woken thread that is on none never runs).      *)
(***************************************************************************)
NoThreadLost ==
  \A t \in Thread :
    k.state[t] = "Running" /\ t # k.current =>
      \E i \in 1..Len(ReadyChain(k.priority[t])) :
         ReadyChain(k.priority[t])[i] = t

(***************************************************************************)
(* A Join that comes back finds its thread Exited, and still constructed,  *)
(* so that the m_result it returns is the thread's (Thread.cpp:229-236).   *)
(***************************************************************************)
JoinReturnsAfterExit ==
  k.cpu = "run" /\ k.current # Null /\ pc[k.current] = "join" =>
    k.state[joinThread[k.current]] = "Exited"

(***************************************************************************)
(* The stack under the processor is never a freed one: in the idle loop    *)
(* that is still the stack of the thread that gave up, even when it has    *)
(* deleted itself (Thread.cpp:160-195, 376-382).                           *)
(***************************************************************************)
RunsOnLiveStack == stack[sp] # "freed"

(***************************************************************************)
(* A destroyed thread's allocated stack is freed, or is the stray one that *)
(* the next destructor or dispatch frees: none is leaked.                  *)
(***************************************************************************)
NoStackLeak ==
  \A t \in Thread :
    k.state[t] = "Disabled" /\ stack[t] = "live" => stray = t

(***************************************************************************)
(* Among threads of one priority nobody starves: a thread made ready gets  *)
(* the processor, although others yield, sleep and are woken meanwhile     *)
(* (the run queues are first in, first out: Thread.cpp:303-306, 350-354).  *)
(***************************************************************************)
ReadyRuns ==
  \A t \in Thread : k.state[t] = "Running" ~> k.current = t

(***************************************************************************)
(* A Join of a thread that has exited comes back (Thread.cpp:211, 230).    *)
(***************************************************************************)
JoinReturns ==
  \A t \in Thread :
    (pc[t] = "join" /\ k.state[joinThread[t]] = "Exited") ~> pc[t] = "call"

(***************************************************************************)
(* The pointer-level thread system of a clean client implements Scheduler. *)
(***************************************************************************)
ReadyChains == [p \in Priority |-> ReadyChain(p)]
WaitChains == [q \in AnyQueue |-> WaitChain(q)]

PhaseOf(s) == IF s.cpu # "wakeall" THEN s.cpu
              ELSE IF s.walk.after = "dispatch" THEN "leaving" ELSE s.walk.after

Ideal == INSTANCE Scheduler WITH
  state <- k.state,
  priority <- k.priority,
  ready <- ReadyChains,
  waiting <- WaitChains,
  current <- k.current,
  phase <- PhaseOf(k)

ImplementsScheduler == Ideal!Spec
=============================================================================
