--------------------------------- MODULE Cond ---------------------------------
(***************************************************************************)
(* rt/Cond.hpp with the Mutex that its callers hold, on the wait queues of *)
(* module Sched, because Cond::Wait puts its caller on a queue without     *)
(* going to sleep.  The threads exist and are ready from the start.        *)
(***************************************************************************)
EXTENDS Sched, FiniteSetsExt

CONSTANTS First,   \* the thread that starts
          cond,    \* m_wait_queue of the condition
          mutex    \* m_wait_queue of the (not recursive) mutex; these two
                   \* are the WaitQueue

VARIABLES k,          \* the scheduler (see Sched)
          lockCount,  \* m_lock_count
          owner,      \* m_owner_thread
          pc,         \* "call", in "lock" or in "wait"
          holds       \* who has come back from Lock or Wait and not unlocked

vars == <<k, lockCount, owner, pc, holds>>

\* Every thread is ready and one of them runs.
AllReady ==
  FoldSet(LAMBDA t, s : Run(s, t), KernelInit(First, 0), Thread \ {First})

Init ==
  /\ k = AllReady
  /\ lockCount = 0
  /\ owner = Null
  /\ pc = [t \in Thread |-> "call"]
  /\ holds = {}

Calls(c) == k.cpu = "run" /\ c = k.current /\ pc[c] = "call"

-----------------------------------------------------------------------------
(* Bodies: from the scheduler s, with interrupts disabled *)

\* Mutant: the lock is counted before the sleep as well as after it.
LockBodyEager(c, s, count, place) ==
  /\ k' = IF count > 0 THEN Sleep(s, mutex) ELSE s
  /\ lockCount' = count + 1
  /\ pc' = IF count > 0 THEN [pc EXCEPT ![c] = place] ELSE pc
  /\ owner' = c

\* Mutex::Lock of a mutex that is not recursive.
LockBody(c, s, count, place) ==
  IF count > 0
  THEN /\ k' = Sleep(s, mutex)
       /\ lockCount' = count
       /\ pc' = [pc EXCEPT ![c] = place]
       /\ UNCHANGED owner
  ELSE /\ k' = s
       /\ lockCount' = 1
       /\ owner' = c
       /\ UNCHANGED pc

Unlocked(s) == IF lockCount = 1 THEN WakeupOne(s, mutex) ELSE s

-----------------------------------------------------------------------------
(* The calls *)

Lock(c) ==
  /\ Calls(c) /\ c \notin holds
  /\ LockBody(c, k, lockCount, "lock")
  /\ holds' = IF lockCount > 0 THEN holds ELSE holds \cup {c}

Unlock(c) ==
  /\ Calls(c) /\ c \in holds
  /\ k' = Unlocked(k)
  /\ lockCount' = lockCount - 1
  /\ holds' = holds \ {c}
  /\ UNCHANGED <<owner, pc>>

\* Wait joins the queue and unlocks; m_wait_queue is only written by Sleep, so
\* that the test for "still on the queue" fails and the sleep is skipped.
Wait(c) ==
  LET s == Unlocked(QueueEnqueue(k, cond, c))
      count == lockCount - 1
  IN  /\ Calls(c) /\ c \in holds
      /\ IF s.waitQueue[c] = cond
         THEN /\ k' = Sleep(s, Null)
              /\ lockCount' = count
              /\ pc' = [pc EXCEPT ![c] = "wait"]
              /\ holds' = holds \ {c}
              /\ UNCHANGED owner
         ELSE /\ LockBody(c, s, count, "lock")
              /\ holds' = IF count > 0 THEN holds \ {c} ELSE holds

Signal(c) ==
  /\ Calls(c)
  /\ ~IsEmpty(k.queue[cond])
  /\ k' = WakeupOne(k, cond)
  /\ UNCHANGED <<lockCount, owner, pc, holds>>

Broadcast(c) ==
  /\ Calls(c)
  /\ k' = WakeupAll(k, cond, "run")
  /\ UNCHANGED <<lockCount, owner, pc, holds>>

WakeAllStep ==
  /\ k.cpu = "wakeall"
  /\ k' = WakeupAllStep(k)
  /\ UNCHANGED <<lockCount, owner, pc, holds>>

YieldTo(c) ==
  /\ Calls(c)
  /\ k.runMask # {}
  /\ k' = Yield(k)
  /\ UNCHANGED <<lockCount, owner, pc, holds>>

\* A thread comes back from its sleep in Lock and takes the mutex, or from one
\* in Wait and calls Lock.
Resume(c) ==
  /\ k.cpu = "run" /\ c = k.current
  /\ pc[c] \in {"lock", "wait"}
  /\ IF pc[c] = "wait" /\ lockCount > 0
     THEN LockBody(c, k, lockCount, "lock") /\ UNCHANGED holds
     ELSE /\ lockCount' = lockCount + 1
          /\ owner' = c
          /\ holds' = holds \cup {c}
          /\ pc' = [pc EXCEPT ![c] = "call"]
          /\ UNCHANGED k
Next ==
  \/ WakeAllStep
  \/ \E c \in Thread :
       \/ Lock(c) \/ Unlock(c)
       \/ Wait(c) \/ Signal(c) \/ Broadcast(c)
       \/ YieldTo(c) \/ Resume(c)

Spec == Init /\ [][Next]_vars

-----------------------------------------------------------------------------
(***************************************************************************)
(* The mutex is never unlocked more often than it was locked (the          *)
(* assertion of Mutex.cpp:38), although threads that never slept on the    *)
(* condition stay linked into its queue and a Signal wakes them out of     *)
(* other sleeps.                                                           *)
(***************************************************************************)
CountMatchesHolders == lockCount = Cardinality(holds)

=============================================================================
