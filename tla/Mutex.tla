--------------------------------- MODULE Mutex ---------------------------------
(***************************************************************************)
(* rt/Mutex.cpp: Lock, Unlock, TryLock and the destructor of one mutex,    *)
(* used by threads that unlock only what they have locked.  Each call runs *)
(* with interrupts disabled, so that only the sleep in Lock can interleave *)
(* with other threads.                                                     *)
(***************************************************************************)
EXTENDS Coop, FiniteSets

CONSTANTS Recursive,  \* m_recursive
          MaxDepth    \* how often a thread may hold the mutex (a bound)

ASSUME MutexAssumption ==
  /\ Recursive \in BOOLEAN
  /\ MaxDepth \in Nat \ {0}
  /\ Null \notin Thread
  /\ Queue # {}

VARIABLES proc,       \* the processor (see Coop)
          lockCount,  \* m_lock_count
          owner,      \* m_owner_thread
          pc,         \* "call", or asleep in "lock"
          depth,      \* how often each thread has locked and not unlocked
          life,       \* of the object: "alive", "destroyed", or "panic" when
                      \* one of its assertions has failed
          barged      \* history: has a thread ever taken the mutex while one
                      \* that was woken for it had yet to run?

vars == <<proc, lockCount, owner, pc, depth, life, barged>>

\* m_wait_queue
waiters == CHOOSE q \in Queue : TRUE

Init ==
  /\ proc = ProcessorInit
  /\ lockCount = 0
  /\ owner = Null
  /\ pc = [t \in Thread |-> "call"]
  /\ depth = [t \in Thread |-> 0]
  /\ life = "alive"
  /\ barged = FALSE

\* t is the running thread and makes a call.
Calls(t) == life = "alive" /\ proc.current = t /\ pc[t] = "call"

\* A thread that relocks a mutex that is not recursive waits for itself: no
\* client does, and TryLock refuses it.
MayRelock(t) == depth[t] = 0 \/ (Recursive /\ depth[t] < MaxDepth)

\* No thread that was woken for the mutex has yet to run.
NobodyWoken == \A t \in proc.ready : pc[t] # "lock"

Take(t) ==
  /\ lockCount' = lockCount + 1
  /\ owner' = t
  /\ depth' = [depth EXCEPT ![t] = @ + 1]

TakeAtOnce(t) == Take(t) /\ barged' = (barged \/ ~NobodyWoken)

Relocks(t) == Recursive /\ owner = t

\* Mutant: any owner's lock counts as the caller's.
LockAnyOwner(t) ==
  /\ Calls(t) /\ MayRelock(t)
  /\ IF lockCount > 0 /\ ~Recursive
     THEN /\ proc' = SleepOn(proc, waiters)
          /\ pc' = [pc EXCEPT ![t] = "lock"]
          /\ UNCHANGED <<lockCount, owner, depth, barged>>
     ELSE TakeAtOnce(t) /\ UNCHANGED <<proc, pc>>
  /\ UNCHANGED life

Lock(t) ==
  /\ Calls(t) /\ MayRelock(t)
  /\ IF lockCount > 0 /\ ~Relocks(t)
     THEN /\ proc' = SleepOn(proc, waiters)
          /\ pc' = [pc EXCEPT ![t] = "lock"]
          /\ UNCHANGED <<lockCount, owner, depth, barged>>
     ELSE TakeAtOnce(t) /\ UNCHANGED <<proc, pc>>
  /\ UNCHANGED life

\* The thread that comes back from the sleep takes the mutex: it does not look
\* at the count again ("if", not "while").
LockWoken(t) ==
  /\ MayRun(proc, t)
  /\ pc[t] = "lock"
  /\ proc' = Dispatch(proc, t)
  /\ pc' = [pc EXCEPT ![t] = "call"]
  /\ Take(t)
  /\ UNCHANGED <<life, barged>>

TryLock(t) ==
  /\ Calls(t) /\ depth[t] < MaxDepth
  /\ lockCount = 0 \/ Relocks(t)
  /\ TakeAtOnce(t)
  /\ UNCHANGED <<proc, pc, life>>

\* Mutant: nobody is woken.
UnlockNoWake(t) ==
  /\ Calls(t) /\ depth[t] > 0
  /\ lockCount' = lockCount - 1
  /\ depth' = [depth EXCEPT ![t] = @ - 1]
  /\ UNCHANGED <<proc, owner, pc, life, barged>>

\* Mutant: all the locks of the caller are given back at once.
UnlockWhole(t) ==
  /\ Calls(t) /\ depth[t] > 0
  /\ lockCount' = lockCount - depth[t]
  /\ depth' = [depth EXCEPT ![t] = @ - 1]
  /\ proc' = IF lockCount' = 0 THEN WakeOne(proc, waiters) ELSE proc
  /\ UNCHANGED <<owner, pc, life, barged>>

Unlock(t) ==
  /\ Calls(t) /\ depth[t] > 0
  /\ IF lockCount = 0
     THEN life' = "panic" /\ UNCHANGED <<proc, lockCount, depth>>
     ELSE /\ lockCount' = lockCount - 1
          /\ depth' = [depth EXCEPT ![t] = @ - 1]
          /\ proc' = IF lockCount' = 0 THEN WakeOne(proc, waiters) ELSE proc
          /\ UNCHANGED life
  /\ UNCHANGED <<owner, pc, barged>>

\* The mutex is destroyed once nobody holds it or waits for it.
Destroy(t) ==
  /\ Calls(t)
  /\ \A u \in Thread : depth[u] = 0 /\ pc[u] = "call"
  /\ life' = IF lockCount = 0 THEN "destroyed" ELSE "panic"
  /\ UNCHANGED <<proc, lockCount, owner, pc, depth, barged>>

Run(t) ==
  /\ MayRun(proc, t)
  /\ pc[t] = "call"
  /\ proc' = Dispatch(proc, t)
  /\ UNCHANGED <<lockCount, owner, pc, depth, life, barged>>

Yield(t) ==
  /\ Calls(t)
  /\ proc' = YieldNow(proc)
  /\ UNCHANGED <<lockCount, owner, pc, depth, life, barged>>

Next == \E t \in Thread :
          \/ Lock(t) \/ LockWoken(t) \/ TryLock(t) \/ Unlock(t) \/ Destroy(t)
          \/ Run(t) \/ Yield(t)

Spec == Init /\ [][Next]_vars

\* Threads run and yield, and a holder unlocks until it holds the mutex no more.
FairSpec ==
  /\ Spec
  /\ \A t \in Thread : /\ SF_vars(Run(t) \/ LockWoken(t))
                       /\ SF_vars(Yield(t))
                       /\ SF_vars(Unlock(t))
                       /\ SF_vars(Unlock(t) /\ depth[t] = 1)

-----------------------------------------------------------------------------
TypeOK ==
  /\ proc \in Processor
  /\ lockCount \in Nat
  /\ owner \in Thread \cup {Null}
  /\ pc \in [Thread -> {"call", "lock"}]
  /\ depth \in [Thread -> 0..MaxDepth]
  /\ life \in {"alive", "destroyed", "panic"}
  /\ barged \in BOOLEAN

Holders == {t \in Thread : depth[t] > 0}

(***************************************************************************)
(* "Wait for the mutex to be unlocked" (Mutex.cpp:26): no two threads hold *)
(* the mutex.                                                              *)
(***************************************************************************)
MutualExclusion == Cardinality(Holders) <= 1

(***************************************************************************)
(* The only way for a second thread to get in: it is held by one thread,   *)
(* through any recursion and any number of waiters, until some thread      *)
(* takes the mutex ahead of one that was woken for it (Mutex.cpp:21-32).   *)
(* Until then it is the owner's, who is not written when the mutex is      *)
(* unlocked, so that a recursive Lock knows its holder (Mutex.cpp:22).     *)
(***************************************************************************)
ExclusiveUnlessBarged ==
  ~barged => MutualExclusion /\ Holders \subseteq {owner}

\* The locks that were taken and not given back.
Locks == {l \in Thread \X (1..MaxDepth) : l[2] <= depth[l[1]]}

(***************************************************************************)
(* The count is the number of locks that were taken and not given back,    *)
(* whoever they belong to, so that both assertions (Mutex.cpp:14, 38) hold *)
(* even when several threads are in at once.                               *)
(***************************************************************************)
CountMatchesHolders == lockCount = Cardinality(Locks) /\ life # "panic"

\* A Lock that sleeps returns with the mutex (Mutex.cpp:27-32) if nobody barges.
LockReturns ==
  [](~barged) => \A t \in Thread : pc[t] = "lock" ~> depth[t] > 0
=============================================================================
