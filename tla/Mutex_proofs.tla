----------------------------- MODULE Mutex_proofs -----------------------------
(***************************************************************************)
(* Until a thread barges, the mutex excludes: for any number of threads,   *)
(* recursive or not, and to any depth of recursion.                        *)
(***************************************************************************)
EXTENDS Mutex, Coop_proofs, FiniteSetTheorems

\* The threads that were woken for the mutex and have yet to run.
Woken == {t \in proc.ready : pc[t] = "lock"}

(***************************************************************************)
(* A thread that is asleep in Lock is on the wait queue or was woken, in   *)
(* one place, and the running thread is not in Lock.                       *)
(***************************************************************************)
PlacesOK ==
  /\ Apart(proc)
  /\ proc.current \in Thread => pc[proc.current] = "call"
  /\ \A i \in 1..Len(proc.asleep[waiters]) : pc[proc.asleep[waiters][i]] = "lock"
  /\ \A t \in Thread : pc[t] = "lock" => depth[t] < MaxDepth

(***************************************************************************)
(* Why exclusion holds: the count is the depth of the one holder, who is   *)
(* the owner, and at most one waiter is woken, and only when the count is  *)
(* zero.                                                                   *)
(***************************************************************************)
Exclusive ==
  /\ \A t \in Thread : depth[t] > 0 => owner = t /\ depth[t] = lockCount
  /\ lockCount > 0 => owner \in Thread /\ depth[owner] = lockCount
  /\ Woken # {} => lockCount = 0 /\ \E t \in Thread : Woken = {t}

MutexInv == TypeOK /\ PlacesOK /\ (~barged => Exclusive)

LEMMA WaitersIsQueue == waiters \in Queue
BY MutexAssumption DEF waiters

LEMMA InitMutex == Init => MutexInv
<1> SUFFICES ASSUME Init PROVE MutexInv
  OBVIOUS
<1>1. proc \in Processor
  BY DEF Init, ProcessorInit, Processor
<1>2. TypeOK
  <2>1. 0 \in 0..MaxDepth
    BY MutexAssumption
  <2>2. QED BY <1>1, <2>1 DEF Init, TypeOK
<1>3. PlacesOK
  BY MutexAssumption, WaitersIsQueue DEF Init, PlacesOK, Apart, ProcessorInit
<1>4. Exclusive
  <2>1. \A t \in Thread : pc[t] = "call" /\ depth[t] = 0
    BY DEF Init
  <2>2. Woken = {}
    BY <2>1 DEF Init, Woken, ProcessorInit
  <2>3. lockCount = 0
    BY DEF Init
  <2>4. QED BY <2>1, <2>2, <2>3 DEF Exclusive
<1>5. QED BY <1>2, <1>3, <1>4 DEF MutexInv

\* Take adds one to the count and to the caller's depth.
LEMMA TakeTypes ==
  ASSUME TypeOK, NEW t \in Thread, depth[t] < MaxDepth, Take(t)
  PROVE  /\ lockCount' \in Nat
         /\ owner' \in Thread \cup {Null}
         /\ depth' \in [Thread -> 0..MaxDepth]
         /\ lockCount' = lockCount + 1
         /\ owner' = t
         /\ \A u \in Thread : depth'[u] = IF u = t THEN depth[t] + 1 ELSE depth[u]
BY MutexAssumption DEF TypeOK, Take

(***************************************************************************)
(* Whoever takes the mutex when nobody else is woken, being the owner or   *)
(* finding it free, is its only holder.                                    *)
(***************************************************************************)
LEMMA TakeExclusive ==
  ASSUME TypeOK, Exclusive, NEW t \in Thread, depth[t] < MaxDepth, Take(t),
         lockCount = 0 \/ owner = t,
         Woken' = {}
  PROVE  Exclusive'
<1>1. /\ lockCount' = lockCount + 1
      /\ owner' = t
      /\ \A u \in Thread : depth'[u] = IF u = t THEN depth[t] + 1 ELSE depth[u]
  BY TakeTypes
<1>2. lockCount \in Nat /\ \A u \in Thread : depth[u] \in Nat
  BY DEF TypeOK
<1>3. \A u \in Thread : u # t => depth[u] = 0
  BY <1>2 DEF Exclusive
<1>4. depth[t] = lockCount
  BY <1>2 DEF Exclusive
<1>5. QED BY <1>1, <1>2, <1>3, <1>4 DEF Exclusive

\* A mutex that somebody takes at once.
LEMMA TakeAtOnceMutex ==
  ASSUME MutexInv, NEW t \in Thread, Calls(t), depth[t] < MaxDepth,
         lockCount = 0 \/ Relocks(t), TakeAtOnce(t), UNCHANGED <<proc, pc, life>>
  PROVE  MutexInv'
<1>1. TypeOK'
  BY TakeTypes DEF MutexInv, TypeOK, TakeAtOnce
<1>2. PlacesOK'
  <2>1. \A u \in Thread : pc'[u] = "lock" => depth'[u] < MaxDepth
    BY TakeTypes DEF MutexInv, PlacesOK, TakeAtOnce, Calls
  <2>2. QED BY <2>1 DEF MutexInv, PlacesOK, Apart
<1>3. ASSUME ~barged' PROVE Exclusive'
  <2>1. ~barged /\ Woken' = {}
    BY <1>3 DEF TakeAtOnce, NobodyWoken, Woken, MutexInv, TypeOK
  <2>2. QED BY <2>1, TakeExclusive DEF MutexInv, TakeAtOnce, Relocks
<1>4. QED BY <1>1, <1>2, <1>3 DEF MutexInv

-----------------------------------------------------------------------------
(* The calls and the processor *)

\* Waiting moves the running thread to the end of the queue.
LEMMA LockSleepsMutex ==
  ASSUME MutexInv, NEW t \in Thread, Calls(t), MayRelock(t),
         lockCount > 0 /\ ~Relocks(t),
         proc' = SleepOn(proc, waiters),
         pc' = [pc EXCEPT ![t] = "lock"],
         UNCHANGED <<lockCount, owner, depth, life, barged>>
  PROVE  MutexInv'
<1>1. /\ TypeOK /\ PlacesOK
      /\ proc \in Processor /\ proc.current = t
      /\ pc \in [Thread -> {"call", "lock"}]
      /\ pc[t] = "call"
  BY DEF MutexInv, TypeOK, Calls
<1>2. TypeOK'
  BY <1>1, ProcessorRoutines, WaitersIsQueue DEF TypeOK
<1>3. depth[t] < MaxDepth
  BY <1>1, MutexAssumption DEF MayRelock, TypeOK
<1>4. PlacesOK'
  <2>1. Apart(proc')
    BY <1>1, SleepOnApart, WaitersIsQueue, MutexAssumption DEF PlacesOK
  <2>2. proc'.current = Null
    BY <1>1 DEF SleepOn, Processor
  <2>3. proc'.asleep[waiters] = Append(proc.asleep[waiters], t)
    BY <1>1, WaitersIsQueue DEF SleepOn, Processor
  <2>4. proc.asleep[waiters] \in Seq(Thread)
    BY <1>1, WaitersIsQueue DEF Processor
  <2>5. ASSUME NEW i \in 1..Len(proc'.asleep[waiters])
        PROVE  pc'[proc'.asleep[waiters][i]] = "lock"
    <3>1. CASE i \in 1..Len(proc.asleep[waiters])
      <4>1. proc'.asleep[waiters][i] = proc.asleep[waiters][i]
        BY <2>3, <2>4, <3>1
      <4>2. proc.asleep[waiters][i] \in Thread
        BY <2>4, <3>1
      <4>3. QED BY <1>1, <3>1, <4>1, <4>2 DEF PlacesOK
    <3>2. CASE i \notin 1..Len(proc.asleep[waiters])
      <4>1. proc'.asleep[waiters][i] = t
        BY <2>3, <2>4, <3>2
      <4>2. QED BY <1>1, <4>1
    <3>3. QED BY <3>1, <3>2
  <2>6. \A u \in Thread : pc'[u] = "lock" => depth'[u] < MaxDepth
    BY <1>1, <1>3 DEF PlacesOK
  <2>7. QED BY <2>1, <2>2, <2>5, <2>6, MutexAssumption DEF PlacesOK
<1>5. Woken' = Woken
  <2>1. proc'.ready = proc.ready /\ t \notin proc.ready
    BY <1>1 DEF SleepOn, Processor, PlacesOK, Apart
  <2>2. proc.ready \subseteq Thread
    BY <1>1 DEF Processor
  <2>3. QED BY <1>1, <2>1, <2>2 DEF Woken
<1>6. QED BY <1>2, <1>4, <1>5 DEF MutexInv, Exclusive

\* The woken thread takes the mutex without a look at the count.
LEMMA LockWokenMutex ==
  ASSUME MutexInv, NEW t \in Thread, LockWoken(t)
  PROVE  MutexInv'
<1>1. /\ TypeOK /\ PlacesOK
      /\ proc \in Processor
      /\ pc \in [Thread -> {"call", "lock"}]
      /\ MayRun(proc, t) /\ proc' = Dispatch(proc, t)
      /\ pc[t] = "lock" /\ pc' = [pc EXCEPT ![t] = "call"]
      /\ Take(t) /\ UNCHANGED <<life, barged>>
  BY DEF MutexInv, TypeOK, LockWoken
<1>2. depth[t] < MaxDepth
  BY <1>1 DEF PlacesOK
<1>3. TypeOK'
  BY <1>1, <1>2, TakeTypes, ProcessorRoutines, MutexAssumption DEF TypeOK
<1>4. /\ proc'.current = t
      /\ proc'.ready = proc.ready \ {t}
      /\ proc'.asleep = proc.asleep
  BY <1>1 DEF Dispatch, Processor
<1>5. PlacesOK'
  <2>1. Apart(proc')
    BY <1>1, DispatchApart DEF PlacesOK
  <2>2. ASSUME NEW i \in 1..Len(proc.asleep[waiters])
        PROVE  pc'[proc.asleep[waiters][i]] = "lock"
    <3>1. proc.asleep[waiters][i] # t
      BY <1>1, WaitersIsQueue DEF PlacesOK, Apart, MayRun
    <3>2. proc.asleep[waiters][i] \in Thread
      BY <1>1, WaitersIsQueue DEF Processor
    <3>3. QED BY <1>1, <3>1, <3>2 DEF PlacesOK
  <2>3. \A u \in Thread : pc'[u] = "lock" => depth'[u] < MaxDepth
    BY <1>1, <1>2, TakeTypes DEF PlacesOK
  <2>4. QED BY <1>1, <1>4, <2>1, <2>2, <2>3 DEF PlacesOK
<1>6. ASSUME ~barged' PROVE Exclusive'
  <2>1. ~barged /\ Exclusive
    BY <1>1, <1>6 DEF MutexInv
  <2>2. t \in Woken
    BY <1>1 DEF Woken, MayRun
  <2>3. lockCount = 0 /\ Woken = {t}
    BY <2>1, <2>2 DEF Exclusive
  <2>4. Woken' = {}
    BY <1>1, <1>4, <2>3 DEF Woken, Processor
  <2>5. QED BY <1>1, <1>2, <2>1, <2>3, <2>4, TakeExclusive
<1>7. QED BY <1>3, <1>5, <1>6 DEF MutexInv

\* The last Unlock wakes one waiter, and nobody else is woken then.
LEMMA UnlockMutex ==
  ASSUME MutexInv, NEW t \in Thread, Unlock(t)
  PROVE  MutexInv'
<1>1. /\ TypeOK /\ PlacesOK
      /\ proc \in Processor
      /\ pc \in [Thread -> {"call", "lock"}]
      /\ depth \in [Thread -> 0..MaxDepth]
      /\ Calls(t) /\ depth[t] > 0 /\ UNCHANGED <<owner, pc, barged>>
  BY DEF MutexInv, TypeOK, Unlock
<1>2. CASE lockCount = 0
  <2>1. UNCHANGED <<proc, lockCount, depth>> /\ life' = "panic"
    BY <1>2 DEF Unlock
  <2>2. TypeOK' BY <1>1, <2>1 DEF TypeOK
  <2>3. PlacesOK' BY <1>1, <2>1 DEF PlacesOK
  <2>4. QED BY <1>1, <2>1, <2>2, <2>3 DEF MutexInv, Exclusive, Woken
<1>3. CASE lockCount # 0
  <2>1. /\ lockCount' = lockCount - 1
        /\ depth' = [depth EXCEPT ![t] = @ - 1]
        /\ proc' = IF lockCount' = 0 THEN WakeOne(proc, waiters) ELSE proc
        /\ UNCHANGED life
    BY <1>3 DEF Unlock
  <2>2. lockCount \in Nat \ {0} /\ lockCount' \in Nat
    BY <1>1, <1>3, <2>1 DEF TypeOK
  <2>3. depth' \in [Thread -> 0..MaxDepth]
    BY <1>1, <2>1, MutexAssumption
  <2>4. proc' \in Processor /\ Apart(proc')
    BY <1>1, <2>1, ProcessorRoutines, WakeOneApart, WaitersIsQueue DEF PlacesOK
  <2>5. TypeOK'
    BY <1>1, <2>1, <2>2, <2>3, <2>4 DEF TypeOK
  <2>6. /\ proc'.current = proc.current
        /\ \A i \in 1..Len(proc'.asleep[waiters]) :
             pc[proc'.asleep[waiters][i]] = "lock"
        /\ \/ proc'.ready = proc.ready
           \/ /\ lockCount' = 0
              /\ \E h \in Thread : proc'.ready = proc.ready \cup {h}
    <3>1. CASE proc' = proc
      BY <1>1, <3>1 DEF PlacesOK
    <3>2. CASE /\ lockCount' = 0
               /\ proc.asleep[waiters] # <<>>
               /\ proc' = WakeOne(proc, waiters)
      <4> DEFINE old == proc.asleep[waiters]
      <4>1. old \in Seq(Thread) /\ old # <<>>
        BY <1>1, <3>2, WaitersIsQueue DEF Processor
      <4>2. /\ proc'.current = proc.current
            /\ proc'.ready = proc.ready \cup {Head(old)}
            /\ proc'.asleep[waiters] = Tail(old)
        BY <1>1, <3>2, WaitersIsQueue DEF WakeOne, Processor
      <4>3. \A i \in 1..Len(Tail(old)) :
              i + 1 \in 1..Len(old) /\ Tail(old)[i] = old[i + 1]
        BY <4>1
      <4>4. Head(old) \in Thread
        BY <4>1
      <4>5. QED BY <1>1, <3>2, <4>2, <4>3, <4>4 DEF PlacesOK
    <3>3. QED BY <2>1, <3>1, <3>2 DEF WakeOne
  <2>7. PlacesOK'
    <3>1. \A u \in Thread : pc'[u] = "lock" => depth'[u] < MaxDepth
      BY <1>1, <2>1, <2>3, MutexAssumption DEF PlacesOK
    <3>2. QED BY <1>1, <2>4, <2>6, <3>1 DEF PlacesOK
  <2>8. ASSUME ~barged' PROVE Exclusive'
    <3>1. Exclusive /\ Woken = {}
      BY <1>1, <2>2, <2>8 DEF MutexInv, Exclusive
    <3>2. owner = t /\ depth[t] = lockCount
      BY <1>1, <3>1 DEF Exclusive
    <3>3. \A u \in Thread : u # t => depth[u] = 0
      BY <1>1, <3>1, <3>2 DEF Exclusive
    <3>4. /\ depth'[t] = lockCount'
          /\ \A u \in Thread : u # t => depth'[u] = 0
      BY <1>1, <2>1, <3>2, <3>3
    <3>5. Woken' # {} => lockCount' = 0 /\ \E h \in Thread : Woken' = {h}
      BY <1>1, <2>6, <3>1 DEF Woken
    <3>6. QED BY <1>1, <2>3, <3>2, <3>4, <3>5 DEF Exclusive
  <2>9. QED BY <2>5, <2>7, <2>8 DEF MutexInv
<1>4. QED BY <1>2, <1>3

\* A thread gets the processor or gives it up, in its own code.
LEMMA RunMutex ==
  ASSUME MutexInv, NEW t \in Thread, Run(t)
  PROVE  MutexInv'
<1>1. /\ TypeOK /\ PlacesOK
      /\ proc \in Processor
      /\ MayRun(proc, t) /\ proc' = Dispatch(proc, t) /\ pc[t] = "call"
      /\ UNCHANGED <<lockCount, owner, pc, depth, life, barged>>
  BY DEF MutexInv, TypeOK, Run
<1>2. TypeOK'
  BY <1>1, ProcessorRoutines, WaitersIsQueue DEF TypeOK
<1>3. /\ proc'.current = t
      /\ proc'.ready = proc.ready \ {t}
      /\ proc'.asleep = proc.asleep
  BY <1>1 DEF Dispatch, Processor
<1>4. PlacesOK'
  BY <1>1, <1>3, DispatchApart DEF PlacesOK
<1>5. Woken' = Woken
  BY <1>1, <1>3 DEF Woken
<1>6. QED BY <1>1, <1>2, <1>4, <1>5 DEF MutexInv, Exclusive

LEMMA YieldMutex ==
  ASSUME MutexInv, NEW t \in Thread, Yield(t)
  PROVE  MutexInv'
<1>1. /\ TypeOK /\ PlacesOK
      /\ proc \in Processor /\ proc.current = t
      /\ proc' = YieldNow(proc) /\ pc[t] = "call"
      /\ UNCHANGED <<lockCount, owner, pc, depth, life, barged>>
  BY DEF MutexInv, TypeOK, Yield, Calls
<1>2. TypeOK'
  BY <1>1, ProcessorRoutines, WaitersIsQueue DEF TypeOK
<1>3. /\ proc'.current = Null
      /\ proc'.ready = proc.ready \cup {t}
      /\ proc'.asleep = proc.asleep
  BY <1>1 DEF YieldNow, Processor
<1>4. PlacesOK'
  BY <1>1, <1>3, YieldNowApart, MutexAssumption DEF PlacesOK
<1>5. Woken' = Woken
  BY <1>1, <1>3 DEF Woken
<1>6. QED BY <1>1, <1>2, <1>4, <1>5 DEF MutexInv, Exclusive

LEMMA DestroyMutex ==
  ASSUME MutexInv, NEW t \in Thread, Destroy(t)
  PROVE  MutexInv'
BY DEF MutexInv, Destroy, TypeOK, PlacesOK, Apart, Exclusive, Woken

LEMMA LockMutex ==
  ASSUME MutexInv, NEW t \in Thread, Lock(t)
  PROVE  MutexInv'
<1>1. lockCount \in Nat /\ depth[t] < MaxDepth
  BY MutexAssumption DEF MutexInv, TypeOK, Lock, MayRelock
<1>2. CASE lockCount > 0 /\ ~Relocks(t)
  BY <1>2, LockSleepsMutex DEF Lock
<1>3. CASE ~(lockCount > 0 /\ ~Relocks(t))
  BY <1>1, <1>3, TakeAtOnceMutex DEF Lock
<1>4. QED BY <1>2, <1>3

LEMMA TryLockMutex ==
  ASSUME MutexInv, NEW t \in Thread, TryLock(t)
  PROVE  MutexInv'
BY TakeAtOnceMutex DEF TryLock

LEMMA StepMutex ==
  ASSUME MutexInv, [Next]_vars
  PROVE  MutexInv'
<1>1. CASE UNCHANGED vars
  BY <1>1 DEF vars, MutexInv, TypeOK, PlacesOK, Apart, Exclusive, Woken
<1>2. ASSUME NEW t \in Thread,
             \/ Lock(t) \/ LockWoken(t) \/ TryLock(t) \/ Unlock(t)
             \/ Destroy(t) \/ Run(t) \/ Yield(t)
      PROVE  MutexInv'
  BY <1>2, LockMutex, LockWokenMutex, TryLockMutex, UnlockMutex, DestroyMutex,
     RunMutex, YieldMutex
<1>3. QED BY <1>1, <1>2 DEF Next

LEMMA InvariantMutex == Spec => []MutexInv
BY InitMutex, StepMutex, PTL DEF Spec

-----------------------------------------------------------------------------
(***************************************************************************)
(* The count, barging or not: every call that takes the mutex adds a lock  *)
(* to Locks and one to the count, and an Unlock takes both away.  So a     *)
(* thread that holds the mutex finds a count above zero, and one that      *)
(* destroys it a count of zero.                                            *)
(***************************************************************************)
CountInv ==
  /\ IsFiniteSet(Locks)
  /\ lockCount = Cardinality(Locks)
  /\ life # "panic"

\* Nobody has locked at the start.
LEMMA InitCount == Init => CountInv
<1> SUFFICES ASSUME Init PROVE CountInv
  OBVIOUS
<1>1. Locks = {}
  BY MutexAssumption DEF Init, Locks
<1>2. QED BY <1>1, FS_EmptySet DEF Init, CountInv

\* Taking the mutex adds one lock.
LEMMA TakeCount ==
  ASSUME TypeOK, CountInv, NEW t \in Thread, depth[t] < MaxDepth, Take(t),
         UNCHANGED life
  PROVE  CountInv'
<1> DEFINE l == <<t, depth[t] + 1>>
<1>1. /\ lockCount' = lockCount + 1
      /\ \A u \in Thread : depth'[u] = IF u = t THEN depth[t] + 1 ELSE depth[u]
  BY TakeTypes
<1>2. depth[t] \in Nat /\ depth[t] + 1 \in 1..MaxDepth
  BY MutexAssumption DEF TypeOK
<1>3. l \notin Locks
  BY <1>2 DEF Locks
<1>4. Locks' = Locks \cup {l}
  <2>1. ASSUME NEW u \in Thread, NEW n \in 1..MaxDepth
        PROVE  n <= depth'[u] <=> n <= depth[u] \/ (u = t /\ n = depth[t] + 1)
    BY <1>1, <1>2
  <2>2. QED BY <1>2, <2>1 DEF Locks
<1>5. IsFiniteSet(Locks') /\ Cardinality(Locks') = Cardinality(Locks) + 1
  BY <1>3, <1>4, FS_AddElement DEF CountInv
<1>6. QED BY <1>1, <1>5 DEF CountInv

\* An Unlock finds a lock to give back, and gives back that one.
LEMMA UnlockCount ==
  ASSUME TypeOK, CountInv, NEW t \in Thread, Unlock(t)
  PROVE  CountInv'
<1> DEFINE l == <<t, depth[t]>>
<1>1. depth \in [Thread -> 0..MaxDepth] /\ depth[t] \in 1..MaxDepth
  BY MutexAssumption DEF TypeOK, Unlock
<1>2. l \in Locks
  BY <1>1 DEF Locks
<1>3. lockCount # 0
  BY <1>2, FS_EmptySet DEF CountInv
<1>4. /\ lockCount' = lockCount - 1
      /\ \A u \in Thread : depth'[u] = IF u = t THEN depth[t] - 1 ELSE depth[u]
      /\ UNCHANGED life
  BY <1>1, <1>3 DEF Unlock
<1>5. Locks' = Locks \ {l}
  <2>1. ASSUME NEW u \in Thread, NEW n \in 1..MaxDepth
        PROVE  n <= depth'[u] <=> n <= depth[u] /\ ~(u = t /\ n = depth[t])
    BY <1>1, <1>4
  <2>2. QED BY <1>1, <2>1 DEF Locks
<1>6. IsFiniteSet(Locks') /\ Cardinality(Locks') = Cardinality(Locks) - 1
  BY <1>2, <1>5, FS_RemoveElement DEF CountInv
<1>7. QED BY <1>4, <1>6 DEF CountInv

\* A mutex that nobody holds is destroyed with a count of zero.
LEMMA DestroyCount ==
  ASSUME TypeOK, CountInv, NEW t \in Thread, Destroy(t)
  PROVE  CountInv'
<1>1. Locks = {}
  BY DEF TypeOK, Destroy, Locks
<1>2. lockCount = 0
  BY <1>1, FS_EmptySet DEF CountInv
<1>3. QED BY <1>2 DEF Destroy, CountInv, Locks

LEMMA StepCount ==
  ASSUME MutexInv, CountInv, [Next]_vars
  PROVE  CountInv'
<1>1. TypeOK
  BY DEF MutexInv
<1>2. ASSUME UNCHANGED <<lockCount, depth, life>> PROVE CountInv'
  BY <1>2 DEF CountInv, Locks
<1>3. CASE UNCHANGED vars
  BY <1>2, <1>3 DEF vars
<1>4. ASSUME NEW t \in Thread, Lock(t) PROVE CountInv'
  <2>1. depth[t] < MaxDepth
    BY <1>1, <1>4, MutexAssumption DEF Lock, MayRelock, TypeOK
  <2>2. QED BY <1>1, <1>2, <1>4, <2>1, TakeCount DEF Lock, TakeAtOnce
<1>5. ASSUME NEW t \in Thread, LockWoken(t) PROVE CountInv'
  BY <1>1, <1>5, TakeCount DEF LockWoken, MutexInv, PlacesOK
<1>6. ASSUME NEW t \in Thread, TryLock(t) PROVE CountInv'
  BY <1>1, <1>6, TakeCount DEF TryLock, TakeAtOnce
<1>7. ASSUME NEW t \in Thread, Unlock(t) \/ Destroy(t) PROVE CountInv'
  BY <1>1, <1>7, UnlockCount, DestroyCount
<1>8. ASSUME NEW t \in Thread, Run(t) \/ Yield(t) PROVE CountInv'
  BY <1>2, <1>8 DEF Run, Yield
<1>9. QED BY <1>3, <1>4, <1>5, <1>6, <1>7, <1>8 DEF Next

-----------------------------------------------------------------------------
(* The results *)

\* The fields keep their types, and a depth its bound, barging or not.
THEOREM MutexTypeCorrect == Spec => []TypeOK
<1>1. MutexInv => TypeOK
  BY DEF MutexInv
<1>2. QED BY <1>1, InvariantMutex, PTL

(***************************************************************************)
(* Two threads hold the mutex only after one of them took it while a       *)
(* thread that had been woken for it had yet to run; until then the holder *)
(* is the owner.                                                           *)
(***************************************************************************)
THEOREM ExclusionUntilBarged == Spec => []ExclusiveUnlessBarged
<1>1. ASSUME MutexInv PROVE ExclusiveUnlessBarged
  <2>1. ASSUME ~barged PROVE Holders \subseteq {owner}
    BY <1>1, <2>1 DEF MutexInv, Exclusive, Holders
  <2>2. ASSUME ~barged PROVE MutualExclusion
    <3>1. Holders = {} \/ Holders = {owner}
      BY <2>1, <2>2
    <3>2. CASE Holders = {}
      <4>1. Cardinality(Holders) = 0
        BY <3>2, FS_EmptySet
      <4>2. QED BY <4>1 DEF MutualExclusion
    <3>3. CASE Holders = {owner}
      <4>1. Cardinality(Holders) = 1
        BY <3>3, FS_Singleton
      <4>2. QED BY <4>1 DEF MutualExclusion
    <3>4. QED BY <3>1, <3>2, <3>3
  <2>3. QED BY <2>1, <2>2 DEF ExclusiveUnlessBarged
<1>2. QED BY <1>1, InvariantMutex, PTL

(***************************************************************************)
(* The count is the number of locks that were taken and not given back,    *)
(* also after a thread barged, and neither assertion of the mutex fails.   *)
(***************************************************************************)
THEOREM CountAlwaysMatches == Spec => []CountMatchesHolders
<1>1. CountInv => CountMatchesHolders
  BY DEF CountInv, CountMatchesHolders
<1>2. MutexInv /\ CountInv /\ [Next]_vars => CountInv'
  BY StepCount
<1>3. QED BY <1>1, <1>2, InitCount, InvariantMutex, PTL DEF Spec
=============================================================================
