----------------------------- MODULE Coop_proofs -----------------------------
(***************************************************************************)
(* What the routines of the processor preserve, for the proofs about the   *)
(* primitives that are built on it.                                        *)
(***************************************************************************)
EXTENDS Coop, TLAPS

\* Every routine of the processor returns a processor.
LEMMA ProcessorRoutines ==
  ASSUME NEW p \in Processor, NEW q \in Queue
  PROVE  /\ p.current \in Thread => SleepOn(p, q) \in Processor
         /\ WakeOne(p, q) \in Processor
         /\ p.current \in Thread => YieldNow(p) \in Processor
         /\ \A t \in Thread : Dispatch(p, t) \in Processor
<1>1. ASSUME p.current \in Thread PROVE SleepOn(p, q) \in Processor
  <2>1. Append(p.asleep[q], p.current) \in Seq(Thread)
    BY <1>1 DEF Processor
  <2>2. QED BY <2>1 DEF SleepOn, Processor
<1>2. WakeOne(p, q) \in Processor
  <2>1. CASE p.asleep[q] = <<>> BY <2>1 DEF WakeOne
  <2>2. CASE p.asleep[q] # <<>>
    <3>1. /\ Head(p.asleep[q]) \in Thread
          /\ Tail(p.asleep[q]) \in Seq(Thread)
      BY <2>2 DEF Processor
    <3>2. QED BY <2>2, <3>1 DEF WakeOne, Processor
  <2>3. QED BY <2>1, <2>2
<1>3. ASSUME p.current \in Thread PROVE YieldNow(p) \in Processor
  BY <1>3 DEF YieldNow, Processor
<1>4. ASSUME NEW t \in Thread PROVE Dispatch(p, t) \in Processor
  BY DEF Dispatch, Processor
<1>5. QED BY <1>1, <1>2, <1>3, <1>4

(***************************************************************************)
(* A thread is in one place: it has the processor, is ready, or is asleep  *)
(* at one position of one queue.                                           *)
(***************************************************************************)
Apart(p) ==
  /\ p.current \notin p.ready
  /\ \A q \in Queue : \A i \in 1..Len(p.asleep[q]) :
       /\ p.asleep[q][i] # p.current
       /\ p.asleep[q][i] \notin p.ready
       /\ \A r \in Queue : \A j \in 1..Len(p.asleep[r]) :
            p.asleep[r][j] = p.asleep[q][i] => r = q /\ j = i

LEMMA SleepOnApart ==
  ASSUME NEW p \in Processor, NEW q \in Queue, Apart(p),
         p.current \in Thread, Null \notin Thread
  PROVE  Apart(SleepOn(p, q))
<1> DEFINE n == SleepOn(p, q)
<1>1. /\ n.current = Null
      /\ n.ready = p.ready
      /\ n.asleep = [p.asleep EXCEPT ![q] = Append(@, p.current)]
  BY DEF SleepOn, Processor
<1>2. p.asleep \in [Queue -> Seq(Thread)] /\ p.ready \in SUBSET Thread
  BY DEF Processor
<1>3. ASSUME NEW r \in Queue, NEW i \in 1..Len(n.asleep[r])
      PROVE  \/ i \in 1..Len(p.asleep[r]) /\ n.asleep[r][i] = p.asleep[r][i]
             \/ r = q /\ i = Len(p.asleep[q]) + 1 /\ n.asleep[r][i] = p.current
  BY <1>1, <1>2
<1> HIDE DEF n
<1>4. ASSUME NEW r \in Queue, NEW i \in 1..Len(n.asleep[r])
      PROVE  n.asleep[r][i] \in Thread /\ n.asleep[r][i] \notin p.ready
  BY <1>2, <1>3 DEF Apart
<1>5. ASSUME NEW r \in Queue, NEW i \in 1..Len(n.asleep[r]),
             NEW u \in Queue, NEW j \in 1..Len(n.asleep[u]),
             n.asleep[u][j] = n.asleep[r][i]
      PROVE  u = r /\ j = i
  <2>1. CASE i \in 1..Len(p.asleep[r]) /\ n.asleep[r][i] = p.asleep[r][i]
    BY <1>3, <1>5, <2>1 DEF Apart
  <2>2. CASE r = q /\ i = Len(p.asleep[q]) + 1 /\ n.asleep[r][i] = p.current
    BY <1>3, <1>5, <2>2 DEF Apart
  <2>3. QED BY <1>3, <2>1, <2>2
<1>6. Apart(n)
  BY <1>1, <1>2, <1>4, <1>5 DEF Apart
<1>7. QED BY <1>6 DEF n

LEMMA WakeOneApart ==
  ASSUME NEW p \in Processor, NEW q \in Queue, Apart(p)
  PROVE  Apart(WakeOne(p, q))
<1>1. CASE p.asleep[q] = <<>>
  BY <1>1 DEF WakeOne
<1>2. CASE p.asleep[q] # <<>>
  <2> DEFINE n == WakeOne(p, q)
             h == p.asleep[q][1]
             old(r, i) == IF r = q THEN i + 1 ELSE i
  <2>1. /\ n.current = p.current
        /\ n.ready = p.ready \cup {h}
        /\ n.asleep = [p.asleep EXCEPT ![q] = Tail(@)]
        /\ 1 \in 1..Len(p.asleep[q])
    BY <1>2 DEF WakeOne, Processor
  <2>2. p.asleep \in [Queue -> Seq(Thread)]
    BY DEF Processor
  <2>3. ASSUME NEW r \in Queue, NEW i \in 1..Len(n.asleep[r])
        PROVE  /\ old(r, i) \in 1..Len(p.asleep[r])
               /\ n.asleep[r][i] = p.asleep[r][old(r, i)]
    BY <1>2, <2>1, <2>2
  <2> HIDE DEF n
  <2>4. n.current \notin n.ready
    BY <2>1 DEF Apart
  <2>5. ASSUME NEW r \in Queue, NEW i \in 1..Len(n.asleep[r])
        PROVE  n.asleep[r][i] # n.current /\ n.asleep[r][i] \notin n.ready
    BY <2>1, <2>3 DEF Apart
  <2>6. ASSUME NEW r \in Queue, NEW i \in 1..Len(n.asleep[r]),
               NEW u \in Queue, NEW j \in 1..Len(n.asleep[u]),
               n.asleep[u][j] = n.asleep[r][i]
        PROVE  u = r /\ j = i
    <3>1. /\ old(r, i) \in 1..Len(p.asleep[r])
          /\ old(u, j) \in 1..Len(p.asleep[u])
          /\ p.asleep[u][old(u, j)] = p.asleep[r][old(r, i)]
      BY <2>3, <2>6
    <3> HIDE DEF old
    <3>2. u = r /\ old(u, j) = old(r, i)
      BY <3>1 DEF Apart
    <3>3. QED BY <3>2 DEF old
  <2>7. Apart(n)
    BY <2>4, <2>5, <2>6 DEF Apart
  <2>8. QED BY <2>7 DEF n
<1>3. QED BY <1>1, <1>2

LEMMA YieldNowApart ==
  ASSUME NEW p \in Processor, Apart(p), p.current \in Thread, Null \notin Thread
  PROVE  Apart(YieldNow(p))
<1>1. /\ p.asleep \in [Queue -> Seq(Thread)]
      /\ p.ready \in SUBSET Thread
  BY DEF Processor
<1>2. /\ YieldNow(p).current = Null
      /\ YieldNow(p).ready = p.ready \cup {p.current}
      /\ YieldNow(p).asleep = p.asleep
  BY DEF YieldNow, Processor
<1>3. \A q \in Queue : \A i \in 1..Len(p.asleep[q]) : p.asleep[q][i] \in Thread
  BY <1>1
<1>4. QED BY <1>1, <1>2, <1>3 DEF Apart

LEMMA DispatchApart ==
  ASSUME NEW p \in Processor, Apart(p), NEW t \in Thread, MayRun(p, t)
  PROVE  Apart(Dispatch(p, t))
<1>1. /\ Dispatch(p, t).current = t
      /\ Dispatch(p, t).ready = p.ready \ {t}
      /\ Dispatch(p, t).asleep = p.asleep
  BY DEF Dispatch, Processor
<1>2. QED BY <1>1 DEF Apart, MayRun
=============================================================================
