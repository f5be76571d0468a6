---------------------------- MODULE Waiting_proofs ----------------------------
(***************************************************************************)
(* What threads wait for, beside the mutex: a message queue, for every     *)
(* size and every use, is a bounded first-in first-out queue.              *)
(***************************************************************************)
EXTENDS Waiting, Coop_proofs, FiniteSetTheorems, SequenceTheorems,
        WellFoundedInduction

-----------------------------------------------------------------------------
(* The ring.                                                               *)

\* Whether a client of use u puts messages in front of others.
Jams(u) ==
  \E S \in {u.handlerOps} \cup {u.ops[t] : t \in Thread} : S \cap {"Jam", "TryJam"} # {}

\* The size of a queue so used divides 2^32.
JamsFit == \A u \in Uses : Jams(u) => WordSize % u.size = 0

RingTypes ==
  /\ ring \in [0..Size - 1 -> Message]
  /\ first \in 0..Size - 1
  /\ count \in 0..Size

QueueTypes ==
  /\ use \in Uses /\ RingTypes
  /\ arg \in [Thread -> Message]
  /\ pc = [t \in Thread |-> pc[t]]
  /\ \A t \in Thread : pc[t] \in use.ops[t] \cup {"idle"}

\* One turn around the ring.
LEMMA Around ==
  ASSUME NEW n \in Nat \ {0}, NEW a \in 0..2 * n - 1
  PROVE  a % n = IF a < n THEN a ELSE a - n
OBVIOUS

\* The slot before slot a: u32 arithmetic wraps where the ring does if the ring
\* divides the word.
LEMMA SlotBefore ==
  ASSUME NEW n \in Nat \ {0}, NEW w \in Nat, n < w, w % n = 0, NEW a \in 0..n - 1
  PROVE  ((a - 1) % w) % n = IF a = 0 THEN n - 1 ELSE a - 1
<1>1. CASE a # 0
  <2>1. (a - 1) % w = a - 1
    BY <1>1
  <2>2. QED BY <1>1, <2>1
<1>2. CASE a = 0
  <2>1. (a - 1) % w = w - 1
    BY <1>2
  <2>2. PICK k \in Nat : w = n * k
    OBVIOUS
  <2>3. PICK d \in Int, r \in 0..n - 1 : w - 1 = n * d + r /\ (w - 1) % n = r
    OBVIOUS
  <2>4. n * (k - d) = r + 1
    BY <2>2, <2>3
  <2>5. k - d = 1
    <3>1. ASSUME k - d <= 0 PROVE FALSE
      <4>1. n * (k - d) <= 0
        BY <2>3, <3>1
      <4>2. QED BY <2>4, <4>1
    <3>2. ASSUME k - d >= 2 PROVE FALSE
      <4>1. n * (k - d) >= n * 2
        BY <2>3, <3>2
      <4>2. QED BY <2>4, <4>1
    <3>3. QED BY <3>1, <3>2
  <2>6. QED BY <1>2, <2>1, <2>3, <2>4, <2>5
<1>3. QED BY <1>1, <1>2

\* The i-th message from the slot f on.
Nth(f, i) == (f + i - 1) % Size

LEMMA SizeOK ==
  ASSUME use \in Uses
  PROVE  Size \in Nat \ {0} /\ WordSize \in Nat /\ Size < WordSize
BY MessageQueueAssumption DEF Size

LEMMA NthSlot ==
  ASSUME use \in Uses, NEW f \in 0..Size - 1, NEW i \in 1..Size
  PROVE  /\ Nth(f, i) = IF f + i - 1 < Size THEN f + i - 1 ELSE f + i - 1 - Size
         /\ Nth(f, i) \in 0..Size - 1
<1>1. PICK n \in Nat \ {0} : n = Size
  BY SizeOK
<1>2. PICK a \in 0..2 * n - 1 : a = f + i - 1
  BY <1>1
<1>3. a % n = IF a < n THEN a ELSE a - n
  BY Around
<1>4. QED BY <1>1, <1>2, <1>3 DEF Nth

\* The contents: as many messages as are counted.
LEMMA ContentsSeq ==
  ASSUME use \in Uses, RingTypes
  PROVE  /\ Contents \in Seq(Message) /\ Len(Contents) = count
         /\ \A i \in 1..count : Contents[i] = ring[Nth(first, i)]
<1>1. \A i \in 1..count : (first + i - 1) % Size = Nth(first, i) /\ Nth(first, i) \in 0..Size - 1
  BY SizeOK, NthSlot DEF RingTypes, Nth
<1>2. Contents \in [1..count -> Message]
  BY <1>1 DEF Contents, RingTypes
<1>3. count \in Nat
  BY SizeOK DEF RingTypes
<1>4. QED BY <1>1, <1>2, <1>3, IsASeq, LenProperties DEF Contents

\* What the next state's contents are, from its variables.
LEMMA ContentsNext ==
  ASSUME use' \in Uses, RingTypes', UNCHANGED use
  PROVE  /\ Contents' \in Seq(Message) /\ Len(Contents') = count'
         /\ \A i \in 1..count' : Contents'[i] = ring'[Nth(first', i)]
<1>1. (use \in Uses /\ RingTypes =>
         /\ Contents \in Seq(Message) /\ Len(Contents) = count
         /\ \A i \in 1..count : Contents[i] = ring[Nth(first, i)])'
  BY ContentsSeq, PTL
<1>2. QED BY <1>1 DEF Nth, Size

\* PutLast appends.
LEMMA PutLastAppends ==
  ASSUME use \in Uses, RingTypes, UNCHANGED use, NEW m \in Message, ~IsFull,
         NEW p, PutLast(p, m)
  PROVE  RingTypes' /\ Fifo!PutLast(m)
<1>1. /\ Size \in Nat \ {0} /\ count \in 0..Size - 1 /\ first \in 0..Size - 1
      /\ ring \in [0..Size - 1 -> Message] /\ Size' = Size
  BY SizeOK DEF RingTypes, IsFull, Size
<1>2. /\ ring' = [ring EXCEPT ![Nth(first, count + 1)] = m]
      /\ count' = count + 1 /\ first' = first
  <2>1. first + count = first + (count + 1) - 1
    BY <1>1
  <2>2. QED BY <2>1 DEF PutLast, Nth
<1>3. RingTypes'
  <2>1. ring' \in [0..Size - 1 -> Message]
    BY <1>1, <1>2
  <2>2. count' \in 0..Size /\ first' \in 0..Size - 1
    BY <1>1, <1>2
  <2>3. QED BY <1>1, <2>1, <2>2 DEF RingTypes
<1>4. /\ Contents \in Seq(Message) /\ Len(Contents) = count
      /\ \A i \in 1..count : Contents[i] = ring[Nth(first, i)]
  BY ContentsSeq
<1>5. /\ Contents' \in Seq(Message) /\ Len(Contents') = count + 1
      /\ \A i \in 1..count + 1 : Contents'[i] = ring'[Nth(first, i)]
  BY <1>2, <1>3, ContentsNext
<1>6. ASSUME NEW i \in 1..count + 1
      PROVE  Contents'[i] = IF i = count + 1 THEN m ELSE Contents[i]
  <2>1. PICK f \in 0..Size - 1, j \in 1..Size : f = first /\ j = count + 1
    BY <1>1
  <2>2. i \in 1..Size
    BY <1>1
  <2>3. /\ Nth(f, i) \in 0..Size - 1 /\ Nth(f, j) \in 0..Size - 1
        /\ Nth(f, i) = IF f + i - 1 < Size THEN f + i - 1 ELSE f + i - 1 - Size
        /\ Nth(f, j) = IF f + j - 1 < Size THEN f + j - 1 ELSE f + j - 1 - Size
    BY <2>2, NthSlot
  <2>4. /\ Nth(first, i) \in 0..Size - 1
        /\ Nth(first, count + 1) \in 0..Size - 1
        /\ i # count + 1 => Nth(first, i) # Nth(first, count + 1)
    BY <1>1, <2>1, <2>2, <2>3
  <2>5. QED BY <1>1, <1>2, <1>4, <1>5, <2>4
<1>7. Contents' = Append(Contents, m)
  <2>1. /\ Append(Contents, m) \in Seq(Message) /\ Len(Append(Contents, m)) = count + 1
        /\ \A i \in 1..count + 1 : Append(Contents, m)[i] = IF i = count + 1 THEN m ELSE Contents[i]
    BY <1>1, <1>4, AppendProperties
  <2>2. QED BY <1>5, <1>6, <2>1, SeqEqual
<1>8. QED BY <1>1, <1>3, <1>4, <1>7 DEF Fifo!PutLast

\* TakeFirst takes the head.
LEMMA TakeFirstTakes ==
  ASSUME use \in Uses, RingTypes, UNCHANGED use, ~IsEmpty, NEW p, TakeFirst(p)
  PROVE  RingTypes' /\ Fifo!Take
<1>1. /\ Size \in Nat \ {0} /\ count \in 1..Size /\ first \in 0..Size - 1
      /\ Size' = Size
  BY SizeOK DEF RingTypes, IsEmpty, Size
<1>2. /\ ring' = ring /\ count' = count - 1 /\ first' = (first + 1) % Size
  BY DEF TakeFirst
<1>3. first' = IF first + 1 = Size THEN 0 ELSE first + 1
  <2>1. PICK n \in Nat \ {0} : n = Size
    BY <1>1
  <2>2. PICK a \in 0..2 * n - 1 : a = first + 1
    BY <1>1, <2>1
  <2>3. a % n = IF a < n THEN a ELSE a - n
    BY Around
  <2>4. QED BY <1>1, <1>2, <2>1, <2>2, <2>3
<1>4. first' \in 0..Size - 1 /\ RingTypes'
  BY <1>1, <1>2, <1>3 DEF RingTypes
<1>5. /\ Contents \in Seq(Message) /\ Len(Contents) = count
      /\ \A i \in 1..count : Contents[i] = ring[Nth(first, i)]
  BY ContentsSeq
<1>6. /\ Contents' \in Seq(Message) /\ Len(Contents') = count - 1
      /\ \A i \in 1..count - 1 : Contents'[i] = ring[Nth(first', i)]
  BY <1>2, <1>4, ContentsNext
<1>7. ASSUME NEW i \in 1..count - 1 PROVE Contents'[i] = Contents[i + 1]
  <2>1. PICK f \in 0..Size - 1 : f = first'
    BY <1>4
  <2>2. Nth(f, i) = Nth(first, i + 1)
    BY <1>1, <1>3, <2>1, NthSlot
  <2>3. QED BY <1>1, <1>5, <1>6, <2>1, <2>2
<1>8. Contents' = Tail(Contents)
  <2>1. Contents # <<>>
    BY <1>1, <1>5
  <2>2. /\ Tail(Contents) \in Seq(Message) /\ Len(Tail(Contents)) = count - 1
        /\ \A i \in 1..count - 1 : Tail(Contents)[i] = Contents[i + 1]
    BY <1>1, <1>5, <2>1, HeadTailProperties
  <2>3. QED BY <1>6, <1>7, <2>2, SeqEqual
<1>9. Contents # <<>>
  BY <1>1, <1>5
<1>10. QED BY <1>4, <1>8, <1>9 DEF Fifo!Take

\* The slot of a jammed message is one of the ring.
LEMMA BeforeSlot ==
  ASSUME use \in Uses
  PROVE  Before \in 0..Size - 1
<1>1. PICK n \in Nat \ {0} : n = Size
  BY SizeOK
<1>2. PICK k : k = (first - 1) % WordSize
  OBVIOUS
<1>3. WordSize \in Nat \ {0}
  BY SizeOK
<1>4. QED BY <1>1, <1>2, <1>3 DEF Before

\* PutFirst puts the message in front: TryJam beside the others, Jam in place of
\* the last.
LEMMA PutFirstPuts ==
  ASSUME use \in Uses, RingTypes, UNCHANGED use, NEW m \in Message, ~IsFull,
         NEW counted \in BOOLEAN, NEW p, PutFirst(p, m, counted)
  PROVE  /\ RingTypes'
         /\ WordSize % Size = 0 =>
              IF counted THEN Fifo!PutFirst(m) ELSE Fifo!Replace(m) \/ Contents' = Contents
<1>1. /\ Size \in Nat \ {0} /\ count \in 0..Size - 1 /\ first \in 0..Size - 1
      /\ ring \in [0..Size - 1 -> Message] /\ Size' = Size
  BY SizeOK DEF RingTypes, IsFull, Size
<1>2. ASSUME WordSize % Size = 0
      PROVE  Before = IF first = 0 THEN Size - 1 ELSE first - 1
  <2>1. PICK n \in Nat \ {0} : n = Size
    BY <1>1
  <2>2. PICK a \in 0..n - 1 : a = first
    BY <1>1, <2>1
  <2>3. ((a - 1) % WordSize) % n = IF a = 0 THEN n - 1 ELSE a - 1
    BY <1>2, <2>1, <2>2, SizeOK, SlotBefore
  <2>4. QED BY <2>1, <2>2, <2>3 DEF Before
<1>3. /\ first' = Before /\ ring' = [ring EXCEPT ![Before] = m]
      /\ count' = IF counted THEN count + 1 ELSE count
  BY DEF PutFirst
<1>4. PICK f \in 0..Size - 1 : f = Before
  BY BeforeSlot
<1>5. RingTypes'
  BY <1>1, <1>3, <1>4 DEF RingTypes
<1>6. /\ Contents \in Seq(Message) /\ Len(Contents) = count
      /\ \A i \in 1..count : Contents[i] = ring[Nth(first, i)]
  BY ContentsSeq
<1>7. /\ Contents' \in Seq(Message) /\ Len(Contents') = count'
      /\ \A i \in 1..count' : Contents'[i] = ring'[Nth(f, i)]
  BY <1>3, <1>4, <1>5, ContentsNext
<1>8. SUFFICES ASSUME WordSize % Size = 0
             PROVE  IF counted THEN Fifo!PutFirst(m)
                    ELSE Fifo!Replace(m) \/ Contents' = Contents
  BY <1>5
<1>9. Before = IF first = 0 THEN Size - 1 ELSE first - 1
  BY <1>2, <1>8
<1>10. ASSUME NEW i \in 1..count'
      PROVE  Contents'[i] = IF i = 1 THEN m ELSE Contents[i - 1]
  <2>1. i \in 1..count + 1 /\ i \in 1..Size
    BY <1>1, <1>3
  <2>2. CASE i = 1
    <3>1. Nth(f, i) = f
      BY <1>1, <2>1, <2>2, NthSlot
    <3>2. QED BY <1>1, <1>3, <1>4, <1>7, <2>2, <3>1
  <2>3. CASE i # 1
    <3>1. Nth(f, i) = Nth(first, i - 1) /\ Nth(f, i) # f /\ Nth(f, i) \in 0..Size - 1
      <4>1. PICK g \in 0..Size - 1, j \in 1..Size : g = first /\ j = i - 1
        BY <1>1, <2>1, <2>3
      <4>2. /\ Nth(f, i) \in 0..Size - 1
            /\ Nth(f, i) = IF f + i - 1 < Size THEN f + i - 1 ELSE f + i - 1 - Size
            /\ Nth(g, j) = IF g + j - 1 < Size THEN g + j - 1 ELSE g + j - 1 - Size
        BY <2>1, NthSlot
      <4>3. QED BY <1>1, <1>9, <1>4, <2>1, <2>3, <4>1, <4>2
    <3>2. i - 1 \in 1..count
      BY <1>1, <2>1, <2>3
    <3>3. QED BY <1>1, <1>3, <1>4, <1>6, <1>7, <2>3, <3>1, <3>2
  <2>4. QED BY <2>2, <2>3
<1>11. Len(Contents) < Size
  BY <1>1, <1>6
<1>12. CASE counted
  <2>1. /\ <<m>> \o Contents \in Seq(Message) /\ Len(<<m>> \o Contents) = count + 1
        /\ \A i \in 1..count + 1 :
             (<<m>> \o Contents)[i] = IF i = 1 THEN m ELSE Contents[i - 1]
    BY <1>1, <1>6
  <2>2. Contents' = <<m>> \o Contents
    <3>1. PICK u, v : u = Contents' /\ v = <<m>> \o Contents
      OBVIOUS
    <3>2. u \in Seq(Message) /\ v \in Seq(Message) /\ Len(u) = Len(v)
      BY <1>3, <1>7, <1>12, <2>1, <3>1
    <3>3. \A i \in 1..Len(u) : u[i] = v[i]
      BY <1>3, <1>7, <1>10, <1>12, <2>1, <3>1
    <3>4. u = v
      BY <3>2, <3>3, SeqEqual
    <3>5. QED BY <3>1, <3>4
  <2>3. QED BY <1>5, <1>11, <1>12, <2>2 DEF Fifo!PutFirst
<1>13. CASE ~counted /\ count = 0
  <2>1. Contents = <<>> /\ Contents' = <<>>
    BY <1>3, <1>6, <1>7, <1>13
  <2>2. QED BY <1>5, <1>13, <2>1
<1>14. CASE ~counted /\ count # 0
  <2>1. Fifo!Front(Contents) = SubSeq(Contents, 1, count - 1)
    BY <1>6 DEF Fifo!Front
  <2>2. /\ Fifo!Front(Contents) \in Seq(Message) /\ Len(Fifo!Front(Contents)) = count - 1
        /\ \A i \in 1..count - 1 : Fifo!Front(Contents)[i] = Contents[i]
    BY <1>1, <1>6, <1>14, <2>1
  <2>3. /\ <<m>> \o Fifo!Front(Contents) \in Seq(Message)
        /\ Len(<<m>> \o Fifo!Front(Contents)) = count
        /\ \A i \in 1..count :
             (<<m>> \o Fifo!Front(Contents))[i] = IF i = 1 THEN m ELSE Contents[i - 1]
    BY <1>1, <1>14, <2>2
  <2>4. Contents' = <<m>> \o Fifo!Front(Contents)
    <3>1. /\ Len(Contents') = count
          /\ \A i \in 1..count : Contents'[i] = IF i = 1 THEN m ELSE Contents[i - 1]
      BY <1>3, <1>7, <1>10, <1>14
    <3>2. PICK c, d \in Seq(Message) : c = Contents' /\ d = <<m>> \o Fifo!Front(Contents)
      BY <1>7, <2>3
    <3>3. Len(c) = Len(d) /\ \A i \in 1..Len(c) : c[i] = d[i]
      BY <2>3, <3>1, <3>2
    <3>4. QED BY <3>2, <3>3, SeqEqual
  <2>5. Contents # <<>>
    BY <1>6, <1>14
  <2>6. QED BY <1>5, <1>11, <1>14, <2>4, <2>5 DEF Fifo!Replace
<1>15. QED BY <1>12, <1>13, <1>14

\* What a call does to the queue is one of the changes that BoundedQueue allows.
LEMMA BodyRefines ==
  ASSUME use \in Uses, RingTypes, UNCHANGED use, NEW m \in Message, NEW op, NEW p,
         Body(p, op, m)
  PROVE  /\ RingTypes'
         /\ (op \in {"Jam", "TryJam"} => WordSize % Size = 0) =>
              Fifo!Next \/ UNCHANGED <<Contents, Size>>
<1>1. Size' = Size
  BY DEF Size
<1>2. CASE ~IsFull /\ PutLast(p, m)
  BY <1>1, <1>2, PutLastAppends DEF Fifo!Next
<1>3. CASE op = "Jam" /\ ~IsFull /\ PutFirst(p, m, FALSE)
  BY <1>1, <1>3, PutFirstPuts DEF Fifo!Next
<1>4. CASE op = "TryJam" /\ ~IsFull /\ PutFirst(p, m, TRUE)
  BY <1>1, <1>4, PutFirstPuts DEF Fifo!Next
<1>5. CASE ~IsEmpty /\ TakeFirst(p)
  BY <1>1, <1>5, TakeFirstTakes DEF Fifo!Next
<1>6. CASE Unchanged(p)
  BY <1>1, <1>6 DEF Unchanged, RingTypes, Contents
<1>7. QED BY <1>2, <1>3, <1>4, <1>5, <1>6 DEF Body

LEMMA QueueInit == Init => QueueTypes /\ Fifo!Init
<1> SUFFICES ASSUME Init PROVE QueueTypes /\ Fifo!Init
  OBVIOUS
<1>1. QueueTypes
  BY SizeOK DEF Init, QueueTypes, RingTypes
<1>2. Contents = <<>>
  BY <1>1, ContentsSeq DEF Init, QueueTypes
<1>3. QED BY <1>1, <1>2 DEF Fifo!Init

LEMMA QueueStep ==
  QueueTypes /\ [Next]_vars =>
    QueueTypes' /\ (JamsFit => [Fifo!Next]_<<Contents, Size>>)
<1> SUFFICES ASSUME QueueTypes, [Next]_vars
             PROVE  QueueTypes' /\ (JamsFit => [Fifo!Next]_<<Contents, Size>>)
  OBVIOUS
<1>1. use \in Uses /\ RingTypes /\ UNCHANGED use
  BY DEF QueueTypes, Next, vars
<1>2. ASSUME NEW op, NEW m \in Message, NEW p, Body(p, op, m),
             op \in use.handlerOps \/ \E t \in Thread : op \in use.ops[t]
      PROVE  RingTypes' /\ (JamsFit => [Fifo!Next]_<<Contents, Size>>)
  <2>1. op \in {"Jam", "TryJam"} => Jams(use)
    BY <1>2 DEF Jams
  <2>2. JamsFit => (op \in {"Jam", "TryJam"} => WordSize % Size = 0)
    BY <1>1, <2>1 DEF JamsFit, Size
  <2>3. QED BY <1>1, <1>2, <2>2, BodyRefines
<1>3. ASSUME UNCHANGED <<ring, first, count>>
      PROVE  RingTypes' /\ (JamsFit => [Fifo!Next]_<<Contents, Size>>)
  <2>1. Size' = Size /\ Contents' = Contents
    BY <1>1, <1>3 DEF Size, Contents
  <2>2. QED BY <1>1, <1>3, <2>1 DEF RingTypes
<1>4. CASE \E op \in use.handlerOps, m \in Message : Interrupt(op, m)
  <2>1. PICK op \in use.handlerOps, m \in Message : Interrupt(op, m)
    BY <1>4
  <2>2. PICK p : p = proc
    OBVIOUS
  <2>3. Body(p, op, m) /\ UNCHANGED <<pc, arg>>
    BY <2>1, <2>2 DEF Interrupt
  <2>4. QED BY <1>1, <1>2, <2>1, <2>3 DEF QueueTypes
<1>5. CASE UNCHANGED vars
  BY <1>1, <1>3, <1>5 DEF vars, QueueTypes
<1>6. ASSUME NEW t \in Thread, ThreadStep(t)
      PROVE  QueueTypes' /\ (JamsFit => [Fifo!Next]_<<Contents, Size>>)
  <2>1. pc[t] \in use.ops[t] \cup {"idle"} /\ arg[t] \in Message
    BY DEF QueueTypes
  <2>2. CASE Run(t) \/ Yield(t)
    BY <1>1, <1>3, <2>2 DEF Run, Yield, QueueTypes
  <2>3. CASE Again(t)
    <3>1. PICK op, m, p : op = pc[t] /\ m = arg[t] /\ p = Woken(t)
      OBVIOUS
    <3>2. m \in Message /\ op \in use.ops[t]
      BY <2>1, <2>3, <3>1 DEF Again, Blocking
    <3>3. UNCHANGED <<ring, first, count, pc>> \/ (Body(p, op, m) /\ pc' = [pc EXCEPT ![t] = "idle"])
      BY <2>3, <3>1 DEF Again
    <3>4. RingTypes' /\ (JamsFit => [Fifo!Next]_<<Contents, Size>>)
      BY <1>2, <1>3, <3>2, <3>3
    <3>5. /\ pc' = [u \in Thread |-> pc'[u]] /\ arg' = arg
          /\ \A u \in Thread : pc'[u] \in use.ops[u] \cup {"idle"}
      BY <2>3, <3>3 DEF Again, QueueTypes
    <3>6. QED BY <1>1, <3>4, <3>5 DEF QueueTypes
  <2>4. CASE \E op \in use.ops[t], m \in Message : Call(t, op, m) \/ TryLook(t, op, m)
    <3>1. PICK op \in use.ops[t], m \in Message : Call(t, op, m) \/ TryLook(t, op, m)
      BY <2>4
    <3>2. PICK p : p = proc
      OBVIOUS
    <3>3. UNCHANGED <<ring, first, count>> \/ Body(p, op, m)
      BY <3>1, <3>2 DEF Call, TryLook
    <3>4. RingTypes' /\ (JamsFit => [Fifo!Next]_<<Contents, Size>>)
      BY <1>2, <1>3, <3>3
    <3>5. arg' = [arg EXCEPT ![t] = m] /\ (UNCHANGED pc \/ pc' = [pc EXCEPT ![t] = op])
      BY <3>1 DEF Call, TryLook
    <3>6. /\ pc' = [u \in Thread |-> pc'[u]] /\ arg' \in [Thread -> Message]
          /\ \A u \in Thread : pc'[u] \in use.ops[u] \cup {"idle"}
      BY <3>5 DEF QueueTypes
    <3>7. QED BY <1>1, <3>4, <3>6 DEF QueueTypes
  <2>5. CASE TryDo(t)
    <3>1. PICK op, m, p : op = pc[t] /\ m = arg[t] /\ p = proc
      OBVIOUS
    <3>2. m \in Message /\ op \in use.ops[t]
      BY <2>1, <2>5, <3>1 DEF TryDo, Trying
    <3>3. UNCHANGED <<ring, first, count>> \/ Body(p, op, m)
      BY <2>5, <3>1 DEF TryDo, Unchanged
    <3>4. RingTypes' /\ (JamsFit => [Fifo!Next]_<<Contents, Size>>)
      BY <1>2, <1>3, <3>2, <3>3
    <3>5. /\ pc' = [u \in Thread |-> pc'[u]] /\ arg' = arg
          /\ \A u \in Thread : pc'[u] \in use.ops[u] \cup {"idle"}
      BY <2>5 DEF TryDo, QueueTypes
    <3>6. QED BY <1>1, <3>4, <3>5 DEF QueueTypes
  <2>6. QED BY <1>6, <2>2, <2>3, <2>4, <2>5 DEF ThreadStep
<1>7. QED BY <1>4, <1>5, <1>6 DEF Next

(***************************************************************************)
(* A message queue of any size, however it is called, is a bounded         *)
(* first-in first-out queue.  A client that puts messages in front of      *)
(* others needs a size that divides 2^32: m_first wraps as a u32 before it *)
(* is taken modulo the size (MessageQueue.hpp:67, 87), and at any other    *)
(* size the first message that is jammed at slot 0 is not put next to      *)
(* those that are there.                                                   *)
(***************************************************************************)
THEOREM QueueIsFifo ==
  ASSUME JamsFit
  PROVE  Spec => ImplementsQueue
<1>1. QueueTypes /\ [Next]_vars => QueueTypes' /\ [Fifo!Next]_<<Contents, Size>>
  BY QueueStep
<1>2. QED BY QueueInit, <1>1, PTL DEF Spec, ImplementsQueue, Fifo!Spec

-----------------------------------------------------------------------------
(* Who is asleep at the queue.                                             *)

SendOps == {"Send", "TrySend", "Jam", "TryJam"}
TakeOps == {"Receive", "TryReceive", "Peek", "TryPeek"}

\* What the operators below are about: a processor p, what each thread is in, c,
\* and n messages.
Asleep(p, t) == \E i \in 1..Len(p.asleep[waiters]) : p.asleep[waiters][i] = t
SomeAsleep(p) == \E t \in Thread : Asleep(p, t)

\* Somebody who was woken has yet to look at the queue.
Attending(p, c) == \E t \in p.ready : c[t] \in Blocking

Sound(p, c) ==
  /\ p \in Processor /\ Apart(p)
  /\ \A t \in Thread : Asleep(p, t) => c[t] \in Blocking

RoomAttended(p, c, n, size) == n < size /\ SomeAsleep(p) => Attending(p, c)
StockAttended(p, c, n) == n > 0 /\ SomeAsleep(p) => Attending(p, c)

\* Who sleeps sleeps for a reason.
AllBlocked(p, c, n, size) ==
  \A t \in Thread : Asleep(p, t) => IF c[t] \in SendOps THEN n >= size ELSE n = 0

LEMMA AQueue == waiters \in Queue
BY MessageQueueAssumption DEF waiters

LEMMA AsleepElsewhere ==
  ASSUME NEW p, NEW c, Sound(p, c), NEW t \in Thread, Asleep(p, t)
  PROVE  p.current # t /\ t \notin p.ready
BY AQueue DEF Sound, Apart, Asleep

\* WakeupOne: the sleeper that it takes attends to the queue.
LEMMA WakeMoves ==
  ASSUME NEW p, NEW c, Sound(p, c), NEW w, w = WakeOne(p, waiters)
  PROVE  /\ Sound(w, c) /\ w.current = p.current /\ p.ready \subseteq w.ready
         /\ \A t \in Thread : Asleep(w, t) => Asleep(p, t)
         /\ SomeAsleep(p) => Attending(w, c)
         /\ \A t \in Thread :
              Asleep(w, t) => \E u \in Thread : u # t /\ Asleep(p, u)
<1>1. p \in Processor /\ p.asleep[waiters] \in Seq(Thread)
  BY AQueue DEF Sound, Processor
<1>2. w \in Processor /\ Apart(w)
  BY AQueue, ProcessorRoutines, WakeOneApart DEF Sound
<1>3. CASE p.asleep[waiters] = <<>>
  <2>1. w = p
    BY <1>3 DEF WakeOne
  <2>2. \A t \in Thread : ~Asleep(p, t)
    BY <1>3 DEF Asleep
  <2>3. QED BY <2>1, <2>2 DEF SomeAsleep
<1>4. CASE p.asleep[waiters] # <<>>
  <2>1. PICK h : h = Head(p.asleep[waiters])
    OBVIOUS
  <2>2. h \in Thread /\ Asleep(p, h) /\ h = p.asleep[waiters][1]
    BY <1>1, <1>4, <2>1 DEF Asleep
  <2>3. /\ w.current = p.current /\ w.ready = p.ready \cup {h}
        /\ w.asleep[waiters] = Tail(p.asleep[waiters])
    BY AQueue, <1>1, <1>4, <2>1 DEF WakeOne, Processor
  <2>4. ASSUME NEW t \in Thread, Asleep(w, t)
        PROVE  Asleep(p, t) /\ t # h
    <3>1. PICK i \in 1..Len(w.asleep[waiters]) : w.asleep[waiters][i] = t
      BY <2>4 DEF Asleep
    <3>2. /\ i + 1 \in 1..Len(p.asleep[waiters]) /\ 1 \in 1..Len(p.asleep[waiters])
          /\ p.asleep[waiters][i + 1] = t
      BY <1>1, <1>4, <2>3, <3>1
    <3>3. i + 1 # 1
      BY <3>1, <3>2
    <3>4. QED BY AQueue, <2>2, <3>2, <3>3 DEF Asleep, Sound, Apart
  <2>5. c[h] \in Blocking
    BY <2>2 DEF Sound
  <2>6. Sound(w, c)
    BY <1>2, <2>4 DEF Sound
  <2>7. QED BY <2>2, <2>3, <2>4, <2>5, <2>6 DEF Attending
<1>5. QED BY <1>3, <1>4

\* The caller goes to sleep.
LEMMA SleepMoves ==
  ASSUME NEW p, NEW c, Sound(p, c), NEW t \in Thread, p.current = t,
         c[t] \in Blocking, NEW w, w = SleepOn(p, waiters)
  PROVE  /\ Sound(w, c) /\ w.current = Null /\ w.ready = p.ready
         /\ \A u \in Thread : Asleep(w, u) <=> Asleep(p, u) \/ u = t
<1>1. p \in Processor /\ p.asleep[waiters] \in Seq(Thread)
  BY AQueue DEF Sound, Processor
<1>2. w \in Processor /\ Apart(w)
  BY AQueue, ProcessorRoutines, SleepOnApart, MessageQueueAssumption DEF Sound
<1>3. /\ w.current = Null /\ w.ready = p.ready
      /\ w.asleep[waiters] = Append(p.asleep[waiters], t)
  BY AQueue, <1>1 DEF SleepOn, Processor
<1>4. ASSUME NEW u \in Thread PROVE Asleep(w, u) <=> Asleep(p, u) \/ u = t
  <2>1. ASSUME Asleep(w, u) PROVE Asleep(p, u) \/ u = t
    BY <1>1, <1>3, <2>1 DEF Asleep
  <2>2. ASSUME Asleep(p, u) PROVE Asleep(w, u)
    <3>1. PICK i \in 1..Len(p.asleep[waiters]) : p.asleep[waiters][i] = u
      BY <2>2 DEF Asleep
    <3>2. i \in 1..Len(w.asleep[waiters]) /\ w.asleep[waiters][i] = u
      BY <1>1, <1>3, <3>1
    <3>3. QED BY <3>2 DEF Asleep
  <2>3. ASSUME u = t PROVE Asleep(w, u)
    <3>1. /\ Len(p.asleep[waiters]) + 1 \in 1..Len(w.asleep[waiters])
          /\ w.asleep[waiters][Len(p.asleep[waiters]) + 1] = t
      BY <1>1, <1>3
    <3>2. QED BY <2>3, <3>1 DEF Asleep
  <2>4. QED BY <2>1, <2>2, <2>3
<1>5. QED BY <1>2, <1>3, <1>4 DEF Sound

\* The caller yields, or the processor goes to a ready thread.
LEMMA YieldMoves ==
  ASSUME NEW p, NEW c, Sound(p, c), NEW t \in Thread, p.current = t,
         NEW w, w = YieldNow(p)
  PROVE  /\ Sound(w, c) /\ w.current = Null /\ p.ready \subseteq w.ready
         /\ \A u \in Thread : Asleep(w, u) <=> Asleep(p, u)
<1>1. w \in Processor /\ Apart(w)
  BY ProcessorRoutines, YieldNowApart, MessageQueueAssumption, AQueue DEF Sound
<1>2. w.current = Null /\ w.ready = p.ready \cup {t} /\ w.asleep = p.asleep
  BY DEF YieldNow, Sound, Processor
<1>3. QED BY <1>1, <1>2 DEF Sound, Asleep

LEMMA DispatchMoves ==
  ASSUME NEW p, NEW c, Sound(p, c), NEW t \in Thread, MayRun(p, t),
         NEW w, w = Dispatch(p, t)
  PROVE  /\ Sound(w, c) /\ w.current = t /\ w.ready = p.ready \ {t}
         /\ \A u \in Thread : Asleep(w, u) <=> Asleep(p, u)
<1>1. w \in Processor /\ Apart(w)
  BY ProcessorRoutines, DispatchApart, AQueue DEF Sound
<1>2. w.current = t /\ w.ready = p.ready \ {t} /\ w.asleep = p.asleep
  BY DEF Dispatch, Sound, Processor
<1>3. QED BY <1>1, <1>2 DEF Sound, Asleep

\* What the running thread is in is no matter to the others.
LEMMA RunnerAside ==
  ASSUME NEW p, NEW c, Sound(p, c), NEW t \in Thread, p.current = t, NEW d,
         \A u \in Thread \ {t} : d[u] = c[u], NEW n, NEW size
  PROVE  /\ Sound(p, d)
         /\ RoomAttended(p, c, n, size) => RoomAttended(p, d, n, size)
         /\ StockAttended(p, c, n) => StockAttended(p, d, n)
         /\ AllBlocked(p, c, n, size) => AllBlocked(p, d, n, size)
<1>1. t \notin p.ready /\ ~Asleep(p, t) /\ p.ready \subseteq Thread
  BY AsleepElsewhere DEF Sound, Apart, Processor
<1>2. Attending(p, c) => Attending(p, d)
  BY <1>1 DEF Attending
<1>3. QED BY <1>1, <1>2 DEF Sound, RoomAttended, StockAttended, AllBlocked

\* What the body of call op does to the count n and, by its wakeup, to the
\* processor p.
Moves(op, p, n, size, q, k) ==
  \/ /\ op \in SendOps /\ n < size /\ k = n + 1
     /\ q = IF k = 1 THEN WakeOne(p, waiters) ELSE p
  \/ /\ op = "Jam" /\ n < size /\ k = n
     /\ q = IF k = 1 THEN WakeOne(p, waiters) ELSE p
  \/ /\ op \in TakeOps /\ n > 0 /\ k = n - 1
     /\ q = IF k = size - 1 THEN WakeOne(p, waiters) ELSE p
  \/ op \in {"Peek", "TryPeek"} /\ n > 0 /\ k = n /\ q = p

LEMMA BodyMoves ==
  ASSUME use \in Uses, RingTypes, NEW op, NEW p, NEW m, Body(p, op, m)
  PROVE  Moves(op, p, count, Size, proc', count')
<1>1. count \in Nat /\ Size \in Nat
  BY SizeOK DEF RingTypes
<1>2. QED
  BY <1>1 DEF Body, Moves, PutLast, PutFirst, TakeFirst, Unchanged, IsFull, IsEmpty,
              SendOps, TakeOps

\* No body leaves anybody asleep who could go on.  The caller attended to the
\* queue until now if it was woken: a woken Send or Receive need find nobody
\* else who does.
LEMMA BodyAttends ==
  ASSUME NEW p, NEW c, Sound(p, c), NEW size \in Nat \ {0}, NEW n \in 0..size,
         NEW op, NEW q, NEW k, Moves(op, p, n, size, q, k)
  PROVE  /\ Sound(q, c) /\ q.current = p.current
         /\ size <= 2 /\ (RoomAttended(p, c, n, size) \/ op = "Send")
              => RoomAttended(q, c, k, size)
         /\ size <= 2 /\ (StockAttended(p, c, n) \/ op = "Receive")
              => StockAttended(q, c, k)
<1>1. PICK w : w = WakeOne(p, waiters)
  OBVIOUS
<1>2. /\ Sound(w, c) /\ w.current = p.current /\ p.ready \subseteq w.ready
      /\ SomeAsleep(w) => SomeAsleep(p)
      /\ SomeAsleep(p) => Attending(w, c)
  BY <1>1, WakeMoves DEF SomeAsleep
<1>3. CASE q = w
  <2>1. RoomAttended(q, c, k, size) /\ StockAttended(q, c, k)
    BY <1>2, <1>3 DEF RoomAttended, StockAttended
  <2>2. QED BY <1>2, <1>3, <2>1
<1>4. CASE q = p /\ q # w
  <2>1. k \in 0..size
    BY <1>1, <1>4 DEF Moves, SendOps, TakeOps
  <2>2. size <= 2 => \/ k >= size /\ k = n + 1 /\ n > 0
                     \/ op = "Jam" /\ k = n
                     \/ k = n - 1 /\ k = 0 /\ op # "Send" /\ n < size
                     \/ k = n /\ op \in {"Peek", "TryPeek"}
    BY <1>1, <1>4 DEF Moves, SendOps, TakeOps
  <2>3. size <= 2 /\ (RoomAttended(p, c, n, size) \/ op = "Send")
          => RoomAttended(p, c, k, size)
    BY <2>1, <2>2 DEF RoomAttended
  <2>4. size <= 2 /\ (StockAttended(p, c, n) \/ op = "Receive")
          => StockAttended(p, c, k)
    <3>1. size <= 2 /\ k >= size /\ k = n + 1 => op # "Receive"
      BY <1>4 DEF Moves, SendOps, TakeOps
    <3>2. QED BY <2>1, <2>2, <3>1 DEF StockAttended
  <2>5. QED BY <1>4, <2>3, <2>4
<1>5. QED BY <1>1, <1>3, <1>4 DEF Moves

\* Of two, who is not the caller is blocked by what the caller undoes.
LEMMA BodyOfTwo ==
  ASSUME NEW p, NEW c, Sound(p, c), NEW size \in Nat \ {0}, NEW n \in 0..size,
         NEW op, NEW q, NEW k, Moves(op, p, n, size, q, k),
         AllBlocked(p, c, n, size),
         \A t, u \in Thread : Asleep(p, t) /\ Asleep(p, u) => t = u,
         \A t \in Thread : Asleep(p, t) => (op \in SendOps <=> c[t] \notin SendOps)
  PROVE  AllBlocked(q, c, k, size)
<1>1. PICK w : w = WakeOne(p, waiters)
  OBVIOUS
<1>2. CASE q = w
  <2>1. \A t \in Thread : ~Asleep(w, t)
    BY <1>1, WakeMoves
  <2>2. QED BY <1>2, <2>1 DEF AllBlocked
<1>3. ASSUME q = p, q # w, NEW t \in Thread, Asleep(p, t)
      PROVE  IF c[t] \in SendOps THEN k >= size ELSE k = 0
  <2>1. op \in SendOps <=> c[t] \notin SendOps
    BY <1>3
  <2>2. IF c[t] \in SendOps THEN n >= size ELSE n = 0
    BY <1>3 DEF AllBlocked
  <2>3. QED BY <1>1, <1>3, <2>1, <2>2 DEF Moves, SendOps, TakeOps
<1>4. CASE q = p /\ q # w
  BY <1>3, <1>4 DEF AllBlocked
<1>5. QED BY <1>1, <1>2, <1>4 DEF Moves

(***************************************************************************)
(* Uses for which the two wakeups, at a count of 1 and of m_max_count - 1, *)
(* are enough: only those who send wait or only those who receive, on no   *)
(* more than two slots, or the queue is between two threads.               *)
(***************************************************************************)
SendersWait(u) ==
  u.size <= 2 /\ \A t \in Thread : u.ops[t] \cap Blocking \subseteq {"Send"}
ReceiversWait(u) ==
  u.size <= 2 /\ \A t \in Thread : u.ops[t] \cap Blocking \subseteq {"Receive", "Peek"}
Pair(u) ==
  /\ u.handlerOps = {}
  /\ \E s, r \in Thread :
       /\ s # r /\ u.ops[s] \subseteq SendOps /\ u.ops[r] \subseteq TakeOps
       /\ \A t \in Thread \ {s, r} : u.ops[t] = {}

\* Why nobody sleeps for nothing.
Reasons(u, p, c, n) ==
  /\ SendersWait(u) => RoomAttended(p, c, n, u.size)
  /\ ReceiversWait(u) => StockAttended(p, c, n)
  /\ Pair(u) => AllBlocked(p, c, n, u.size)

\* Who sleeps is in a call that it may make.
LEMMA BodyKeepsReasons ==
  ASSUME NEW u \in Uses, NEW p, NEW c, Sound(p, c), NEW n \in 0..u.size,
         \A t \in Thread : c[t] \in u.ops[t] \cup {"idle"},
         NEW op, NEW q, NEW k, Moves(op, p, n, u.size, q, k),
         SendersWait(u) => RoomAttended(p, c, n, u.size) \/ op = "Send",
         ReceiversWait(u) => StockAttended(p, c, n) \/ op = "Receive",
         Pair(u) => /\ AllBlocked(p, c, n, u.size)
                    /\ \E t \in Thread : p.current = t /\ op \in u.ops[t]
  PROVE  Sound(q, c) /\ q.current = p.current /\ Reasons(u, q, c, k)
<1>1. PICK size \in Nat \ {0} : size = u.size
  BY MessageQueueAssumption
<1>2. /\ Sound(q, c) /\ q.current = p.current
      /\ SendersWait(u) => RoomAttended(q, c, k, u.size)
      /\ ReceiversWait(u) => StockAttended(q, c, k)
  <2>1. n \in 0..size /\ Moves(op, p, n, size, q, k)
    BY <1>1
  <2>2. /\ Sound(q, c) /\ q.current = p.current
        /\ size <= 2 /\ (RoomAttended(p, c, n, size) \/ op = "Send")
             => RoomAttended(q, c, k, size)
        /\ size <= 2 /\ (StockAttended(p, c, n) \/ op = "Receive")
             => StockAttended(q, c, k)
    BY <2>1, BodyAttends
  <2>3. QED BY <1>1, <2>2 DEF SendersWait, ReceiversWait
<1>3. ASSUME Pair(u) PROVE AllBlocked(q, c, k, u.size)
  <2>1. PICK s, r \in Thread :
          /\ s # r /\ u.ops[s] \subseteq SendOps /\ u.ops[r] \subseteq TakeOps
          /\ \A t \in Thread \ {s, r} : u.ops[t] = {}
    BY <1>3 DEF Pair
  <2>2. PICK t \in Thread : p.current = t /\ op \in u.ops[t]
    BY <1>3
  <2>3. ASSUME NEW x \in Thread, Asleep(p, x)
        PROVE  c[x] \in u.ops[x] /\ x \in {s, r} \ {t}
    <3>1. x # t /\ c[x] \in Blocking
      BY <2>2, <2>3, AsleepElsewhere DEF Sound
    <3>2. c[x] \in u.ops[x]
      BY <3>1 DEF Blocking
    <3>3. QED BY <2>1, <3>1, <3>2
  <2>4. t \in {s, r}
    BY <2>1, <2>2
  <2>5. SendOps \cap TakeOps = {}
    BY DEF SendOps, TakeOps
  <2>6. \A x \in Thread : Asleep(p, x) => (op \in SendOps <=> c[x] \notin SendOps)
    BY <2>1, <2>2, <2>3, <2>4, <2>5
  <2>7. \A x, y \in Thread : Asleep(p, x) /\ Asleep(p, y) => x = y
    BY <2>3, <2>4
  <2>8. QED BY <1>1, <1>3, <2>6, <2>7, BodyOfTwo
<1>4. QED BY <1>2, <1>3 DEF Reasons

\* A call that is blocked puts its caller to sleep.
LEMMA SleepKeepsReasons ==
  ASSUME NEW u \in Uses, NEW p, NEW c, Sound(p, c), NEW n \in Nat,
         NEW t \in Thread, p.current = t, c[t] \in u.ops[t] \cap Blocking,
         IF c[t] \in SendOps THEN n >= u.size ELSE n = 0,
         Pair(u) => AllBlocked(p, c, n, u.size),
         NEW q, q = SleepOn(p, waiters)
  PROVE  Sound(q, c) /\ q.current = Null /\ Reasons(u, q, c, n)
<1>1. /\ Sound(q, c) /\ q.current = Null
      /\ \A x \in Thread : Asleep(q, x) <=> Asleep(p, x) \/ x = t
  BY SleepMoves
<1>2. SendersWait(u) => RoomAttended(q, c, n, u.size)
  <2>1. SendersWait(u) => c[t] \in SendOps
    BY DEF SendersWait, SendOps
  <2>2. u.size \in Nat
    BY MessageQueueAssumption
  <2>3. QED BY <2>1, <2>2 DEF RoomAttended
<1>3. ReceiversWait(u) => StockAttended(q, c, n)
  <2>1. ReceiversWait(u) => c[t] \notin SendOps
    BY DEF ReceiversWait, SendOps
  <2>2. QED BY <2>1 DEF StockAttended
<1>4. Pair(u) => AllBlocked(q, c, n, u.size)
  BY <1>1 DEF AllBlocked
<1>5. QED BY <1>1, <1>2, <1>3, <1>4 DEF Reasons

-----------------------------------------------------------------------------
(* The invariant.                                                          *)

WaitInv ==
  /\ Sound(proc, pc)
  /\ \A t \in Thread : proc.current = t => pc[t] \notin Blocking
  /\ Reasons(use, proc, pc, count)

LEMMA WaitInit == Init => WaitInv
<1> SUFFICES ASSUME Init PROVE WaitInv
  OBVIOUS
<1>1. /\ proc \in Processor /\ Apart(proc)
      /\ \A q \in Queue : proc.asleep[q] = <<>>
  BY MessageQueueAssumption DEF Init, ProcessorInit, Processor, Apart
<1>2. proc.current \notin Thread
  BY MessageQueueAssumption DEF Init, ProcessorInit
<1>3. \A t \in Thread : ~Asleep(proc, t)
  BY <1>1, AQueue DEF Asleep
<1>4. QED
  BY <1>1, <1>2, <1>3 DEF WaitInv, Sound, Reasons, RoomAttended, StockAttended,
                          SomeAsleep, AllBlocked

\* What the invariant says of the next state, from its variables.
LEMMA WaitNext ==
  ASSUME NEW u, u = use', NEW q, q = proc', NEW d, d = pc', NEW k, k = count',
         Sound(q, d), \A t \in Thread : q.current = t => d[t] \notin Blocking,
         Reasons(u, q, d, k)
  PROVE  WaitInv'
<1>1. Sound(proc, pc)'
  BY DEF Sound, Apart, Asleep
<1>2. (\A t \in Thread : proc.current = t => pc[t] \notin Blocking)'
  OBVIOUS
<1>3. Reasons(use, proc, pc, count)'
  <2>1. (SendersWait(use) => RoomAttended(proc, pc, count, use.size))'
    BY DEF Reasons, RoomAttended, SomeAsleep, Attending, Asleep, SendersWait
  <2>2. (ReceiversWait(use) => StockAttended(proc, pc, count))'
    BY DEF Reasons, StockAttended, SomeAsleep, Attending, Asleep, ReceiversWait
  <2>3. (Pair(use) => AllBlocked(proc, pc, count, use.size))'
    BY DEF Reasons, AllBlocked, Asleep, Pair
  <2>4. QED BY <2>1, <2>2, <2>3 DEF Reasons
<1>4. QED BY <1>1, <1>2, <1>3 DEF WaitInv

\* A step that leaves the queue as it is and only moves who is awake.
LEMMA AwakeStep ==
  ASSUME QueueTypes, WaitInv, UNCHANGED <<use, count>>,
         NEW q, q = proc', Sound(q, pc),
         \A t \in Thread : Asleep(q, t) <=> Asleep(proc, t),
         Attending(proc, pc) => Attending(q, pc),
         NEW d, d = pc',
         d = pc \/ \E t \in Thread : q.current = t /\ \A u \in Thread \ {t} : d[u] = pc[u],
         \A t \in Thread : q.current = t => d[t] \notin Blocking
  PROVE  WaitInv'
<1>1. Reasons(use, q, pc, count)
  BY DEF WaitInv, Reasons, RoomAttended, StockAttended, AllBlocked, SomeAsleep
<1>2. PICK c, n, u : c = pc /\ n = count /\ u = use
  OBVIOUS
<1>3. Sound(q, d) /\ Reasons(u, q, d, n)
  <2>1. CASE d = pc
    BY <1>1, <1>2, <2>1
  <2>2. CASE \E t \in Thread : q.current = t /\ \A x \in Thread \ {t} : d[x] = pc[x]
    BY <1>1, <1>2, <2>2, RunnerAside DEF Reasons
  <2>3. QED BY <2>1, <2>2
<1>4. u = use' /\ n = count'
  BY <1>2
<1>5. QED BY <1>3, <1>4, WaitNext

\* A step that calls the body of op on the processor p.
LEMMA BodyStep ==
  ASSUME QueueTypes, UNCHANGED use, NEW p, Sound(p, pc), NEW op, NEW m, Body(p, op, m),
         SendersWait(use) => RoomAttended(p, pc, count, use.size) \/ op = "Send",
         ReceiversWait(use) => StockAttended(p, pc, count) \/ op = "Receive",
         Pair(use) => /\ AllBlocked(p, pc, count, use.size)
                      /\ \E t \in Thread : p.current = t /\ op \in use.ops[t],
         NEW d, d = pc',
         d = pc \/ \E t \in Thread : p.current = t /\ \A u \in Thread \ {t} : d[u] = pc[u],
         \A t \in Thread : p.current = t => d[t] \notin Blocking
  PROVE  WaitInv'
<1>1. PICK u, c, n, q, k : u = use /\ c = pc /\ n = count /\ q = proc' /\ k = count'
  OBVIOUS
<1>2. /\ u \in Uses /\ n \in 0..u.size
      /\ \A t \in Thread : c[t] \in u.ops[t] \cup {"idle"}
  BY <1>1 DEF QueueTypes, RingTypes, Size
<1>3. Moves(op, p, n, u.size, q, k)
  BY <1>1, BodyMoves DEF QueueTypes, Size
<1>4. Sound(q, c) /\ q.current = p.current /\ Reasons(u, q, c, k)
  <2>1. /\ SendersWait(u) => RoomAttended(p, c, n, u.size) \/ op = "Send"
        /\ ReceiversWait(u) => StockAttended(p, c, n) \/ op = "Receive"
        /\ Pair(u) => /\ AllBlocked(p, c, n, u.size)
                      /\ \E t \in Thread : p.current = t /\ op \in u.ops[t]
    BY <1>1
  <2>2. Sound(p, c)
    BY <1>1
  <2>3. QED BY <1>2, <1>3, <2>1, <2>2, BodyKeepsReasons
<1>5. Sound(q, d) /\ Reasons(u, q, d, k)
  <2>1. CASE d = pc
    BY <1>1, <1>4, <2>1
  <2>2. CASE \E t \in Thread : p.current = t /\ \A x \in Thread \ {t} : d[x] = pc[x]
    BY <1>1, <1>4, <2>2, RunnerAside DEF Reasons
  <2>3. QED BY <2>1, <2>2
<1>6. u = use'
  BY <1>1
<1>7. QED BY <1>1, <1>4, <1>5, <1>6, WaitNext

\* A step that puts the caller t of op to sleep, from the processor p.
LEMMA SleepStep ==
  ASSUME QueueTypes, UNCHANGED <<use, count>>, NEW p, NEW d, Sound(p, d), d = pc',
         NEW t \in Thread, p.current = t, d[t] \in use.ops[t] \cap Blocking,
         Blocked(d[t]), Pair(use) => AllBlocked(p, d, count, use.size),
         proc' = SleepOn(p, waiters)
  PROVE  WaitInv'
<1>1. PICK u, n, q : u = use /\ n = count /\ q = proc'
  OBVIOUS
<1>2. u \in Uses /\ n \in Nat
  BY <1>1, SizeOK DEF QueueTypes, RingTypes
<1>3. IF d[t] \in SendOps THEN n >= u.size ELSE n = 0
  BY <1>1 DEF Blocked, SendOps, IsFull, IsEmpty, Size
<1>4. Sound(q, d) /\ q.current = Null /\ Reasons(u, q, d, n)
  BY <1>1, <1>2, <1>3, SleepKeepsReasons
<1>5. u = use' /\ n = count'
  BY <1>1
<1>6. \A x \in Thread : q.current # x
  BY <1>4, MessageQueueAssumption
<1>7. QED BY <1>1, <1>4, <1>5, <1>6, WaitNext

\* A woken Peek or Receive or Send has the processor again.
LEMMA WokenMoves ==
  ASSUME WaitInv, NEW t \in Thread, MayRun(proc, t),
         NEW p, p = Woken(t)
  PROVE  /\ Sound(p, pc) /\ p.current = t
         /\ Pair(use) => AllBlocked(p, pc, count, use.size)
         /\ ReceiversWait(use) /\ pc[t] = "Peek" => StockAttended(p, pc, count)
<1>1. PICK q, c, d, w : q = proc /\ c = pc /\ d = Dispatch(proc, t) /\ w = WakeOne(d, waiters)
  OBVIOUS
<1>2. Sound(q, c) /\ MayRun(q, t) /\ d = Dispatch(q, t)
  BY <1>1 DEF WaitInv
<1>3. /\ Sound(d, c) /\ d.current = t
      /\ \A u \in Thread : Asleep(d, u) <=> Asleep(q, u)
  BY <1>2, DispatchMoves
<1>4. /\ Sound(w, c) /\ w.current = t
      /\ \A u \in Thread : Asleep(w, u) => Asleep(d, u)
      /\ SomeAsleep(d) => Attending(w, c)
  BY <1>1, <1>3, WakeMoves
<1>5. p = IF c[t] = "Peek" THEN w ELSE d
  BY <1>1 DEF Woken
<1>6. Sound(p, c) /\ p.current = t /\ \A u \in Thread : Asleep(p, u) => Asleep(q, u)
  BY <1>3, <1>4, <1>5
<1>7. Pair(use) => AllBlocked(p, c, count, use.size)
  BY <1>1, <1>6 DEF WaitInv, Reasons, AllBlocked
<1>8. c[t] = "Peek" => StockAttended(p, c, count)
  BY <1>4, <1>5 DEF StockAttended, SomeAsleep
<1>9. QED BY <1>1, <1>6, <1>7, <1>8

LEMMA WaitStep == QueueTypes /\ WaitInv /\ [Next]_vars => WaitInv'
<1> SUFFICES ASSUME QueueTypes, WaitInv, [Next]_vars PROVE WaitInv'
  OBVIOUS
<1>1. /\ UNCHANGED use /\ Sound(proc, pc)
      /\ \A t \in Thread : proc.current = t => pc[t] \notin Blocking
  BY DEF Next, vars, WaitInv
<1>2. /\ SendersWait(use) => RoomAttended(proc, pc, count, use.size)
      /\ ReceiversWait(use) => StockAttended(proc, pc, count)
      /\ Pair(use) => AllBlocked(proc, pc, count, use.size)
  BY DEF WaitInv, Reasons
<1>3. CASE UNCHANGED vars
  <2>1. PICK q, d : q = proc /\ d = pc
    OBVIOUS
  <2>2. q = proc' /\ d = pc' /\ UNCHANGED <<use, count>>
    BY <1>3, <2>1 DEF vars
  <2>3. Sound(q, pc)
    BY <1>1, <2>1
  <2>4. QED BY <1>1, <2>1, <2>2, <2>3, AwakeStep
<1>4. CASE \E op \in use.handlerOps, m \in Message : Interrupt(op, m)
  <2>1. PICK op \in use.handlerOps, m \in Message : Interrupt(op, m)
    BY <1>4
  <2>2. PICK p, d : p = proc /\ d = pc
    OBVIOUS
  <2>3. Body(p, op, m) /\ d = pc' /\ Sound(p, pc)
    BY <1>1, <2>1, <2>2 DEF Interrupt
  <2>4. ~Pair(use)
    BY <2>1 DEF Pair
  <2>5. QED BY <1>1, <1>2, <2>2, <2>3, <2>4, BodyStep
<1>5. ASSUME NEW t \in Thread, Run(t) \/ Yield(t) PROVE WaitInv'
  <2>1. PICK p, q, c : p = proc /\ q = proc' /\ c = pc
    OBVIOUS
  <2>2. c = pc' /\ UNCHANGED <<use, count>> /\ Sound(p, c)
    BY <1>1, <1>5, <2>1 DEF Run, Yield
  <2>3. CASE Run(t)
    <3>1. MayRun(p, t) /\ q = Dispatch(p, t) /\ c[t] \notin Blocking
      BY <2>1, <2>3 DEF Run
    <3>2. /\ Sound(q, c) /\ q.current = t /\ q.ready = p.ready \ {t}
          /\ \A u \in Thread : Asleep(q, u) <=> Asleep(p, u)
      BY <2>2, <3>1, DispatchMoves
    <3>3. Attending(p, c) => Attending(q, c)
      BY <3>1, <3>2 DEF Attending
    <3>4. QED BY <2>1, <2>2, <3>1, <3>2, <3>3, AwakeStep
  <2>4. CASE Yield(t)
    <3>1. p.current = t /\ q = YieldNow(p)
      BY <2>1, <2>4 DEF Yield
    <3>2. /\ Sound(q, c) /\ q.current = Null /\ p.ready \subseteq q.ready
          /\ \A u \in Thread : Asleep(q, u) <=> Asleep(p, u)
      BY <2>2, <3>1, YieldMoves
    <3>3. Attending(p, c) => Attending(q, c)
      BY <3>2 DEF Attending
    <3>4. \A u \in Thread : q.current # u
      BY <3>2, MessageQueueAssumption
    <3>5. QED BY <2>1, <2>2, <3>2, <3>3, <3>4, AwakeStep
  <2>5. QED BY <1>5, <2>3, <2>4
<1>6. ASSUME NEW t \in Thread, Again(t) PROVE WaitInv'
  <2>1. PICK op, m, p, c : op = pc[t] /\ m = arg[t] /\ p = Woken(t) /\ c = pc
    OBVIOUS
  <2>2. op \in use.ops[t] \cap Blocking
    BY <1>6, <2>1 DEF Again, QueueTypes, Blocking
  <2>3. /\ Sound(p, pc) /\ p.current = t
        /\ Pair(use) => AllBlocked(p, pc, count, use.size)
        /\ ReceiversWait(use) /\ pc[t] = "Peek" => StockAttended(p, pc, count)
    BY <1>6, <2>1, WokenMoves DEF Again
  <2>4. CASE Blocked(op) /\ proc' = SleepOn(p, waiters) /\ UNCHANGED <<count, pc>>
    <3>1. Sound(p, c) /\ c = pc' /\ c[t] = op
      BY <2>1, <2>3, <2>4
    <3>2. QED BY <1>1, <2>1, <2>2, <2>3, <2>4, <3>1, SleepStep
  <2>5. CASE Body(p, op, m) /\ pc' = [pc EXCEPT ![t] = "idle"]
    <3>1. PICK d : d = pc'
      OBVIOUS
    <3>2. d[t] = "idle" /\ \A u \in Thread \ {t} : d[u] = pc[u]
      BY <2>5, <3>1 DEF QueueTypes
    <3>3. SendersWait(use) => RoomAttended(p, pc, count, use.size) \/ op = "Send"
      BY <2>2 DEF SendersWait
    <3>4. ReceiversWait(use) => StockAttended(p, pc, count) \/ op = "Receive"
      BY <2>1, <2>2, <2>3 DEF ReceiversWait
    <3>5. "idle" \notin Blocking
      BY DEF Blocking
    <3>6. Pair(use) => /\ AllBlocked(p, pc, count, use.size)
                       /\ \E u \in Thread : p.current = u /\ op \in use.ops[u]
      BY <2>2, <2>3
    <3>7. \/ d = pc
          \/ \E u \in Thread : p.current = u /\ \A x \in Thread \ {u} : d[x] = pc[x]
      BY <2>3, <3>2
    <3>8. \A u \in Thread : p.current = u => d[u] \notin Blocking
      BY <2>3, <3>2, <3>5
    <3>9. UNCHANGED use /\ Sound(p, pc) /\ Body(p, op, m)
      BY <1>1, <2>3, <2>5
    <3>10. QED BY <3>1, <3>3, <3>4, <3>6, <3>7, <3>8, <3>9, BodyStep
  <2>6. QED BY <1>6, <2>1, <2>4, <2>5 DEF Again
<1>7. ASSUME NEW t \in Thread, NEW op \in use.ops[t], NEW m \in Message,
             Call(t, op, m) \/ TryLook(t, op, m)
      PROVE  WaitInv'
  <2>1. PICK p, c, d : p = proc /\ c = pc /\ d = pc'
    OBVIOUS
  <2>2. p.current = t /\ c[t] = "idle" /\ Sound(p, c)
    BY <1>1, <1>7, <2>1 DEF Call, TryLook
  <2>3. "idle" \notin Blocking
    BY DEF Blocking
  <2>4. CASE Call(t, op, m) /\ Blocked(op) /\ pc' = [pc EXCEPT ![t] = op]
               /\ proc' = SleepOn(proc, waiters) /\ UNCHANGED count
    <3>1. d[t] = op /\ op \in Blocking /\ \A u \in Thread \ {t} : d[u] = c[u]
      BY <2>1, <2>4 DEF Call, QueueTypes
    <3>2. PICK n, size : n = count /\ size = use.size
      OBVIOUS
    <3>3. Sound(p, d) /\ (AllBlocked(p, c, n, size) => AllBlocked(p, d, n, size))
      BY <2>2, <3>1, RunnerAside
    <3>4. Pair(use) => AllBlocked(p, d, count, use.size)
      BY <1>2, <2>1, <3>2, <3>3
    <3>5. Blocked(d[t]) /\ d[t] \in use.ops[t] \cap Blocking
      BY <1>7, <2>4, <3>1
    <3>6. proc' = SleepOn(p, waiters)
      BY <2>1, <2>4
    <3>7. QED BY <1>1, <2>1, <2>2, <2>4, <3>3, <3>4, <3>5, <3>6, SleepStep
  <2>5. CASE Body(proc, op, m) /\ UNCHANGED pc
    BY <1>1, <1>2, <1>7, <2>1, <2>2, <2>3, <2>5, BodyStep
  <2>6. CASE TryLook(t, op, m)
    <3>1. d[t] = op /\ op \notin Blocking /\ \A u \in Thread \ {t} : d[u] = c[u]
      BY <2>1, <2>6 DEF TryLook, QueueTypes, Trying, Blocking
    <3>2. p = proc' /\ UNCHANGED <<use, count>>
      BY <1>1, <2>1, <2>6 DEF TryLook
    <3>3. QED BY <2>1, <2>2, <3>1, <3>2, AwakeStep
  <2>7. QED BY <1>7, <2>4, <2>5, <2>6 DEF Call
<1>8. ASSUME NEW t \in Thread, TryDo(t) PROVE WaitInv'
  <2>1. PICK op, m, p, d : op = pc[t] /\ m = arg[t] /\ p = proc /\ d = pc'
    OBVIOUS
  <2>2. /\ op \in use.ops[t] /\ op \notin Blocking /\ p.current = t /\ Sound(p, pc)
    BY <1>1, <1>8, <2>1 DEF TryDo, QueueTypes, Blocking, Trying
  <2>3. d[t] = "idle" /\ \A u \in Thread \ {t} : d[u] = pc[u]
    BY <1>8, <2>1 DEF TryDo, QueueTypes
  <2>4. "idle" \notin Blocking
    BY DEF Blocking
  <2>5. CASE Unchanged(proc)
    <3>1. p = proc' /\ UNCHANGED <<use, count>>
      BY <1>1, <2>1, <2>5 DEF Unchanged
    <3>2. QED BY <2>1, <2>2, <2>3, <2>4, <3>1, AwakeStep
  <2>6. CASE Body(p, op, m)
    BY <1>1, <1>2, <2>1, <2>2, <2>3, <2>4, <2>6, BodyStep
  <2>7. QED BY <1>8, <2>1, <2>5, <2>6 DEF TryDo
<1>9. QED BY <1>3, <1>4, <1>5, <1>6, <1>7, <1>8 DEF Next, ThreadStep

\* A use for which the wakeups are enough.
OneWay(u) == SendersWait(u) \/ ReceiversWait(u) \/ Pair(u)

LEMMA WaitSafe ==
  ASSUME QueueTypes, WaitInv, OneWay(use)
  PROVE  NoneStranded
<1> SUFFICES ASSUME NEW i \in 1..Len(proc.asleep[waiters]),
                    ~Blocked(pc[proc.asleep[waiters][i]])
             PROVE  Attending(proc, pc)
  BY DEF NoneStranded, Attending
<1>1. PICK t : t = proc.asleep[waiters][i]
  OBVIOUS
<1>2. t \in Thread /\ Asleep(proc, t) /\ SomeAsleep(proc)
  <2>1. proc.asleep[waiters] \in Seq(Thread)
    BY AQueue DEF WaitInv, Sound, Processor
  <2>2. t \in Thread
    BY <1>1, <2>1
  <2>3. QED BY <1>1, <2>2 DEF Asleep, SomeAsleep
<1>3. PICK op : op = pc[t] /\ op \in use.ops[t] \cap Blocking /\ ~Blocked(op)
  BY <1>1, <1>2 DEF WaitInv, Sound, QueueTypes, Blocking
<1>4. count \in 0..Size /\ Size \in Nat /\ Size = use.size
  BY SizeOK DEF QueueTypes, RingTypes, Size
<1>5. CASE SendersWait(use)
  <2>1. op = "Send"
    BY <1>2, <1>3, <1>5 DEF SendersWait
  <2>2. count < use.size
    BY <1>3, <1>4, <2>1 DEF Blocked, IsFull
  <2>3. QED BY <1>2, <1>5, <2>2 DEF WaitInv, Reasons, RoomAttended
<1>6. CASE ReceiversWait(use)
  <2>1. op \in {"Receive", "Peek"}
    BY <1>2, <1>3, <1>6 DEF ReceiversWait
  <2>2. count > 0
    BY <1>3, <1>4, <2>1 DEF Blocked, IsEmpty
  <2>3. QED BY <1>2, <1>6, <2>2 DEF WaitInv, Reasons, StockAttended
<1>7. CASE Pair(use)
  <2>1. IF op \in SendOps THEN count >= use.size ELSE count = 0
    BY <1>2, <1>3, <1>7 DEF WaitInv, Reasons, AllBlocked
  <2>2. QED BY <1>3, <1>4, <2>1 DEF Blocked, SendOps, IsFull, IsEmpty
<1>8. QED BY <1>5, <1>6, <1>7 DEF OneWay

(***************************************************************************)
(* Nobody is left asleep at a message queue who could go on, for any       *)
(* number of threads: if only those who send wait or only those who        *)
(* receive, on one or two slots, or if the queue has one sender and one    *)
(* receiver and any size.  The wakeups at a count of 1 and of m_max_count  *)
(* - 1 only (MessageQueue.hpp:35, 54, 108, 130) do not reach everybody in  *)
(* other uses: when three senders sleep and three slots are freed before   *)
(* any of them runs, the last one stays asleep.                            *)
(***************************************************************************)
THEOREM NobodyStranded ==
  ASSUME \A u \in Uses : OneWay(u)
  PROVE  Spec => []NoneStranded
<1>1. QueueTypes /\ [Next]_vars => QueueTypes'
  BY QueueStep
<1>2. QueueTypes /\ WaitInv => NoneStranded
  BY WaitSafe DEF QueueTypes
<1>3. QED BY QueueInit, WaitInit, <1>1, WaitStep, <1>2, PTL DEF Spec

-----------------------------------------------------------------------------
(* A condition and its mutex.                                              *)

\* Who is in a call does not hold the mutex.
CondInv ==
  /\ condPc = [t \in User |-> condPc[t]]
  /\ \A t \in User : condPc[t] # "call" => t \notin holds
  /\ holds \subseteq User /\ IsFiniteSet(holds)
  /\ C!CountMatchesHolders

LEMMA SameSize == \A S : C!Cardinality(S) = Cardinality(S)
BY DEF C!Cardinality, Cardinality

LEMMA CondInit == C!Init => CondInv
BY FS_EmptySet, SameSize DEF C!Init, CondInv, C!CountMatchesHolders

\* A thread takes the mutex, and one gives it back.
LEMMA Holds ==
  ASSUME NEW S, IsFiniteSet(S), NEW t
  PROVE  /\ Cardinality(S) \in Nat
         /\ IsFiniteSet(S \cup {t}) /\ IsFiniteSet(S \ {t})
         /\ t \notin S => Cardinality(S \cup {t}) = Cardinality(S) + 1
         /\ t \in S => Cardinality(S \ {t}) = Cardinality(S) - 1
         /\ Cardinality(S) = 0 => S = {}
BY FS_CardinalityType, FS_AddElement, FS_RemoveElement, FS_EmptySet

LEMMA CondStep == CondInv /\ [C!Next]_C!vars => CondInv'
<1> SUFFICES ASSUME CondInv, [C!Next]_C!vars PROVE CondInv'
  OBVIOUS
<1>1. /\ lockCount = Cardinality(holds) /\ lockCount \in Nat
      /\ holds \subseteq User /\ IsFiniteSet(holds)
      /\ \A t \in User : condPc[t] # "call" => t \notin holds
  BY Holds, SameSize DEF CondInv, C!CountMatchesHolders
<1>2. ASSUME UNCHANGED <<lockCount, condPc, holds>> PROVE CondInv'
  BY <1>2 DEF CondInv, C!CountMatchesHolders
\* The thread c takes the mutex, or goes to sleep without it.
<1>3. ASSUME NEW c \in User, c \notin holds, lockCount' = lockCount + 1,
             holds' = holds \cup {c},
             \/ UNCHANGED condPc /\ condPc[c] = "call"
             \/ condPc' = [condPc EXCEPT ![c] = "call"]
      PROVE  CondInv'
  <2>1. lockCount' = Cardinality(holds') /\ IsFiniteSet(holds')
    BY <1>1, <1>3, Holds
  <2>2. QED BY <1>1, <1>3, <2>1, SameSize DEF CondInv, C!CountMatchesHolders
<1>4. ASSUME NEW c \in User, c \notin holds', lockCount' = Cardinality(holds'),
             holds' \subseteq holds, IsFiniteSet(holds'), NEW place,
             UNCHANGED condPc \/ condPc' = [condPc EXCEPT ![c] = place]
      PROVE  CondInv'
  BY <1>1, <1>4, SameSize DEF CondInv, C!CountMatchesHolders
<1>5. CASE C!WakeAllStep \/ UNCHANGED C!vars
  BY <1>2, <1>5 DEF C!WakeAllStep, C!vars
<1>6. ASSUME NEW c \in User, C!Lock(c) PROVE CondInv'
  <2>1. condPc[c] = "call" /\ c \notin holds
    BY <1>6 DEF C!Lock, C!Calls
  <2>2. CASE lockCount > 0
    BY <1>1, <1>4, <1>6, <2>1, <2>2 DEF C!Lock, C!LockBody
  <2>3. CASE ~(lockCount > 0)
    BY <1>1, <1>3, <1>6, <2>1, <2>3 DEF C!Lock, C!LockBody
  <2>4. QED BY <2>2, <2>3
<1>7. ASSUME NEW c \in User, C!Unlock(c) PROVE CondInv'
  <2>1. /\ c \in holds /\ lockCount' = lockCount - 1 /\ holds' = holds \ {c}
        /\ UNCHANGED condPc
    BY <1>7 DEF C!Unlock
  <2>2. lockCount' = Cardinality(holds') /\ IsFiniteSet(holds')
    BY <1>1, <2>1, Holds
  <2>3. QED BY <1>4, <2>1, <2>2
<1>8. ASSUME NEW c \in User, C!Wait(c) PROVE CondInv'
  <2>1. condPc[c] = "call" /\ c \in holds
    BY <1>8 DEF C!Wait, C!Calls
  <2>2. lockCount - 1 = Cardinality(holds \ {c}) /\ IsFiniteSet(holds \ {c})
    BY <1>1, <2>1, Holds
  <2>3. \/ /\ lockCount' = lockCount - 1 /\ holds' = holds \ {c}
           /\ \/ condPc' = [condPc EXCEPT ![c] = "wait"]
              \/ condPc' = [condPc EXCEPT ![c] = "lock"]
        \/ /\ lockCount - 1 = 0 /\ lockCount' = 1 /\ UNCHANGED <<condPc, holds>>
    <3>1. lockCount - 1 \in Nat
      BY <2>2, Holds
    <3>2. QED BY <1>1, <1>8, <3>1 DEF C!Wait, C!LockBody
  <2>4. CASE lockCount - 1 = 0 /\ lockCount' = 1 /\ UNCHANGED <<condPc, holds>>
    <3>1. UNCHANGED lockCount
      BY <1>1, <2>4
    <3>2. QED BY <1>2, <2>4, <3>1
  <2>5. CASE lockCount' = lockCount - 1 /\ holds' = holds \ {c}
    <3>1. /\ c \notin holds' /\ lockCount' = Cardinality(holds')
          /\ holds' \subseteq holds /\ IsFiniteSet(holds')
      BY <2>2, <2>5
    <3>2. QED BY <1>4, <2>1, <2>3, <2>4, <3>1
  <2>6. QED BY <2>3, <2>4, <2>5
<1>9. ASSUME NEW c \in User, C!Signal(c) \/ C!Broadcast(c) \/ C!YieldTo(c)
      PROVE  CondInv'
  BY <1>2, <1>9 DEF C!Signal, C!Broadcast, C!YieldTo
<1>10. ASSUME NEW c \in User, C!Resume(c) PROVE CondInv'
  <2>1. condPc[c] # "call" /\ c \notin holds
    BY <1>1, <1>10 DEF C!Resume
  <2>2. CASE condPc[c] = "wait" /\ lockCount > 0
    BY <1>1, <1>4, <1>10, <2>1, <2>2 DEF C!Resume, C!LockBody
  <2>3. CASE ~(condPc[c] = "wait" /\ lockCount > 0)
    BY <1>3, <1>10, <2>1, <2>3 DEF C!Resume
  <2>4. QED BY <2>2, <2>3
<1>11. QED BY <1>5, <1>6, <1>7, <1>8, <1>9, <1>10 DEF C!Next

(***************************************************************************)
(* The mutex of a condition is never unlocked more often than it was       *)
(* locked (the assertion of Mutex.cpp:38), for any threads, whatever Wait, *)
(* Signal and Broadcast leave behind in the queues.                        *)
(***************************************************************************)
THEOREM CondCountMatches == WaitingSpec => []CountMatchesHolders
<1>1. CondInv => CountMatchesHolders
  BY DEF CondInv, CountMatchesHolders
<1>2. WaitingInit => CondInv
  BY CondInit DEF WaitingInit
<1>3. CondInv /\ [WaitingNext]_all => CondInv'
  <2>1. [WaitingNext]_all => [C!Next]_C!vars
    BY DEF WaitingNext, InQueue, InCondition, InOnce, InSettings, AtRest, all,
           condition, C!vars
  <2>2. QED BY <2>1, CondStep
<1>4. QED BY <1>1, <1>2, <1>3, PTL DEF WaitingSpec

-----------------------------------------------------------------------------
(* The initialiser of a Once.                                              *)

InInit == {t \in Thread : oncePc[t] = "init"}

OnceInv ==
  /\ oncePc = [t \in Thread |-> oncePc[t]]
  /\ \/ /\ onceState = "Uninitialized" /\ ran = 0
        /\ \A t \in Thread : oncePc[t] = "call"
     \/ /\ onceState = "InProgress" /\ ran = 0
        /\ \E i \in Thread : InInit = {i}
        /\ \A t \in Thread : oncePc[t] # "done"
     \/ onceState = "Initialized" /\ ran = 1 /\ InInit = {}

LEMMA OnceInit == O!Init => OnceInv
BY DEF O!Init, OnceInv

LEMMA OnceStep == OnceInv /\ [O!Next]_O!vars => OnceInv'
<1> SUFFICES ASSUME OnceInv, [O!Next]_O!vars PROVE OnceInv'
  OBVIOUS
<1>1. ASSUME UNCHANGED <<onceState, oncePc, ran>> PROVE OnceInv'
  BY <1>1 DEF OnceInv, InInit
<1>2. CASE O!Interrupt \/ UNCHANGED O!vars
  BY <1>1, <1>2 DEF O!Interrupt, O!vars
<1>3. ASSUME NEW t \in Thread, O!InitialiserPauses(t) \/ O!Yield(t) \/ O!Run(t)
      PROVE  OnceInv'
  BY <1>1, <1>3 DEF O!InitialiserPauses, O!Yield, O!Run
<1>4. ASSUME NEW t \in Thread, O!Once(t) PROVE OnceInv'
  <2>1. CASE onceState = "Uninitialized"
    <3>1. /\ onceState' = "InProgress" /\ ran' = 0 /\ oncePc' = [oncePc EXCEPT ![t] = "init"]
          /\ \A u \in Thread : oncePc[u] = "call"
      BY <1>4, <2>1 DEF O!Once, O!Goes, OnceInv
    <3>2. InInit' = {t} /\ \A u \in Thread : oncePc'[u] # "done"
      BY <3>1 DEF InInit, OnceInv
    <3>3. QED BY <3>1, <3>2 DEF OnceInv
  <2>2. CASE onceState # "Uninitialized"
    <3>1. /\ UNCHANGED <<onceState, ran>> /\ oncePc' = [oncePc EXCEPT ![t] = "wait"]
          /\ oncePc[t] = "call"
      BY <1>4, <2>2 DEF O!Once, O!Goes, O!At
    <3>2. InInit' = InInit /\ \A u \in Thread : oncePc'[u] = "done" => oncePc[u] = "done"
      BY <3>1 DEF InInit, OnceInv
    <3>3. QED BY <2>2, <3>1, <3>2 DEF OnceInv
  <2>3. QED BY <2>1, <2>2
<1>5. ASSUME NEW t \in Thread, O!Waits(t) PROVE OnceInv'
  <2>1. CASE onceState = "InProgress"
    BY <1>1, <1>5, <2>1 DEF O!Waits
  <2>2. CASE onceState # "InProgress"
    <3>1. /\ UNCHANGED <<onceState, ran>> /\ oncePc' = [oncePc EXCEPT ![t] = "done"]
          /\ oncePc[t] = "wait"
      BY <1>5, <2>2 DEF O!Waits, O!Goes, O!At
    <3>2. InInit' = InInit
      BY <3>1 DEF InInit, OnceInv
    <3>3. onceState = "Initialized"
      BY <2>2, <3>1 DEF OnceInv
    <3>4. QED BY <3>1, <3>2, <3>3 DEF OnceInv
  <2>3. QED BY <2>1, <2>2
<1>6. ASSUME NEW t \in Thread, O!Done(t) PROVE OnceInv'
  <2>1. oncePc[t] = "init" /\ oncePc' = [oncePc EXCEPT ![t] = "done"] /\ ran' = ran + 1
    BY <1>6 DEF O!Done, O!At, O!Goes
  <2>2. onceState = "InProgress" /\ ran = 0 /\ InInit = {t}
    BY <2>1 DEF OnceInv, InInit
  <2>3. onceState' = "Initialized" /\ InInit' = {}
    BY <1>6, <2>1, <2>2 DEF O!Done, InInit, OnceInv
  <2>4. QED BY <2>1, <2>2, <2>3 DEF OnceInv
<1>7. QED BY <1>2, <1>3, <1>4, <1>5, <1>6 DEF O!Next, O!ThreadStep

(***************************************************************************)
(* The initialiser of a Once runs to its end once, in one thread, and      *)
(* whoever returns does so after that end (Once.cpp:15-24), for any number *)
(* of threads and wherever it gives up the processor.                      *)
(***************************************************************************)
THEOREM OnceInitialises == WaitingSpec => []InitialisedOnce
<1>1. OnceInv => InitialisedOnce
  <2> SUFFICES ASSUME OnceInv PROVE O!InitialisedOnce
    BY DEF InitialisedOnce
  <2>1. \A S : O!Cardinality(S) = Cardinality(S)
    BY DEF O!Cardinality, Cardinality
  <2>2. /\ InInit = {} => Cardinality(InInit) = 0
        /\ \A i : InInit = {i} => Cardinality(InInit) = 1
    BY FS_EmptySet, FS_Singleton
  <2>3. ran + O!Cardinality(InInit) <= 1
    <3>1. (\A t \in Thread : oncePc[t] = "call") => InInit = {}
      BY DEF InInit
    <3>2. QED BY <2>1, <2>2, <3>1 DEF OnceInv
  <2>4. (\E t \in Thread : oncePc[t] = "done") => ran = 1
    BY DEF OnceInv
  <2>5. QED BY <2>3, <2>4 DEF O!InitialisedOnce, InInit
<1>2. WaitingInit => OnceInv
  BY OnceInit DEF WaitingInit
<1>3. OnceInv /\ [WaitingNext]_all => OnceInv'
  <2>1. [WaitingNext]_all => [O!Next]_O!vars
    BY DEF WaitingNext, InQueue, InCondition, InOnce, InSettings, AtRest, all,
           once, O!vars
  <2>2. QED BY <2>1, OnceStep
<1>4. QED BY <1>1, <1>2, <1>3, PTL DEF WaitingSpec

-----------------------------------------------------------------------------
(* The settings.                                                           *)

\* A number of a set of numbers is the least.
LEMMA LeastExists ==
  ASSUME NEW T \in SUBSET Nat, T # {}
  PROVE  \E i \in T : \A j \in T : i <= j
<1> DEFINE Lt == {p \in Nat \X Nat : p[1] < p[2]}
<1>1. PICK i \in T : \A j \in T : <<j, i>> \notin OpToRel(<, Nat)
  BY NatLessThanWellFounded, WFMin
<1>2. Lt = OpToRel(<, Nat)
  BY Zenon DEF OpToRel
<1>3. ASSUME NEW j \in T PROVE i <= j
  <2>1. <<j, i>> \notin Lt
    BY <1>1, <1>2
  <2>2. QED BY <2>1
<1>4. QED BY <1>3

\* A file is of the form that is assumed of it.
LEMMA FileForm ==
  ASSUME file \in Files, Conf!Valid
  PROVE  /\ file.count \in Nat /\ file.offset \in [0 .. file.count -> Nat]
         /\ Conf!getHeaderSize = 8 + 2 * file.count
         /\ \A a \in Asks : a.form # "index" =>
              /\ Conf!EntryAt(0).key # a.key
              /\ \A i, j \in 0 .. file.count :
                   /\ Conf!EntryAt(file.offset[i]).key = a.key
                   /\ Conf!EntryAt(file.offset[j]).key = a.key
                   => file.offset[i] = file.offset[j]
<1>1. Conf!FileAssumption(file)
  BY WaitingAssumption DEF Conf!SysConfAssumption
<1>2. /\ file.count \in Nat
      /\ 8 + 2 * file.count \in 8 .. Conf!LookupTableOffset
      /\ Conf!LookupTableOffset \in Int
  <2>1. file.count \in Nat
    BY <1>1 DEF Conf!FileAssumption
  <2>2. Conf!LookupTableOffset \in Int
    BY DEF Conf!LookupTableOffset, Conf!Size
  <2>3. QED BY <2>1, <2>2 DEF Conf!Valid, Conf!getHeaderSize
<1>3. QED
  BY <1>1, <1>2 DEF Conf!FileAssumption, Conf!getHeaderSize, Conf!EntryAt

\* What is found at an offset lies in m_data.
LEMMA EntryInside ==
  ASSUME file \in Files, NEW offset \in Nat,
         Conf!getEntry(offset) # Conf!NotFound
  PROVE  LET r == Conf!getEntry(offset)
         IN  r.at = offset /\ r.data + r.size <= Conf!Size
<1> DEFINE e == Conf!EntryAt(offset)
<1>1. e.type \in Conf!Types /\ e.keyLength \in Nat /\ e.low \in Nat /\ e.high \in Nat
  BY WaitingAssumption
     DEF Conf!SysConfAssumption, Conf!FileAssumption, Conf!EntryAt, Conf!EntryIn
<1>2. e.type # "None" => Conf!Lead(e) \in 0 .. 2 /\ Conf!Width(e) \in Nat
  BY <1>1 DEF Conf!Lead, Conf!Width, Conf!Types, Conf!Numbers
<1> HIDE DEF e
<1>3. /\ e.type # "None"
      /\ offset + 1 + e.keyLength + Conf!Width(e) <= Conf!LookupTableOffset
      /\ Conf!getEntry(offset) =
           [type |-> e.type, at |-> offset,
            data |-> offset + 1 + e.keyLength + Conf!Lead(e), size |-> Conf!Width(e)]
  BY DEF e, Conf!getEntry, Conf!testEntryLength
<1>4. QED BY <1>1, <1>2, <1>3 DEF Conf!LookupTableOffset, Conf!Size

\* A slot of a file.
LEMMA SlotOffset ==
  ASSUME file \in Files, Conf!Valid, NEW i \in 0 .. file.count - 1
  PROVE  /\ i \in 0 .. file.count
         /\ Conf!getEntryOffset(i) = 0 \/ Conf!getEntryOffset(i) = file.offset[i]
         /\ Conf!getEntryOffset(i) \in Nat
BY FileForm DEF Conf!getEntryOffset

(***************************************************************************)
(* Who looks for a key finds a place of the file that has this key, and    *)
(* the place of every slot that has it.                                    *)
(***************************************************************************)
LEMMA FindsKey ==
  ASSUME file \in Files, Conf!Valid, NEW a \in Asks, a.form # "index"
  PROVE  LET o == Conf!findEntryOffset(a.key, a.lookup)
         IN  /\ o # 0 => \E i \in 0 .. file.count :
                           file.offset[i] = o /\ Conf!IsKey(o, a.key)
             /\ \A i \in Conf!Slots : Conf!IsKey(Conf!getEntryOffset(i), a.key)
                                     => o = Conf!getEntryOffset(i)
<1> DEFINE o == Conf!findEntryOffset(a.key, a.lookup)
           hits == {i \in 0 .. file.count - 1 : Conf!IsKey(Conf!getEntryOffset(i), a.key)}
           hinted == Conf!Hinted(a.key, a.lookup)
           least == CHOOSE i \in hits : \A j \in hits : i <= j
\* It is enough to look at the place.
<1>1. ASSUME NEW i \in 0 .. file.count, file.offset[i] = o, Conf!IsKey(o, a.key)
      PROVE  \A j \in Conf!Slots : Conf!IsKey(Conf!getEntryOffset(j), a.key)
                                  => o = Conf!getEntryOffset(j)
  <2>1. SUFFICES ASSUME NEW j \in Conf!Slots, Conf!IsKey(Conf!getEntryOffset(j), a.key)
                 PROVE  o = Conf!getEntryOffset(j)
    OBVIOUS
  <2>2. j \in 0 .. file.count /\ file.offset[j] = Conf!getEntryOffset(j)
    BY <2>1, SlotOffset DEF Conf!Slots
  <2>3. /\ Conf!EntryAt(file.offset[i]).key = a.key
        /\ Conf!EntryAt(file.offset[j]).key = a.key
    BY <1>1, <2>1, <2>2 DEF Conf!IsKey
  <2>4. QED BY <1>1, <2>2, <2>3, FileForm
<1>2. CASE a.lookup \in DOMAIN file.table /\ hinted # {}
  <2>1. o \in hinted
    BY <1>2 DEF Conf!findEntryOffset
  <2>2. \E i \in 0 .. file.count : file.offset[i] = o /\ Conf!IsKey(o, a.key)
    BY <2>1 DEF Conf!Hinted
  <2>3. QED BY <1>1, <2>2
<1>3. CASE ~(a.lookup \in DOMAIN file.table /\ hinted # {}) /\ hits = {}
  <2>1. o = 0
    BY <1>3 DEF Conf!findEntryOffset
  <2>2. \A i \in Conf!Slots : ~Conf!IsKey(Conf!getEntryOffset(i), a.key)
    BY <1>3 DEF Conf!Slots
  <2>3. QED BY <2>1, <2>2
<1>4. CASE ~(a.lookup \in DOMAIN file.table /\ hinted # {}) /\ hits # {}
  <2>1. least \in hits
    <3>1. hits \in SUBSET Nat
      BY FileForm
    <3>2. \E i \in hits : \A j \in hits : i <= j
      BY <1>4, <3>1, LeastExists
    <3>3. QED BY <3>2
  <2>2. o = Conf!getEntryOffset(least)
    BY <1>4 DEF Conf!findEntryOffset
  <2>3. least \in 0 .. file.count - 1 /\ Conf!IsKey(o, a.key)
    BY <2>1, <2>2
  <2>4. o # 0
    BY <2>3, FileForm DEF Conf!IsKey
  <2>5. least \in 0 .. file.count /\ file.offset[least] = o
    BY <2>2, <2>3, <2>4, SlotOffset
  <2>6. QED BY <1>1, <2>3, <2>5
<1>5. QED BY <1>2, <1>3, <1>4

\* What a call may return of a file that is valid.
RightAnswer(a, r) ==
  IF r = Conf!NotFound
  THEN \A i \in Conf!Answers(a) : ~Conf!Usable(a, i)
  ELSE /\ r.data + r.size <= Conf!Size
       /\ \E i \in 0 .. file.count :
            /\ file.offset[i] = r.at
            /\ IF a.form = "index" THEN i = a.index ELSE Conf!IsKey(r.at, a.key)

LEMMA FoundRight ==
  ASSUME file \in Files, Conf!Valid, NEW a \in Asks
  PROVE  RightAnswer(a, Conf!Found(a))
<1>1. CASE a.form = "index"
  <2>1. a.index \in Nat /\ file.count \in Nat
    BY <1>1, WaitingAssumption, FileForm DEF Conf!SysConfAssumption
  <2>2. CASE a.index >= file.count \/ Conf!getEntryOffset(a.index) = 0
    <3>1. Conf!Found(a) = Conf!NotFound
      BY <1>1, <2>2 DEF Conf!Found
    <3>2. Conf!Answers(a) = {}
      BY <1>1, <2>1, <2>2 DEF Conf!Answers, Conf!Slots
    <3>3. QED BY <3>1, <3>2 DEF RightAnswer
  <2>3. CASE ~(a.index >= file.count \/ Conf!getEntryOffset(a.index) = 0)
    <3>1. a.index \in 0 .. file.count - 1
      BY <2>1, <2>3
    <3>2. /\ a.index \in 0 .. file.count /\ Conf!getEntryOffset(a.index) \in Nat
          /\ file.offset[a.index] = Conf!getEntryOffset(a.index)
      BY <2>3, <3>1, SlotOffset
    <3>3. Conf!Found(a) = Conf!getEntry(Conf!getEntryOffset(a.index))
      BY <1>1, <2>3 DEF Conf!Found
    <3>4. CASE Conf!Found(a) = Conf!NotFound
      BY <1>1, <3>3, <3>4 DEF RightAnswer, Conf!Answers, Conf!Usable
    <3>5. CASE Conf!Found(a) # Conf!NotFound
      BY <1>1, <3>2, <3>3, <3>5, EntryInside DEF RightAnswer
    <3>6. QED BY <3>4, <3>5
  <2>4. QED BY <2>2, <2>3
<1>2. CASE a.form # "index"
  <2> DEFINE o == Conf!findEntryOffset(a.key, a.lookup)
             e == Conf!getEntry(o)
  <2>1. /\ o # 0 => \E i \in 0 .. file.count :
                      file.offset[i] = o /\ Conf!IsKey(o, a.key)
        /\ \A i \in Conf!Answers(a) : Conf!getEntryOffset(i) # 0 /\ o = Conf!getEntryOffset(i)
    BY <1>2, FindsKey DEF Conf!Answers, Conf!Slots
  <2>2. Conf!Found(a) = IF o = 0 \/ (a.form = "number" /\ e.type \notin Conf!Numbers)
                        THEN Conf!NotFound ELSE e
    BY <1>2 DEF Conf!Found
  <2> HIDE DEF o
  <2>3. CASE Conf!Found(a) = Conf!NotFound
    BY <2>1, <2>2, <2>3 DEF RightAnswer, Conf!Usable
  <2>4. CASE Conf!Found(a) # Conf!NotFound
    <3>1. o # 0 /\ Conf!Found(a) = e
      BY <2>2, <2>4
    <3>2. o \in Nat
      BY <2>1, <3>1, FileForm
    <3>3. QED BY <1>2, <2>1, <2>4, <3>1, <3>2, EntryInside DEF RightAnswer
  <2>5. QED BY <2>3, <2>4
<1>3. QED BY <1>1, <1>2

\* A thread in a call has the processor, except where it sleeps.
Running == {"asks", "locked", "syncs", "checks", "looks"}
\* Who waits for the file, or looks whether it has come.
Fetching == {"syncs", "waits", "checks"}

ConfTypes ==
  /\ setProc \in Processor /\ file \in Files
  /\ request \in {"synced", "ios", "answered"}
  /\ state \in {"Error", "Invalid", "Valid"}
  /\ setLock \in Int
  /\ setPc = [t \in Caller |-> setPc[t]]
  /\ ask = [t \in Caller |-> ask[t]]
  /\ early = [t \in Caller |-> early[t]]
  /\ result = [t \in Caller |-> result[t]]
  /\ \A t \in Caller :
       /\ setPc[t] \in {"call", "opens"} \cup Running \cup Fetching
       /\ setPc[t] # "call" => ask[t] \in Asks

\* Before the object is there, at most one thread constructs it.
Unbuilt ==
  /\ state = "Error" /\ setLock = 0
  /\ \A t \in Caller :
       /\ setPc[t] \in {"call", "opens"}
       /\ setPc[t] = "call" => early[t] /\ result[t] = Conf!NotFound
       /\ \A u \in Caller : setPc[t] = "opens" /\ setPc[u] = "opens" => t = u

\* What m_state and m_mutex say of the file and of the threads.
StateMeans ==
  /\ state = "Valid" => file.exists /\ Conf!Valid /\ request = "synced"
  /\ state = "Invalid" => file.exists
  /\ state = "Error" => \/ ~file.exists \/ ~Conf!Valid
                        \/ \E t \in Caller : setPc[t] \in Fetching
  /\ setLock <= 1
  /\ setLock > 0 => \E t \in Caller : setPc[t] \in {"locked", "looks"} \cup Fetching
  /\ \A t \in Caller :
       /\ setPc[t] # "opens"
       /\ setPc[t] \in Fetching =>
            /\ state = "Error" /\ file.exists
            /\ \A u \in Caller : setPc[u] \in Fetching => u = t
       /\ setPc[t] = "locked" => state # "Error"
       /\ setPc[t] = "checks" => request = "synced"
       /\ setPc[t] = "looks" => state = "Valid"

LEMMA ConfProcessor ==
  ASSUME NEW p \in Processor, NEW q \in Queue
  PROVE  /\ p.current \in Thread => Conf!SleepOn(p, q) \in Processor
         /\ Conf!SleepOn(p, q).current = Null
         /\ Conf!WakeOne(p, q) \in Processor
         /\ Conf!WakeOne(p, q).current = p.current
         /\ p.current \in Thread => Conf!YieldNow(p) \in Processor
         /\ Conf!YieldNow(p).current = Null
         /\ \A t \in Thread : /\ Conf!Dispatch(p, t) \in Processor
                              /\ Conf!Dispatch(p, t).current = t
<1>1. /\ Conf!SleepOn(p, q) = SleepOn(p, q) /\ Conf!WakeOne(p, q) = WakeOne(p, q)
      /\ Conf!YieldNow(p) = YieldNow(p)
      /\ \A t : Conf!Dispatch(p, t) = Dispatch(p, t)
  BY DEF Conf!SleepOn, Conf!WakeOne, Conf!YieldNow, Conf!Dispatch,
         SleepOn, WakeOne, YieldNow, Dispatch
<1>2. /\ SleepOn(p, q).current = Null /\ WakeOne(p, q).current = p.current
      /\ YieldNow(p).current = Null
      /\ \A t \in Thread : Dispatch(p, t).current = t
  BY DEF SleepOn, WakeOne, YieldNow, Dispatch, Processor
<1>3. QED BY <1>1, <1>2, ProcessorRoutines

\* The file does not change, and so what it answers does not.
LEMMA FileFrame ==
  ASSUME UNCHANGED file
  PROVE  /\ Conf!Valid' = Conf!Valid
         /\ \A o : Conf!getEntry(o)' = Conf!getEntry(o)
         /\ \A i : Conf!getEntryOffset(i)' = Conf!getEntryOffset(i)
         /\ \A o, key : Conf!IsKey(o, key)' = Conf!IsKey(o, key)
         /\ \A a : Conf!Answers(a)' = Conf!Answers(a)
         /\ \A a, i : Conf!Usable(a, i)' = Conf!Usable(a, i)
         /\ \A a, r : RightAnswer(a, r)' = RightAnswer(a, r)
<1>1. /\ Conf!Valid' = Conf!Valid /\ Conf!getHeaderSize' = Conf!getHeaderSize
      /\ \A o : Conf!EntryAt(o)' = Conf!EntryAt(o)
  BY DEF Conf!Valid, Conf!getHeaderSize, Conf!EntryAt
<1>2. /\ \A o : Conf!getEntry(o)' = Conf!getEntry(o)
      /\ \A i : Conf!getEntryOffset(i)' = Conf!getEntryOffset(i)
      /\ \A o, key : Conf!IsKey(o, key)' = Conf!IsKey(o, key)
  BY <1>1 DEF Conf!getEntry, Conf!getEntryOffset, Conf!IsKey
<1>3. Conf!Slots' = Conf!Slots
  BY <1>2 DEF Conf!Slots
<1>4. /\ \A a : Conf!Answers(a)' = Conf!Answers(a)
      /\ \A a, i : Conf!Usable(a, i)' = Conf!Usable(a, i)
  BY <1>2, <1>3 DEF Conf!Answers, Conf!Usable
<1>5. \A a, r : RightAnswer(a, r)' = RightAnswer(a, r)
  BY <1>2, <1>4 DEF RightAnswer
<1>6. QED BY <1>1, <1>2, <1>4, <1>5

\* What the last call of t returned is right.
RightFor(t) ==
  IF result[t] = Conf!NotFound
  THEN \/ early[t] \/ ~file.exists \/ ~Conf!Valid
       \/ RightAnswer(ask[t], result[t])
  ELSE file.exists /\ Conf!Valid /\ request = "synced" /\ RightAnswer(ask[t], result[t])

LEMMA RightForEach ==
  ASSUME ~rebuilt, built
  PROVE  GetRight <=> \A t \in Caller : setPc[t] = "call" => RightFor(t)
BY DEF GetRight, Conf!GetRight, RightFor, RightAnswer

\* A right answer stays right.
LEMMA RightFrame ==
  ASSUME NEW t \in Caller, RightFor(t), UNCHANGED file,
         request' = request \/ request # "synced",
         ask'[t] = ask[t], early'[t] = early[t], result'[t] = result[t]
  PROVE  RightFor(t)'
BY FileFrame DEF RightFor

ConfInv ==
  /\ ConfTypes
  /\ ~rebuilt =>
       /\ \A t \in Caller : setPc[t] \in Running => setProc.current = t
       /\ IF built
          THEN StateMeans /\ \A t \in Caller : setPc[t] = "call" => RightFor(t)
          ELSE Unbuilt

LEMMA ConfInit == Conf!Init => ConfInv
<1> SUFFICES ASSUME Conf!Init PROVE ConfInv
  OBVIOUS
<1>1. Caller \subseteq Thread
  BY WaitingAssumption DEF Conf!SysConfAssumption
<1>2. setProc \in Processor
  <2>1. <<>> \in Seq(Thread)
    OBVIOUS
  <2>2. QED BY <1>1, <2>1 DEF Conf!Init, Conf!ProcessorInit, Processor
<1>3. QED BY <1>2 DEF Conf!Init, ConfInv, ConfTypes, Unbuilt, Running, Fetching

LEMMA ConfStep == ConfInv /\ [Conf!Next]_Conf!vars => ConfInv'
<1> SUFFICES ASSUME ConfInv, [Conf!Next]_Conf!vars PROVE ConfInv'
  OBVIOUS
<1>1. /\ ConfTypes /\ Caller \subseteq Thread /\ Null \notin Thread
      /\ opening \in Queue /\ reading \in Queue /\ locking \in Queue
  BY WaitingAssumption DEF ConfInv, Conf!SysConfAssumption
\* What does not move the threads.
<1>2. ASSUME UNCHANGED <<file, built, state, setLock, setPc, ask, early, result, rebuilt>>,
             setProc' \in Processor, setProc'.current = setProc.current,
             request' \in {"synced", "ios", "answered"},
             request' = request \/ request = "ios"
      PROVE  ConfInv'
  <2>1. ConfTypes'
    BY <1>1, <1>2 DEF ConfTypes
  <2>2. ASSUME NEW t \in Caller, RightFor(t) PROVE RightFor(t)'
    BY <1>2, <2>2, RightFrame
  <2>3. Unbuilt => Unbuilt'
    BY <1>2 DEF Unbuilt, Conf!NotFound
  <2>4. StateMeans => StateMeans'
    BY <1>2, FileFrame DEF StateMeans
  <2>5. QED BY <1>2, <2>1, <2>2, <2>3, <2>4 DEF ConfInv
<1>3. CASE Conf!Undefined \/ UNCHANGED Conf!vars
  BY <1>1, <1>2, <1>3 DEF Conf!Undefined, Conf!vars, Conf!object, ConfTypes
<1>4. CASE Conf!IosOpens \/ Conf!IosReads
  BY <1>1, <1>2, <1>4, ConfProcessor
     DEF Conf!IosOpens, Conf!IosReads, Conf!object, ConfTypes
\* Who does not have the processor is not running.
<1>5. ASSUME NEW t \in Caller, ~rebuilt, setProc.current \in {t, Null}
      PROVE  \A u \in Caller \ {t} : setPc[u] \notin Running
  BY <1>1, <1>5 DEF ConfInv
<1>6. ASSUME NEW t \in Caller, Conf!Yield(t) \/ Conf!Run(t) \/ Conf!Answered(t)
      PROVE  ConfInv'
  <2>1. PICK p, d : p = setProc.current /\ d = setProc'.current
    OBVIOUS
  <2>2. /\ ~rebuilt /\ p \in {t, Null} /\ setProc' \in Processor
        /\ UNCHANGED <<file, built, state, request, setLock, ask, early, result, rebuilt>>
        /\ \/ setPc[t] = "call" /\ setPc' = setPc
           \/ setPc[t] = "waits" /\ setPc' = [setPc EXCEPT ![t] = "syncs"] /\ d = t
    <3>1. CASE Conf!Yield(t)
      BY <1>1, <2>1, <3>1, ConfProcessor DEF Conf!Yield, Conf!At, Conf!object, ConfTypes
    <3>2. CASE Conf!Run(t)
      BY <1>1, <2>1, <3>2, ConfProcessor
         DEF Conf!Run, Conf!Woken, Conf!MayRun, ConfTypes, Running, Fetching
    <3>3. CASE Conf!Answered(t)
      BY <1>1, <2>1, <3>3, ConfProcessor
         DEF Conf!Answered, Conf!Woken, Conf!MayRun, Conf!Goes, Conf!object, ConfTypes
    <3>4. QED BY <1>6, <3>1, <3>2, <3>3
  <2>3. ConfTypes'
    BY <1>1, <2>2 DEF ConfTypes, Running, Fetching
  <2>4. \A u \in Caller : setPc'[u] \in Running => setProc'.current = u
    BY <1>1, <1>5, <2>1, <2>2 DEF Running, ConfTypes
  <2>5. ASSUME NEW u \in Caller, RightFor(u) PROVE RightFor(u)'
    BY <2>2, <2>5, RightFrame
  <2>6. Unbuilt => Unbuilt'
    BY <2>2 DEF Unbuilt, Conf!NotFound
  <2>7. StateMeans => StateMeans'
    <3>1. Conf!Valid' = Conf!Valid
      BY <2>2, FileFrame
    <3>2. \A u \in Caller : /\ setPc'[u] \in Fetching <=> setPc[u] \in Fetching
                            /\ \A place \in {"opens", "locked", "checks", "looks"} :
                                 setPc'[u] = place <=> setPc[u] = place
      BY <1>1, <2>2 DEF ConfTypes, Fetching
    <3>3. QED BY <2>2, <3>1, <3>2 DEF StateMeans
  <2>8. \A u \in Caller : setPc'[u] = "call" <=> setPc[u] = "call"
    BY <1>1, <2>2 DEF ConfTypes
  <2>9. QED BY <2>2, <2>3, <2>4, <2>5, <2>6, <2>7, <2>8 DEF ConfInv
<1>7. ASSUME NEW t \in Caller, Conf!GetSysConf(t) PROVE ConfInv'
  <2>1. PICK a \in Asks : /\ ask' = [ask EXCEPT ![t] = a]
                          /\ early' = [early EXCEPT ![t] = FALSE]
    BY <1>7 DEF Conf!GetSysConf
  <2>2. /\ ~rebuilt /\ setProc.current = t /\ setPc[t] = "call"
        /\ UNCHANGED <<file, built, result>>
    BY <1>7 DEF Conf!GetSysConf, Conf!At
  <2>3. ASSUME NEW u \in Caller, u # t
        PROVE  ask'[u] = ask[u] /\ early'[u] = early[u] /\ result'[u] = result[u]
    BY <1>1, <2>1, <2>2, <2>3 DEF ConfTypes
  <2>4. CASE built
    <3>1. /\ setPc' = [setPc EXCEPT ![t] = "asks"]
          /\ UNCHANGED <<setProc, state, request, setLock, rebuilt>>
      BY <1>7, <2>4 DEF Conf!GetSysConf, Conf!Goes, Conf!object
    <3>2. ConfTypes'
      BY <1>1, <2>1, <2>2, <3>1 DEF ConfTypes, Running
    <3>3. \A u \in Caller : setPc'[u] \in Running => setProc'.current = u
      BY <1>1, <2>2, <3>1 DEF ConfTypes, ConfInv
    <3>4. StateMeans'
      <4>1. Conf!Valid' = Conf!Valid /\ StateMeans
        BY <2>2, <2>4, FileFrame DEF ConfInv
      <4>2. \A u \in Caller : /\ setPc'[u] \in Fetching <=> setPc[u] \in Fetching
                              /\ \A place \in {"opens", "locked", "checks", "looks"} :
                                   setPc'[u] = place <=> setPc[u] = place
        BY <1>1, <2>2, <3>1 DEF ConfTypes, Fetching
      <4>3. QED BY <2>2, <3>1, <4>1, <4>2 DEF StateMeans
    <3>5. ASSUME NEW u \in Caller, setPc'[u] = "call" PROVE RightFor(u)'
      <4>1. u # t /\ RightFor(u)
        BY <1>1, <2>2, <2>4, <3>1, <3>5 DEF ConfTypes, ConfInv
      <4>2. QED BY <2>2, <2>3, <3>1, <4>1, RightFrame
    <3>6. QED BY <2>2, <2>4, <3>1, <3>2, <3>3, <3>4, <3>5 DEF ConfInv
  <2>5. CASE ~built
    <3>1. /\ state' = "Error" /\ request' = "synced" /\ setLock' = 0
          /\ rebuilt' = \E u \in Caller : setPc[u] = "opens"
          /\ setPc' = [setPc EXCEPT ![t] = "opens"]
          /\ setProc' = Conf!SleepOn(setProc, opening)
      BY <1>7, <2>5 DEF Conf!GetSysConf, Conf!Goes
    <3>2. setProc' \in Processor /\ setProc'.current = Null
      BY <1>1, <2>2, <3>1, ConfProcessor DEF ConfTypes
    <3>3. ConfTypes'
      <4>1. /\ setPc'[t] = "opens" /\ ask'[t] = a
            /\ \A u \in Caller \ {t} : setPc'[u] = setPc[u] /\ ask'[u] = ask[u]
        BY <1>1, <2>1, <3>1 DEF ConfTypes
      <4>2. /\ setPc' = [u \in Caller |-> setPc'[u]] /\ ask' = [u \in Caller |-> ask'[u]]
            /\ early' = [u \in Caller |-> early'[u]]
            /\ result' = [u \in Caller |-> result'[u]]
        BY <1>1, <2>1, <2>2, <3>1 DEF ConfTypes
      <4>3. file' \in Files /\ state' = "Error" /\ request' = "synced" /\ setLock' \in Int
        BY <1>1, <2>2, <3>1 DEF ConfTypes
      <4>4. QED BY <1>1, <3>2, <4>1, <4>2, <4>3 DEF ConfTypes
    <3>4. ~rebuilt' => Unbuilt'
      BY <1>1, <2>2, <2>3, <2>5, <3>1 DEF ConfTypes, ConfInv, Unbuilt, Conf!NotFound
    <3>5. \A u \in Caller : setPc'[u] \notin Running
      BY <1>1, <2>2, <2>5, <3>1 DEF ConfTypes, ConfInv, Unbuilt, Running
    <3>6. QED BY <2>2, <2>5, <3>3, <3>4, <3>5 DEF ConfInv
  <2>6. QED BY <2>4, <2>5
<1>8. ASSUME NEW t \in Caller, Conf!Opened(t) PROVE ConfInv'
  <2>1. /\ ~rebuilt /\ setProc.current = Null /\ setPc[t] = "opens"
        /\ setProc' \in Processor /\ setProc'.current = t
        /\ built' = TRUE /\ setPc' = [setPc EXCEPT ![t] = "asks"]
        /\ UNCHANGED <<file, setLock, ask, early, result, rebuilt>>
    BY <1>1, <1>8, ConfProcessor
       DEF Conf!Opened, Conf!Woken, Conf!MayRun, Conf!Goes, ConfTypes
  <2>2. ~built /\ Unbuilt
    BY <1>1, <2>1 DEF ConfInv, StateMeans
  <2>3. IF file.exists THEN state' = "Invalid" /\ request' = "ios"
                       ELSE UNCHANGED <<state, request>>
    BY <1>8 DEF Conf!Opened
  <2>4. ASSUME NEW u \in Caller, u # t
        PROVE  setPc'[u] = "call" /\ early'[u] /\ result'[u] = Conf!NotFound
    BY <1>1, <2>1, <2>2, <2>4 DEF ConfTypes, Unbuilt
  <2>5. ConfTypes'
    BY <1>1, <2>1, <2>3 DEF ConfTypes, Running
  <2>6. \A u \in Caller : setPc'[u] \in Running => setProc'.current = u
    BY <2>1, <2>4 DEF Running
  <2>7. setPc'[t] = "asks"
    BY <1>1, <2>1 DEF ConfTypes
  <2>8. StateMeans'
    BY <2>1, <2>2, <2>3, <2>4, <2>7, FileFrame DEF StateMeans, Unbuilt, Fetching
  <2>9. \A u \in Caller : setPc'[u] = "call" => RightFor(u)'
    BY <2>4, <2>7 DEF RightFor, Conf!NotFound
  <2>10. QED BY <2>1, <2>5, <2>6, <2>8, <2>9 DEF ConfInv
\* The other steps are of a thread that has the processor, when the object is
\* there.
<1>9. ASSUME NEW t \in Caller, Conf!Works(t)
      PROVE  /\ ~rebuilt /\ built /\ StateMeans /\ setProc.current = t
             /\ setPc[t] \in Running
             /\ \A u \in Caller \ {t} : setPc[u] \notin Running
             /\ \A u \in Caller : setPc[u] = "call" => RightFor(u)
             /\ UNCHANGED <<file, built, rebuilt, ask>>
  <2>1. ~rebuilt /\ setProc.current = t /\ setPc[t] \in Running
    BY <1>9 DEF Conf!Works, Conf!Ask, Conf!Locked, Conf!Sync, Conf!Check,
                Conf!Get, Conf!At, Running
  <2>2. built
    BY <2>1 DEF ConfInv, Unbuilt, Running
  <2>3. UNCHANGED <<file, built, rebuilt, ask>>
    BY <1>9 DEF Conf!Works, Conf!Ask, Conf!Locked, Conf!Sync, Conf!Check, Conf!Get
  <2>4. QED BY <1>5, <2>1, <2>2, <2>3 DEF ConfInv
\* Such a step of t to a place, which sets what it returns or nothing.
<1>10. ASSUME NEW t \in Caller, Conf!Works(t), NEW place,
              setPc' = [setPc EXCEPT ![t] = place],
              place \in {"call", "waits"} \cup Running,
              setProc' \in Processor, place \in Running => setProc'.current = t,
              state' \in {"Error", "Invalid", "Valid"}, setLock' \in Int,
              request' \in {"synced", "ios", "answered"},
              request' = request \/ request # "synced",
              StateMeans', place = "call" => RightFor(t)',
              early' = [early EXCEPT ![t] = early'[t]],
              result' = [result EXCEPT ![t] = result'[t]]
       PROVE  ConfInv'
  <2>1. ConfTypes'
    BY <1>1, <1>9, <1>10 DEF ConfTypes, Running, Fetching
  <2>2. \A u \in Caller : setPc'[u] \in Running => setProc'.current = u
    BY <1>1, <1>9, <1>10 DEF ConfTypes
  <2>3. ASSUME NEW u \in Caller, setPc'[u] = "call" PROVE RightFor(u)'
    <3>1. CASE u = t
      BY <1>1, <1>10, <2>3, <3>1 DEF ConfTypes
    <3>2. CASE u # t
      BY <1>1, <1>9, <1>10, <2>3, <3>2, RightFrame DEF ConfTypes
    <3>3. QED BY <3>1, <3>2
  <2>4. QED BY <1>9, <1>10, <2>1, <2>2, <2>3 DEF ConfInv
<1>11. ASSUME NEW t \in Caller, Conf!Ask(t) PROVE ConfInv'
  <2>1. Conf!Works(t) /\ setPc[t] = "asks"
    BY <1>11 DEF Conf!Works, Conf!Ask, Conf!At
  <2>2. /\ UNCHANGED <<state, request>>
        /\ early' = [early EXCEPT ![t] = Conf!CountsNone(t)
                                         \/ \E u \in Caller : setPc[u] = "waits"]
    BY <1>11 DEF Conf!Ask
  <2>3. early' = [early EXCEPT ![t] = early'[t]]
    BY <1>1, <2>2 DEF ConfTypes
  <2>4. CASE state = "Error" \/ Conf!CountsNone(t)
    <3>1. /\ setPc' = [setPc EXCEPT ![t] = "call"]
          /\ result' = [result EXCEPT ![t] = Conf!NotFound]
          /\ UNCHANGED <<setProc, setLock>>
      BY <1>11, <2>4 DEF Conf!Ask, Conf!Refused, Conf!Goes
    <3>2. result' = [result EXCEPT ![t] = result'[t]] /\ result'[t] = Conf!NotFound
      BY <1>1, <3>1 DEF ConfTypes
    <3>3. early'[t] \/ ~file.exists \/ ~Conf!Valid
      <4>1. \A u \in Caller : setPc[u] \in Fetching => setPc[u] = "waits"
        BY <1>9, <2>1 DEF Running, Fetching
      <4>2. CASE Conf!CountsNone(t)
        BY <1>1, <2>2, <4>2 DEF ConfTypes
      <4>3. CASE state = "Error"
        BY <1>1, <1>9, <2>1, <2>2, <4>1, <4>3 DEF ConfTypes, StateMeans
      <4>4. QED BY <2>4, <4>2, <4>3
    <3>4. RightFor(t)'
      BY <1>9, <2>1, <3>2, <3>3, FileFrame DEF RightFor
    <3>5. StateMeans'
      <4>1. Conf!Valid' = Conf!Valid /\ StateMeans
        BY <1>9, <2>1, FileFrame
      <4>2. \A u \in Caller : /\ setPc'[u] \in Fetching <=> setPc[u] \in Fetching
                              /\ \A place \in {"opens", "locked", "checks", "looks"} :
                                   setPc'[u] = place <=> setPc[u] = place
        BY <1>1, <2>1, <3>1 DEF ConfTypes, Fetching
      <4>3. QED BY <1>9, <2>1, <2>2, <3>1, <4>1, <4>2 DEF StateMeans
    <3>6. /\ setProc' \in Processor /\ state' \in {"Error", "Invalid", "Valid"}
          /\ setLock' \in Int /\ request' \in {"synced", "ios", "answered"}
          /\ request' = request /\ "call" \notin Running
      BY <1>1, <2>2, <3>1 DEF ConfTypes, Running
    <3>7. QED BY <1>10, <2>1, <2>3, <3>1, <3>2, <3>4, <3>5, <3>6
  <2>5. CASE ~(state = "Error" \/ Conf!CountsNone(t))
    <3>1. ~(setLock > 0)
      BY <1>9, <2>1, <2>5 DEF StateMeans, Running, Fetching
    <3>2. /\ setPc' = [setPc EXCEPT ![t] = "locked"] /\ setLock' = 1
          /\ UNCHANGED <<setProc, result>>
      BY <1>11, <2>5, <3>1 DEF Conf!Ask, Conf!Goes
    <3>3. StateMeans'
      <4>1. Conf!Valid' = Conf!Valid /\ StateMeans
        BY <1>9, <2>1, FileFrame
      <4>2. setPc'[t] = "locked" /\ \A u \in Caller \ {t} : setPc'[u] = setPc[u]
        BY <1>1, <3>2 DEF ConfTypes
      <4>3. QED BY <1>9, <2>1, <2>2, <2>5, <3>2, <4>1, <4>2 DEF StateMeans, Fetching
    <3>4. result' = [result EXCEPT ![t] = result'[t]]
      BY <1>1, <3>2 DEF ConfTypes
    <3>5. /\ setProc' \in Processor /\ setProc'.current = t
          /\ state' \in {"Error", "Invalid", "Valid"}
          /\ setLock' \in Int /\ request' \in {"synced", "ios", "answered"}
          /\ request' = request /\ "locked" \in Running /\ "locked" # "call"
      BY <1>1, <1>9, <2>1, <2>2, <3>2 DEF ConfTypes, Running
    <3>6. QED BY <1>10, <2>1, <2>3, <3>2, <3>3, <3>4, <3>5
  <2>6. QED BY <2>4, <2>5
<1>12. ASSUME NEW t \in Caller, Conf!Locked(t) PROVE ConfInv'
  <2>1. Conf!Works(t) /\ setPc[t] = "locked" /\ UNCHANGED <<request, early, setLock, setProc, result>>
    <3>1. setPc[t] = "locked" /\ Conf!Works(t)
      BY <1>12 DEF Conf!Works, Conf!Locked, Conf!At
    <3>2. state # "Error"
      BY <1>9, <3>1 DEF StateMeans
    <3>3. QED BY <1>12, <3>1, <3>2 DEF Conf!Locked
  <2>2. state # "Error" /\ StateMeans /\ Conf!Valid' = Conf!Valid
    BY <1>9, <2>1, FileFrame DEF StateMeans
  <2>3. early' = [early EXCEPT ![t] = early'[t]] /\ result' = [result EXCEPT ![t] = result'[t]]
    BY <1>1, <2>1 DEF ConfTypes
  <2>4. CASE state = "Valid"
    <3>1. setPc' = [setPc EXCEPT ![t] = "looks"] /\ UNCHANGED state
      BY <1>12, <2>4 DEF Conf!Locked, Conf!Goes
    <3>2. setPc'[t] = "looks" /\ \A u \in Caller \ {t} : setPc'[u] = setPc[u]
      BY <1>1, <3>1 DEF ConfTypes
    <3>3. StateMeans'
      BY <1>9, <2>1, <2>2, <2>4, <3>1, <3>2 DEF StateMeans, Fetching
    <3>4. QED BY <1>1, <1>9, <1>10, <2>1, <2>3, <3>1, <3>3 DEF ConfTypes, Running
  <2>5. CASE state = "Invalid"
    <3>1. setPc' = [setPc EXCEPT ![t] = "syncs"] /\ state' = "Error"
      BY <1>12, <2>5 DEF Conf!Locked, Conf!Goes
    <3>2. setPc'[t] = "syncs" /\ \A u \in Caller \ {t} : setPc'[u] = setPc[u]
      BY <1>1, <3>1 DEF ConfTypes
    <3>3. StateMeans'
      BY <1>9, <2>1, <2>2, <2>5, <3>1, <3>2 DEF StateMeans, Fetching, Running
    <3>4. QED BY <1>1, <1>9, <1>10, <2>1, <2>3, <3>1, <3>3 DEF ConfTypes, Running
  <2>6. QED BY <1>1, <2>2, <2>4, <2>5 DEF ConfTypes
<1>13. ASSUME NEW t \in Caller, Conf!Sync(t) PROVE ConfInv'
  <2>1. Conf!Works(t) /\ setPc[t] = "syncs" /\ UNCHANGED <<state, early, setLock, result>>
    BY <1>13 DEF Conf!Works, Conf!Sync, Conf!At
  <2>2. StateMeans /\ Conf!Valid' = Conf!Valid /\ setProc.current \in Thread
    BY <1>1, <1>9, <2>1, FileFrame
  <2>3. early' = [early EXCEPT ![t] = early'[t]] /\ result' = [result EXCEPT ![t] = result'[t]]
    BY <1>1, <2>1 DEF ConfTypes
  <2>4. CASE request = "ios"
    <3>1. /\ setPc' = [setPc EXCEPT ![t] = "waits"] /\ UNCHANGED request
          /\ setProc' \in Processor
      BY <1>1, <1>13, <2>2, <2>4, ConfProcessor DEF Conf!Sync, Conf!Goes, ConfTypes
    <3>2. setPc'[t] = "waits" /\ \A u \in Caller \ {t} : setPc'[u] = setPc[u]
      BY <1>1, <3>1 DEF ConfTypes
    <3>3. StateMeans'
      BY <1>9, <2>1, <2>2, <3>1, <3>2 DEF StateMeans, Fetching
    <3>4. QED BY <1>1, <1>9, <1>10, <2>1, <2>3, <3>1, <3>3 DEF ConfTypes, Running
  <2>5. CASE request # "ios"
    <3>1. /\ setPc' = [setPc EXCEPT ![t] = "checks"] /\ request' = "synced"
          /\ UNCHANGED setProc
      BY <1>13, <2>5 DEF Conf!Sync, Conf!Goes
    <3>2. setPc'[t] = "checks" /\ \A u \in Caller \ {t} : setPc'[u] = setPc[u]
      BY <1>1, <3>1 DEF ConfTypes
    <3>3. StateMeans'
      BY <1>9, <2>1, <2>2, <3>1, <3>2 DEF StateMeans, Fetching
    <3>4. QED BY <1>1, <1>9, <1>10, <2>1, <2>3, <3>1, <3>3 DEF ConfTypes, Running
  <2>6. QED BY <2>4, <2>5
<1>14. ASSUME NEW t \in Caller, Conf!Check(t) PROVE ConfInv'
  <2>1. Conf!Works(t) /\ setPc[t] = "checks" /\ UNCHANGED <<request, early>>
    BY <1>14 DEF Conf!Works, Conf!Check, Conf!At
  <2>2. /\ StateMeans /\ Conf!Valid' = Conf!Valid
        /\ state = "Error" /\ file.exists /\ request = "synced"
        /\ \A u \in Caller \ {t} : setPc[u] \notin Fetching
    BY <1>9, <2>1, FileFrame DEF StateMeans, Fetching
  <2>3. early' = [early EXCEPT ![t] = early'[t]]
    BY <1>1, <2>1 DEF ConfTypes
  <2>4. CASE Conf!Valid
    <3>1. /\ setPc' = [setPc EXCEPT ![t] = "looks"] /\ state' = "Valid"
          /\ UNCHANGED <<setProc, setLock, result>>
      BY <1>14, <2>4 DEF Conf!Check, Conf!Goes
    <3>2. setPc'[t] = "looks" /\ \A u \in Caller \ {t} : setPc'[u] = setPc[u]
      BY <1>1, <3>1 DEF ConfTypes
    <3>3. StateMeans'
      BY <1>9, <2>1, <2>2, <2>4, <3>1, <3>2 DEF StateMeans, Fetching, Running
    <3>4. result' = [result EXCEPT ![t] = result'[t]]
      BY <1>1, <3>1 DEF ConfTypes
    <3>5. QED BY <1>1, <1>9, <1>10, <2>1, <2>3, <3>1, <3>3, <3>4 DEF ConfTypes, Running
  <2>5. CASE ~Conf!Valid
    <3>1. /\ setPc' = [setPc EXCEPT ![t] = "call"] /\ UNCHANGED state
          /\ result' = [result EXCEPT ![t] = Conf!NotFound]
          /\ setLock' = setLock - 1 /\ setProc' = Conf!WakeOne(setProc, locking)
      BY <1>14, <2>5 DEF Conf!Check, Conf!Refused, Conf!Unlock, Conf!Goes
    <3>2. setPc'[t] = "call" /\ \A u \in Caller \ {t} : setPc'[u] = setPc[u]
      BY <1>1, <3>1 DEF ConfTypes
    <3>3. StateMeans'
      BY <1>1, <1>9, <2>1, <2>2, <2>5, <3>1, <3>2
         DEF StateMeans, Fetching, Running, ConfTypes
    <3>4. result' = [result EXCEPT ![t] = result'[t]] /\ result'[t] = Conf!NotFound
      BY <1>1, <3>1 DEF ConfTypes
    <3>5. RightFor(t)'
      BY <2>2, <2>5, <3>4 DEF RightFor
    <3>6. setProc' \in Processor
      BY <1>1, <3>1, ConfProcessor DEF ConfTypes
    <3>7. /\ state' \in {"Error", "Invalid", "Valid"} /\ setLock' \in Int
          /\ request' \in {"synced", "ios", "answered"} /\ request' = request
          /\ "call" \notin Running
      BY <1>1, <2>1, <3>1 DEF ConfTypes, Running
    <3>8. QED BY <1>10, <2>1, <2>3, <3>1, <3>3, <3>4, <3>5, <3>6, <3>7
  <2>6. QED BY <2>4, <2>5
<1>15. ASSUME NEW t \in Caller, Conf!Get(t) PROVE ConfInv'
  <2>1. Conf!Works(t) /\ setPc[t] = "looks" /\ UNCHANGED <<state, request, early>>
    BY <1>15 DEF Conf!Works, Conf!Get, Conf!At
  <2>2. /\ StateMeans /\ Conf!Valid' = Conf!Valid
        /\ state = "Valid" /\ file.exists /\ request = "synced" /\ Conf!Valid
    BY <1>9, <2>1, FileFrame DEF StateMeans
  <2>3. early' = [early EXCEPT ![t] = early'[t]]
    BY <1>1, <2>1 DEF ConfTypes
  <2>4. /\ setPc' = [setPc EXCEPT ![t] = "call"]
        /\ result' = [result EXCEPT ![t] = Conf!Found(ask[t])]
        /\ setLock' = setLock - 1 /\ setProc' = Conf!WakeOne(setProc, locking)
    BY <1>15 DEF Conf!Get, Conf!Unlock, Conf!Goes
  <2>5. setPc'[t] = "call" /\ \A u \in Caller \ {t} : setPc'[u] = setPc[u]
    BY <1>1, <2>4 DEF ConfTypes
  <2>6. StateMeans'
    BY <1>1, <1>9, <2>1, <2>2, <2>4, <2>5
       DEF StateMeans, Fetching, Running, ConfTypes
  <2>7. /\ result' = [result EXCEPT ![t] = result'[t]]
        /\ result'[t] = Conf!Found(ask[t]) /\ ask'[t] = ask[t]
    BY <1>1, <1>9, <2>1, <2>4 DEF ConfTypes
  <2>8. RightFor(t)'
    <3>1. PICK a, r : a = ask[t] /\ r = Conf!Found(a)
      OBVIOUS
    <3>2. RightAnswer(a, r)
      BY <1>1, <2>1, <2>2, <3>1, FoundRight DEF ConfTypes
    <3>3. file' = file /\ RightAnswer(a, r)'
      BY <1>9, <2>1, <3>2, FileFrame
    <3>4. ask'[t] = a /\ result'[t] = r
      BY <2>7, <3>1
    <3>5. QED BY <2>1, <2>2, <3>2, <3>3, <3>4 DEF RightFor
  <2>9. setProc' \in Processor
    BY <1>1, <2>4, ConfProcessor DEF ConfTypes
  <2>10. /\ state' \in {"Error", "Invalid", "Valid"} /\ setLock' \in Int
         /\ request' \in {"synced", "ios", "answered"} /\ request' = request
         /\ "call" \notin Running
    BY <1>1, <2>1, <2>4 DEF ConfTypes, Running
  <2>11. QED BY <1>10, <2>1, <2>3, <2>4, <2>6, <2>7, <2>8, <2>9, <2>10
<1>16. QED
  BY <1>3, <1>4, <1>6, <1>7, <1>8, <1>11, <1>12, <1>13, <1>14, <1>15
     DEF Conf!Next, Conf!Works, Conf!Resumes

(***************************************************************************)
(* A setting that a call returned is an entry of the file that IOS has     *)
(* read, one that was asked for, and lies in m_data; a call that returned  *)
(* none was early, or the file is bad or has no such entry                 *)
(* (SysConf.cpp:35-70, 119-267): for any number of callers, any file that   *)
(* has a key once, and whatever else the threads sleep on.                 *)
(***************************************************************************)
THEOREM SettingsRight == WaitingSpec => []GetRight
<1>1. ConfInv => GetRight
  BY RightForEach DEF ConfInv, GetRight, Conf!GetRight
<1>2. WaitingInit => ConfInv
  BY ConfInit DEF WaitingInit
<1>3. ConfInv /\ [WaitingNext]_all => ConfInv'
  <2>1. [WaitingNext]_all => [Conf!Next]_Conf!vars
    BY DEF WaitingNext, InQueue, InCondition, InOnce, InSettings, AtRest, all,
           settings, Conf!vars, Conf!object
  <2>2. QED BY <2>1, ConfStep
<1>4. QED BY <1>1, <1>2, <1>3, PTL DEF WaitingSpec
=============================================================================
