------------------------------ MODULE Ipc_proofs ------------------------------
(***************************************************************************)
(* The mailbox of module Ipc, for any number of threads.  The guard of the *)
(* mailbox is inductive by itself; the types it stands on are that every   *)
(* queue holds threads, and that a raised X1 or Y1 comes with a request.   *)
(***************************************************************************)
EXTENDS Ipc, Coop_proofs

Guarded(s) ==
  /\ "X1" \in s.ctrl \/ "Y2" \in s.ctrl => s.waitingAck
  /\ ~({"X1", "Y2"} \subseteq s.ctrl)

DriverOK(s) ==
  /\ s \in Driver
  /\ "X1" \in s.ctrl => s.request \in Thread
  /\ "Y1" \in s.ctrl => s.reply \in Thread

TypesOK ==
  /\ DriverOK(d)
  /\ pc \in [Thread -> PC]
  /\ works \in SUBSET Thread

\* What every step preserves.
IpcInv == TypesOK /\ Guarded(d)

-----------------------------------------------------------------------------
(* The driver *)

\* A send into a free mailbox keeps it guarded.
LEMMA AcrSendOK ==
  ASSUME NEW s, DriverOK(s), NEW r \in Thread, "Y2" \notin s.ctrl
  PROVE  DriverOK(AcrSend(s, r)) /\ Guarded(AcrSend(s, r))
BY DEF AcrSend, Write, DriverOK, Guarded, Driver, Flag

\* handleAck frees the mailbox or sends the next request.
LEMMA HandleAckOK ==
  ASSUME NEW s, DriverOK(s), Guarded(s), "Y2" \in s.ctrl
  PROVE  DriverOK(HandleAck(s)) /\ Guarded(HandleAck(s))
<1> DEFINE c == [Write(s, {"IY1"}, {"Y2", "IY2"}) EXCEPT !.waitingAck = FALSE]
<1>1. DriverOK(c) /\ "Y2" \notin c.ctrl /\ "X1" \notin c.ctrl
  BY DEF Write, DriverOK, Guarded, Driver, Flag
<1>2. CASE s.sendQueue = <<>>
  BY <1>1, <1>2 DEF HandleAck, Guarded
<1>3. CASE s.sendQueue # <<>>
  <2> DEFINE n == [c EXCEPT !.sendQueue = Tail(@),
                            !.proc = WakeOne(@, SendQueue)]
  <2>1. c.sendQueue = s.sendQueue
    BY DEF Write, DriverOK, Driver
  <2>2. /\ Head(s.sendQueue) \in Thread
        /\ Tail(c.sendQueue) \in Seq(Thread)
    BY <1>3, <2>1 DEF DriverOK, Driver
  <2>3. WakeOne(c.proc, SendQueue) \in Processor
    BY <1>1, ProcessorRoutines, IpcAssumption DEF DriverOK, Driver
  <2>4. DriverOK(n) /\ "Y2" \notin n.ctrl
    BY <1>1, <2>2, <2>3 DEF DriverOK, Driver
  <2>5. HandleAck(s) = AcrSend(n, Head(s.sendQueue))
    BY <1>3 DEF HandleAck
  <2>6. QED BY <2>2, <2>4, <2>5, AcrSendOK
<1>4. QED BY <1>2, <1>3

\* handleReply does not touch the mailbox of requests.
LEMMA HandleReplyOK ==
  ASSUME NEW s, DriverOK(s), Guarded(s), "Y1" \in s.ctrl
  PROVE  DriverOK(HandleReply(s)) /\ Guarded(HandleReply(s))
<1>1. /\ Append(s.replyQueue[s.reply], s.reply) \in Seq(Thread)
      /\ WakeOne(s.proc, s.reply) \in Processor
  <2>1. /\ s.proc \in Processor
        /\ s.reply \in Thread
        /\ s.replyQueue \in [Thread -> Seq(Thread)]
    BY DEF DriverOK, Driver
  <2>2. s.reply \in Queue BY <2>1, IpcAssumption
  <2>3. WakeOne(s.proc, s.reply) \in Processor
    BY <2>1, <2>2, ProcessorRoutines
  <2>4. QED BY <2>1, <2>3
<1>2. QED
  BY <1>1 DEF HandleReply, Write, DriverOK, Guarded, Driver, Flag

(***************************************************************************)
(* What a thread does to the processor and the queues leaves the mailbox   *)
(* alone.                                                                  *)
(***************************************************************************)
MailboxKept(s, u) ==
  /\ u.ctrl = s.ctrl
  /\ u.request = s.request
  /\ u.waitingAck = s.waitingAck

LEMMA QueuesApart ==
  ASSUME NEW s, DriverOK(s), NEW r \in Thread, NEW p \in Processor
  PROVE  /\ DriverOK([s EXCEPT !.proc = p])
         /\ MailboxKept(s, [s EXCEPT !.proc = p])
         /\ DriverOK([s EXCEPT !.replyQueue[r] = <<>>])
         /\ MailboxKept(s, [s EXCEPT !.replyQueue[r] = <<>>])
<1>1. /\ DriverOK([s EXCEPT !.proc = p])
      /\ MailboxKept(s, [s EXCEPT !.proc = p])
  BY DEF DriverOK, Driver, MailboxKept
<1>2. [s.replyQueue EXCEPT ![r] = <<>>] \in [Thread -> Seq(Thread)]
  BY DEF DriverOK, Driver
<1>3. /\ DriverOK([s EXCEPT !.replyQueue[r] = <<>>])
      /\ MailboxKept(s, [s EXCEPT !.replyQueue[r] = <<>>])
  BY <1>2 DEF DriverOK, Driver, MailboxKept
<1>4. QED BY <1>1, <1>3

\* The end of a Send to the send queue.
LEMMA SendLastOK ==
  ASSUME NEW s, DriverOK(s), NEW r \in Thread
  PROVE  DriverOK(SendLast(s, r)) /\ MailboxKept(s, SendLast(s, r))
<1>1. /\ s.proc \in Processor
      /\ s.sendQueue \in Seq(Thread)
      /\ SendQueue \in Queue
  BY IpcAssumption DEF DriverOK, Driver
<1>2. WakeOne(s.proc, SendQueue) \in Processor
  BY <1>1, ProcessorRoutines
<1>3. Append(s.sendQueue, r) \in Seq(Thread)
  BY <1>1
<1>4. QED BY <1>2, <1>3 DEF SendLast, DriverOK, Driver, MailboxKept

\* Falling asleep on a queue.
LEMMA AsleepOK ==
  ASSUME NEW s, DriverOK(s), s.proc.current \in Thread, NEW q \in Queue
  PROVE  DriverOK(Asleep(s, q)) /\ MailboxKept(s, Asleep(s, q))
<1>1. SleepOn(s.proc, q) \in Processor
  BY ProcessorRoutines DEF DriverOK, Driver
<1>2. QED BY <1>1 DEF Asleep, DriverOK, Driver, MailboxKept

\* The guard only reads what MailboxKept keeps.
LEMMA GuardKept ==
  ASSUME NEW s, NEW u, Guarded(s), MailboxKept(s, u)
  PROVE  Guarded(u)
BY DEF Guarded, MailboxKept

-----------------------------------------------------------------------------
(* The steps *)

\* The code that a step can leave a thread in.
LEMMA BecomesOK ==
  ASSUME TypesOK, NEW t \in Thread, NEW place \in PC, Becomes(t, place)
  PROVE  pc' \in [Thread -> PC] /\ works' \in SUBSET Thread
BY DEF TypesOK, Becomes

\* Before the first request nothing is in the mailbox.
LEMMA InitIpc == Init => IpcInv
<1> SUFFICES ASSUME Init PROVE IpcInv
  OBVIOUS
<1>1. ProcessorInit \in Processor
  BY DEF ProcessorInit, Processor
<1>2. DriverOK(d) /\ Guarded(d)
  BY <1>1 DEF Init, DriverOK, Driver, Guarded, Flag
<1>3. QED BY <1>2 DEF Init, IpcInv, TypesOK, PC

\* IOS turns the request into an acknowledgement.
LEMMA IosTakesIpc ==
  ASSUME IpcInv, IosTakes
  PROVE  IpcInv'
<1>1. DriverOK(d') /\ Guarded(d')
  BY DEF IpcInv, TypesOK, IosTakes, DriverOK, Driver, Guarded, Flag
<1>2. QED BY <1>1 DEF IpcInv, TypesOK, IosTakes, DriverOK

\* IOS answers beside the mailbox of requests.
LEMMA IosRepliesIpc ==
  ASSUME IpcInv, NEW r \in Thread, IosReplies(r)
  PROVE  IpcInv' /\ d'.request = d.request
<1>1. DriverOK(d') /\ Guarded(d') /\ d'.request = d.request
  BY DEF IpcInv, TypesOK, IosReplies, DriverOK, Driver, Guarded, Flag
<1>2. QED BY <1>1 DEF IpcInv, TypesOK, IosReplies

\* Both handlers, the acknowledgement first.
LEMMA InterruptIpc ==
  ASSUME IpcInv, Interrupt
  PROVE  IpcInv'
<1> DEFINE acked == IF "Y2" \in d.ctrl THEN HandleAck(d) ELSE d
<1>1. DriverOK(acked) /\ Guarded(acked)
  BY HandleAckOK DEF IpcInv, TypesOK
<1>2. ("Y1" \in acked.ctrl) <=> ("Y1" \in d.ctrl)
  <2>1. CASE "Y2" \in d.ctrl
    BY <2>1 DEF HandleAck, AcrSend, Write, IpcInv, TypesOK, DriverOK, Driver
  <2>2. QED BY <2>1
<1>3. d' = IF "Y1" \in d.ctrl THEN HandleReply(acked) ELSE acked
  BY DEF Interrupt
<1> HIDE DEF acked
<1>4. DriverOK(d') /\ Guarded(d')
  BY <1>1, <1>2, <1>3, HandleReplyOK
<1>5. QED BY <1>4 DEF Interrupt, IpcInv, TypesOK

\* ipcAsync sends only into a mailbox that is free.
LEMMA IssueIpc ==
  ASSUME IpcInv, NEW t \in Thread, Issue(t)
  PROVE  IpcInv' /\ ("X1" \in d.ctrl => d'.request = d.request)
<1>1. /\ DriverOK(d) /\ Guarded(d)
      /\ d.proc.current \in Thread
      /\ SendQueue \in Queue
  BY IpcAssumption DEF IpcInv, TypesOK, Issue
<1>2. CASE ~d.waitingAck /\ d' = AcrSend(d, t) /\ Becomes(t, "issued")
  <2>1. "X1" \notin d.ctrl /\ "Y2" \notin d.ctrl
    BY <1>1, <1>2 DEF Guarded
  <2>2. DriverOK(d') /\ Guarded(d')
    BY <1>1, <1>2, <2>1, AcrSendOK
  <2>3. QED BY <1>2, <2>1, <2>2, BecomesOK DEF IpcInv, TypesOK, PC
<1>3. CASE d' = SendLast(d, t) /\ Becomes(t, "issued")
  <2>1. DriverOK(d') /\ MailboxKept(d, d')
    BY <1>1, <1>3, SendLastOK
  <2>2. QED
    BY <1>1, <1>3, <2>1, GuardKept, BecomesOK DEF IpcInv, TypesOK, PC, MailboxKept
<1>4. CASE d' = Asleep(d, SendQueue) /\ Becomes(t, "sending")
  <2>1. DriverOK(d') /\ MailboxKept(d, d')
    BY <1>1, <1>4, AsleepOK
  <2>2. QED
    BY <1>1, <1>4, <2>1, GuardKept, BecomesOK DEF IpcInv, TypesOK, PC, MailboxKept
<1>5. QED BY <1>2, <1>3, <1>4 DEF Issue

\* queue.Receive() does not touch the mailbox.
LEMMA ReceiveIpc ==
  ASSUME IpcInv, NEW t \in Thread, Receive(t)
  PROVE  IpcInv' /\ d'.request = d.request
<1>1. /\ DriverOK(d) /\ Guarded(d)
      /\ d.proc \in Processor /\ d.proc.current \in Thread
      /\ t \in Queue
  BY IpcAssumption DEF IpcInv, TypesOK, Receive, DriverOK, Driver
<1>2. CASE d' = [d EXCEPT !.replyQueue[t] = <<>>] /\ Becomes(t, "call")
  <2>1. DriverOK(d') /\ MailboxKept(d, d')
    BY <1>1, <1>2, QueuesApart
  <2>2. QED
    BY <1>1, <1>2, <2>1, GuardKept, BecomesOK DEF IpcInv, TypesOK, PC, MailboxKept
<1>3. CASE d' = Asleep(d, t) /\ Becomes(t, "receiving")
  <2>1. DriverOK(d') /\ MailboxKept(d, d')
    BY <1>1, <1>3, AsleepOK
  <2>2. QED
    BY <1>1, <1>3, <2>1, GuardKept, BecomesOK DEF IpcInv, TypesOK, PC, MailboxKept
<1>4. QED BY <1>2, <1>3 DEF Receive

\* Nor does a thread that gives up the processor,
LEMMA YieldIpc ==
  ASSUME IpcInv, NEW t \in Thread, Yield(t)
  PROVE  IpcInv' /\ d'.request = d.request
<1>1. /\ DriverOK(d) /\ Guarded(d)
      /\ d.proc \in Processor /\ d.proc.current \in Thread
      /\ SendQueue \in Queue
      /\ d' = [d EXCEPT !.proc = YieldNow(d.proc)]
  BY IpcAssumption DEF IpcInv, TypesOK, Yield, DriverOK, Driver
<1>2. YieldNow(d.proc) \in Processor
  BY <1>1, ProcessorRoutines
<1>3. DriverOK(d') /\ MailboxKept(d, d')
  BY <1>1, <1>2, QueuesApart
<1>4. QED
  BY <1>1, <1>3, GuardKept DEF Yield, IpcInv, TypesOK, MailboxKept

\* or one that gets it back and looks at its queue again.
LEMMA RunIpc ==
  ASSUME IpcInv, NEW t \in Thread, Run(t)
  PROVE  IpcInv' /\ d'.request = d.request
<1> DEFINE s == [d EXCEPT !.proc = Dispatch(d.proc, t)]
<1>1. /\ DriverOK(d) /\ Guarded(d)
      /\ d.proc \in Processor
      /\ SendQueue \in Queue
  BY IpcAssumption DEF IpcInv, TypesOK, DriverOK, Driver
<1>2. Dispatch(d.proc, t) \in Processor
  BY <1>1, ProcessorRoutines
<1>3. DriverOK(s) /\ MailboxKept(d, s)
  BY <1>1, <1>2, QueuesApart
<1>4. s.proc.current \in Thread
  BY <1>1 DEF Dispatch, DriverOK, Driver, Processor
<1>5. \/ d' = s /\ UNCHANGED <<pc, works>>
      \/ d' = SendLast(s, t) /\ Becomes(t, "issued")
      \/ d' = Asleep(s, SendQueue) /\ UNCHANGED <<pc, works>>
      \/ d' = [s EXCEPT !.replyQueue[t] = <<>>] /\ Becomes(t, "call")
  BY DEF Run
<1> HIDE DEF s
<1>6. DriverOK(d') /\ MailboxKept(s, d')
  <2>1. CASE d' = s
    BY <2>1, <1>3 DEF MailboxKept
  <2>2. CASE d' = SendLast(s, t)
    BY <2>2, <1>3, SendLastOK
  <2>3. CASE d' = Asleep(s, SendQueue)
    BY <2>3, <1>1, <1>3, <1>4, AsleepOK
  <2>4. CASE d' = [s EXCEPT !.replyQueue[t] = <<>>]
    BY <2>4, <1>2, <1>3, QueuesApart
  <2>5. QED BY <1>5, <2>1, <2>2, <2>3, <2>4
<1>7. MailboxKept(d, d')
  BY <1>3, <1>6 DEF MailboxKept
<1>8. pc' \in [Thread -> PC] /\ works' \in SUBSET Thread
  BY <1>5, BecomesOK DEF IpcInv, TypesOK, PC
<1>9. QED
  BY <1>1, <1>6, <1>7, <1>8, GuardKept DEF IpcInv, TypesOK, MailboxKept

\* An acknowledgement is only handled when the mailbox is free.
LEMMA InterruptRequest ==
  ASSUME IpcInv, Interrupt, "X1" \in d.ctrl
  PROVE  d'.request = d.request
<1>1. "Y2" \notin d.ctrl
  BY DEF IpcInv, Guarded
<1>2. QED
  BY <1>1 DEF Interrupt, HandleReply, Write, IpcInv, TypesOK, DriverOK, Driver

LEMMA StepIpc ==
  ASSUME IpcInv, [Next]_vars
  PROVE  IpcInv' /\ ("X1" \in d.ctrl /\ "X1" \in d'.ctrl
                       => d'.request = d.request)
<1>1. CASE IosTakes
  BY <1>1, IosTakesIpc DEF IosTakes, IpcInv, TypesOK, DriverOK, Driver
<1>2. ASSUME NEW r \in Thread, IosReplies(r) PROVE IpcInv' /\ d'.request = d.request
  BY <1>2, IosRepliesIpc
<1>3. CASE Interrupt
  BY <1>3, InterruptIpc, InterruptRequest
<1>4. ASSUME NEW t \in Thread, Issue(t)
      PROVE  IpcInv' /\ ("X1" \in d.ctrl => d'.request = d.request)
  BY <1>4, IssueIpc
<1>5. ASSUME NEW t \in Thread, Receive(t) \/ Yield(t) \/ Run(t)
      PROVE  IpcInv' /\ d'.request = d.request
  BY <1>5, ReceiveIpc, YieldIpc, RunIpc
<1>6. CASE UNCHANGED vars
  BY <1>6 DEF vars, IpcInv, TypesOK
<1>7. QED BY <1>1, <1>2, <1>3, <1>4, <1>5, <1>6 DEF Next, Ios

(***************************************************************************)
(* While a request is in the mailbox or its acknowledgement is not         *)
(* handled, s_waiting_ack says so, for any number of threads.              *)
(***************************************************************************)
THEOREM MailboxAlwaysGuarded == Spec => []MailboxGuarded
<1>1. IpcInv => MailboxGuarded
  BY DEF IpcInv, Guarded, MailboxGuarded
<1>2. IpcInv /\ [Next]_vars => IpcInv'
  BY StepIpc
<1>3. QED BY <1>1, <1>2, InitIpc, PTL DEF Spec

\* No step of the driver writes over a request that IOS has not taken.
THEOREM RequestsNotOverwritten == Spec => NeverOverwritten
<1>1. IpcInv /\ [Next]_vars
        => IpcInv' /\ [("X1" \in d.ctrl /\ "X1" \in d'.ctrl)
                          => d'.request = d.request]_vars
  BY StepIpc
<1>2. QED BY <1>1, InitIpc, PTL DEF Spec, NeverOverwritten

-----------------------------------------------------------------------------
(***************************************************************************)
(* Where requests are.  A request is counted once for every place that     *)
(* holds it; the handlers and IOS move requests, so that they keep every   *)
(* count, and only the calls of threads change one, each its own.  The     *)
(* send queue has room for one message, and IOS does not answer again      *)
(* before its answer was handled: otherwise a count could not tell one     *)
(* holder from two.                                                        *)
(***************************************************************************)
One(b) == IF b THEN 1 ELSE 0

InMailbox(s, r) == "X1" \in s.ctrl /\ s.request = r
InQueue(s, r)   == s.sendQueue # <<>> /\ Head(s.sendQueue) = r
InReply(s, r)   == "Y1" \in s.ctrl /\ s.reply = r
Answered(s, r)  == s.replyQueue[r] # <<>>

Count(s, w, r) ==
  One(InMailbox(s, r)) + One(InQueue(s, r)) + One(r \in w) + One(InReply(s, r))
    + One(Answered(s, r))

Slots(s) ==
  /\ Len(s.sendQueue) <= 1
  /\ ~({"Y1", "X2"} \subseteq s.ctrl)

\* The threads between the issue and the end of their calls.
Asking(r) == pc[r] \in {"issued", "receiving"}

\* What every step preserves of the requests.
CountInv ==
  /\ IpcInv
  /\ Slots(d)
  /\ \A r \in Thread : Count(d, works, r) = One(Asking(r))

\* A count is a number, and it reads only what it names.
LEMMA CountKept ==
  ASSUME NEW s, NEW u, NEW w, NEW r \in Thread,
         u.ctrl = s.ctrl, u.request = s.request, u.reply = s.reply,
         u.sendQueue = s.sendQueue, u.replyQueue[r] = s.replyQueue[r]
  PROVE  Count(u, w, r) = Count(s, w, r)
BY DEF Count, InMailbox, InQueue, InReply, Answered

\* Sending into a free mailbox puts one request there.
LEMMA AcrSendCount ==
  ASSUME NEW s, DriverOK(s), NEW w, NEW r \in Thread, NEW u \in Thread,
         "X1" \notin s.ctrl
  PROVE  Count(AcrSend(s, r), w, u) = Count(s, w, u) + One(u = r)
<1> DEFINE n == AcrSend(s, r)
<1>1. /\ "X1" \in n.ctrl /\ n.request = r
      /\ "Y1" \in n.ctrl <=> "Y1" \in s.ctrl
      /\ n.reply = s.reply /\ n.sendQueue = s.sendQueue
      /\ n.replyQueue = s.replyQueue
  BY DEF AcrSend, Write, DriverOK, Driver
<1> HIDE DEF n
<1>2. Count(n, w, u) = Count(s, w, u) + One(u = r)
  BY <1>1 DEF Count, One, InMailbox, InQueue, InReply, Answered
<1>3. QED BY <1>2 DEF n

\* A message in an empty send queue is one request there.
LEMMA SendLastCount ==
  ASSUME NEW s, DriverOK(s), ~Full(s), NEW w, NEW r \in Thread, NEW u \in Thread
  PROVE  /\ Count(SendLast(s, r), w, u) = Count(s, w, u) + One(u = r)
         /\ Slots(s) => Slots(SendLast(s, r))
<1> DEFINE n == SendLast(s, r)
<1>1. /\ n.ctrl = s.ctrl /\ n.request = s.request /\ n.reply = s.reply
      /\ n.replyQueue = s.replyQueue
      /\ n.sendQueue = Append(s.sendQueue, r) /\ s.sendQueue = <<>>
  BY DEF SendLast, DriverOK, Driver, Full
<1>2. /\ n.sendQueue # <<>> /\ Head(n.sendQueue) = r /\ Len(n.sendQueue) = 1
  BY <1>1
<1> HIDE DEF n
<1>3. Count(n, w, u) = Count(s, w, u) + One(u = r)
  BY <1>1, <1>2 DEF Count, One, InMailbox, InQueue, InReply, Answered
<1>4. Slots(s) => Slots(n)
  BY <1>1, <1>2 DEF Slots
<1>5. QED BY <1>3, <1>4 DEF n

\* handleAck moves the message of the send queue, if any, to the mailbox.
LEMMA HandleAckCount ==
  ASSUME NEW s, DriverOK(s), Guarded(s), Slots(s), "Y2" \in s.ctrl, NEW w
  PROVE  /\ Slots(HandleAck(s))
         /\ \A u \in Thread : Count(HandleAck(s), w, u) = Count(s, w, u)
<1> DEFINE c == [Write(s, {"IY1"}, {"Y2", "IY2"}) EXCEPT !.waitingAck = FALSE]
           n == [c EXCEPT !.sendQueue = Tail(@), !.proc = WakeOne(@, SendQueue)]
<1>1. /\ DriverOK(c)
      /\ "X1" \notin c.ctrl /\ "X1" \notin s.ctrl
      /\ "Y1" \in c.ctrl <=> "Y1" \in s.ctrl
      /\ "X2" \in c.ctrl <=> "X2" \in s.ctrl
      /\ c.request = s.request /\ c.reply = s.reply
      /\ c.sendQueue = s.sendQueue /\ c.replyQueue = s.replyQueue
  BY DEF Write, DriverOK, Guarded, Driver, Flag
<1>2. CASE s.sendQueue = <<>>
  <2>1. HandleAck(s) = c
    BY <1>2 DEF HandleAck
  <2> HIDE DEF c
  <2>2. \A u \in Thread : Count(c, w, u) = Count(s, w, u)
    BY <1>1 DEF Count, InMailbox, InQueue, InReply, Answered
  <2>3. QED BY <1>1, <2>1, <2>2 DEF Slots
<1>3. CASE s.sendQueue # <<>>
  <2> DEFINE h == Head(s.sendQueue)
  <2>1. /\ s.sendQueue \in Seq(Thread) /\ h \in Thread
        /\ Tail(s.sendQueue) = <<>>
    BY <1>3 DEF DriverOK, Driver, Slots
  <2>2. WakeOne(c.proc, SendQueue) \in Processor
    BY <1>1, ProcessorRoutines, IpcAssumption DEF DriverOK, Driver
  <2>3. /\ n.ctrl = c.ctrl /\ n.request = c.request /\ n.reply = c.reply
        /\ n.replyQueue = c.replyQueue /\ n.sendQueue = <<>>
    BY <1>1, <2>1 DEF DriverOK, Driver
  <2>4. DriverOK(n)
    <3> HIDE DEF c
    <3>1. c.proc \in Processor 
      BY <1>1 DEF DriverOK, Driver
    <3>2. Tail(c.sendQueue) \in Seq(Thread)
      BY <1>1, <1>3, <2>1
    <3>3. QED BY <1>1, <2>2, <3>1, <3>2 DEF DriverOK, Driver
  <2>5. HandleAck(s) = AcrSend(n, h)
    BY <1>3 DEF HandleAck
  <2>6. /\ "X2" \in AcrSend(n, h).ctrl <=> "X2" \in n.ctrl
        /\ "Y1" \in AcrSend(n, h).ctrl <=> "Y1" \in n.ctrl
        /\ AcrSend(n, h).sendQueue = n.sendQueue
    BY <2>4 DEF AcrSend, Write, DriverOK, Driver
  <2> HIDE DEF n, c, h
  <2>7. \A u \in Thread :
          Count(AcrSend(n, h), w, u) = Count(n, w, u) + One(u = h)
    BY <1>1, <2>1, <2>3, <2>4, AcrSendCount
  <2>8. ASSUME NEW u \in Thread
        PROVE  Count(s, w, u) = Count(n, w, u) + One(u = h)
    <3>1. InQueue(s, u) <=> u = h
      BY <1>3 DEF InQueue, h
    <3>2. /\ ~InQueue(n, u) /\ ~InMailbox(n, u) /\ ~InMailbox(s, u)
          /\ InReply(n, u) <=> InReply(s, u)
          /\ Answered(n, u) <=> Answered(s, u)
      BY <1>1, <2>3 DEF InQueue, InMailbox, InReply, Answered
    <3>3. QED BY <3>1, <3>2 DEF Count, One
  <2>9. QED BY <1>1, <2>3, <2>5, <2>6, <2>7, <2>8 DEF Slots
<1>4. QED BY <1>2, <1>3

\* handleReply moves the answered request to the queue of its owner.
LEMMA HandleReplyCount ==
  ASSUME NEW s, DriverOK(s), Slots(s), "Y1" \in s.ctrl, NEW w,
         \A u \in Thread : Count(s, w, u) <= 1
  PROVE  /\ Slots(HandleReply(s))
         /\ \A u \in Thread : Count(HandleReply(s), w, u) = Count(s, w, u)
<1> DEFINE n == HandleReply(s)
<1>1. /\ s.reply \in Thread
      /\ s.replyQueue \in [Thread -> Seq(Thread)]
      /\ "X1" \in n.ctrl <=> "X1" \in s.ctrl
      /\ "Y1" \notin n.ctrl
      /\ n.request = s.request /\ n.sendQueue = s.sendQueue
      /\ n.replyQueue = [s.replyQueue EXCEPT ![s.reply] = Append(@, s.reply)]
  BY DEF HandleReply, Write, DriverOK, Driver
<1>2. ASSUME NEW u \in Thread
      PROVE  n.replyQueue[u] # <<>> <=> u = s.reply \/ s.replyQueue[u] # <<>>
  <2>1. CASE u = s.reply
    BY <1>1, <2>1
  <2>2. CASE u # s.reply
    BY <1>1, <2>2
  <2>3. QED BY <2>1, <2>2
<1> HIDE DEF n
<1>3. \A u \in Thread : Count(n, w, u) = Count(s, w, u)
  BY <1>1, <1>2 DEF Count, One, InMailbox, InQueue, InReply, Answered
<1>4. Slots(n)
  BY <1>1 DEF Slots
<1>5. QED BY <1>3, <1>4 DEF n

-----------------------------------------------------------------------------
(* The steps, and what they do to the requests *)

\* Before the first request there is none.
LEMMA InitCount == Init => CountInv
<1> SUFFICES ASSUME Init PROVE CountInv
  OBVIOUS
<1>1. Slots(d)
  BY DEF Init, Slots
<1>2. ASSUME NEW r \in Thread
      PROVE  Count(d, works, r) = One(Asking(r))
  BY DEF Init, Count, One, InMailbox, InQueue, InReply, Answered, Asking
<1>3. QED BY <1>1, <1>2, InitIpc DEF CountInv

\* IOS takes the request out of the mailbox.
LEMMA IosTakesCount ==
  ASSUME CountInv, IosTakes
  PROVE  CountInv'
<1>1. IpcInv'
  BY IosTakesIpc DEF CountInv
<1>2. /\ d \in Driver /\ "X1" \in d.ctrl /\ "X1" \notin d'.ctrl
      /\ "Y1" \in d'.ctrl <=> "Y1" \in d.ctrl
      /\ "X2" \in d'.ctrl <=> "X2" \in d.ctrl
      /\ d'.reply = d.reply /\ d'.sendQueue = d.sendQueue
      /\ d'.replyQueue = d.replyQueue
      /\ works' = works \cup {d.request} /\ pc' = pc
  BY DEF CountInv, IpcInv, TypesOK, DriverOK, Driver, IosTakes
<1>3. ASSUME NEW r \in Thread
      PROVE  Count(d', works', r) = One(Asking(r)')
  <2>1. Count(d, works, r) = One(Asking(r)) /\ Asking(r)' = Asking(r)
    BY <1>2 DEF CountInv, Asking
  <2>2. r = d.request => r \notin works
    BY <1>2, <2>1 DEF Count, One, InMailbox, InQueue, InReply, Answered
  <2>3. QED
    BY <1>2, <2>1, <2>2 DEF Count, One, InMailbox, InQueue, InReply, Answered
<1>4. QED BY <1>1, <1>2, <1>3 DEF CountInv, Slots

\* IOS answers a request that it has taken.
LEMMA IosRepliesCount ==
  ASSUME CountInv, NEW t \in Thread, IosReplies(t)
  PROVE  CountInv'
<1>1. IpcInv'
  BY IosRepliesIpc DEF CountInv
<1>2. /\ d \in Driver /\ "X2" \in d.ctrl /\ "Y1" \notin d.ctrl
      /\ "Y1" \in d'.ctrl /\ "X2" \notin d'.ctrl
      /\ "X1" \in d'.ctrl <=> "X1" \in d.ctrl
      /\ d'.reply = t /\ d'.request = d.request /\ d'.sendQueue = d.sendQueue
      /\ d'.replyQueue = d.replyQueue
      /\ t \in works /\ works' = works \ {t} /\ pc' = pc
  BY DEF CountInv, IpcInv, TypesOK, DriverOK, Driver, IosReplies, Slots
<1>3. ASSUME NEW r \in Thread
      PROVE  Count(d', works', r) = One(Asking(r)')
  <2>1. Count(d, works, r) = One(Asking(r)) /\ Asking(r)' = Asking(r)
    BY <1>2 DEF CountInv, Asking
  <2>2. QED
    BY <1>2, <2>1 DEF Count, One, InMailbox, InQueue, InReply, Answered
<1>4. QED BY <1>1, <1>2, <1>3 DEF CountInv, Slots

\* The handlers move requests, one after the other.
LEMMA InterruptCount ==
  ASSUME CountInv, Interrupt
  PROVE  CountInv'
<1> DEFINE acked == IF "Y2" \in d.ctrl THEN HandleAck(d) ELSE d
<1>1. IpcInv'
  BY InterruptIpc DEF CountInv
<1>2. DriverOK(acked) /\ Guarded(acked)
  BY HandleAckOK DEF CountInv, IpcInv, TypesOK
<1>3. ("Y1" \in acked.ctrl) <=> ("Y1" \in d.ctrl)
  <2>1. CASE "Y2" \in d.ctrl
    BY <2>1 DEF HandleAck, AcrSend, Write, CountInv, IpcInv, TypesOK, DriverOK, Driver
  <2>2. QED BY <2>1
<1>4. Slots(acked) /\ \A u \in Thread : Count(acked, works, u) = Count(d, works, u)
  <2>1. CASE "Y2" \in d.ctrl
    <3>1. acked = HandleAck(d)
      BY <2>1
    <3> HIDE DEF acked
    <3>2. QED BY <2>1, <3>1, HandleAckCount DEF CountInv, IpcInv, TypesOK
  <2>2. CASE "Y2" \notin d.ctrl
    BY <2>2 DEF CountInv
  <2>3. QED BY <2>1, <2>2
<1>5. /\ d' = IF "Y1" \in d.ctrl THEN HandleReply(acked) ELSE acked
      /\ pc' = pc /\ works' = works
  BY DEF Interrupt
<1> HIDE DEF acked
<1>6. ASSUME NEW u \in Thread
      PROVE  Count(acked, works, u) = One(Asking(u)) /\ Count(acked, works, u) <= 1
  BY <1>4 DEF CountInv, One
<1>7. Slots(d') /\ \A u \in Thread : Count(d', works, u) = Count(acked, works, u)
  <2>1. CASE "Y1" \in d.ctrl
    <3>1. d' = HandleReply(acked) /\ "Y1" \in acked.ctrl
      BY <1>3, <1>5, <2>1
    <3>2. QED BY <1>2, <1>4, <1>6, <3>1, HandleReplyCount
  <2>2. CASE "Y1" \notin d.ctrl
    BY <1>4, <1>5, <2>2
  <2>3. QED BY <2>1, <2>2
<1>8. QED BY <1>1, <1>5, <1>6, <1>7 DEF CountInv, Asking

\* A request is in one place from its issue on; a thread that finds the send
\* queue full has not issued it.
LEMMA IssueCount ==
  ASSUME CountInv, NEW t \in Thread, Issue(t)
  PROVE  CountInv'
<1>1. /\ IpcInv' /\ DriverOK(d) /\ Guarded(d) /\ Slots(d)
      /\ pc \in [Thread -> PC] /\ pc[t] = "call"
      /\ works' = works
  BY IssueIpc DEF CountInv, IpcInv, TypesOK, Issue, Becomes
<1>2. CASE ~d.waitingAck /\ d' = AcrSend(d, t) /\ Becomes(t, "issued")
  <2>1. "X1" \notin d.ctrl
    BY <1>1, <1>2 DEF Guarded
  <2>2. \A u \in Thread : Count(d', works, u) = Count(d, works, u) + One(u = t)
    BY <1>1, <1>2, <2>1, AcrSendCount
  <2>3. Slots(d')
    BY <1>1, <1>2 DEF Slots, AcrSend, Write, DriverOK, Driver
  <2>4. \A u \in Thread : One(Asking(u)') = One(Asking(u)) + One(u = t)
    BY <1>1, <1>2 DEF Becomes, Asking, One
  <2>5. QED BY <1>1, <2>2, <2>3, <2>4 DEF CountInv
<1>3. CASE ~Full(d) /\ d' = SendLast(d, t) /\ Becomes(t, "issued")
  <2>1. \A u \in Thread : Count(d', works, u) = Count(d, works, u) + One(u = t)
    BY <1>1, <1>3, SendLastCount
  <2>2. Slots(d')
    BY <1>1, <1>3, SendLastCount
  <2>3. \A u \in Thread : One(Asking(u)') = One(Asking(u)) + One(u = t)
    BY <1>1, <1>3 DEF Becomes, Asking, One
  <2>4. QED BY <1>1, <2>1, <2>2, <2>3 DEF CountInv
<1>4. CASE d' = Asleep(d, SendQueue) /\ Becomes(t, "sending")
  <2>1. /\ d'.ctrl = d.ctrl /\ d'.request = d.request /\ d'.reply = d.reply
        /\ d'.sendQueue = d.sendQueue /\ d'.replyQueue = d.replyQueue
    BY <1>1, <1>4 DEF Asleep, DriverOK, Driver
  <2>2. \A u \in Thread : Count(d', works, u) = Count(d, works, u)
    BY <2>1, CountKept
  <2>3. \A u \in Thread : Asking(u)' = Asking(u)
    BY <1>1, <1>4 DEF Becomes, Asking
  <2>4. QED BY <1>1, <2>1, <2>2, <2>3 DEF CountInv, Slots
<1>5. QED BY <1>2, <1>3, <1>4 DEF Issue

\* A thread takes its answer out of its queue and asks no more.
LEMMA AnswerTaken ==
  ASSUME NEW s, DriverOK(s), Slots(s),
         \A u \in Thread : Count(s, works, u) = One(Asking(u)),
         NEW t \in Thread, s.replyQueue[t] # <<>>,
         pc \in [Thread -> PC], Asking(t),
         d' = [s EXCEPT !.replyQueue[t] = <<>>], Becomes(t, "call"),
         IpcInv'
  PROVE  CountInv'
<1>1. /\ d'.ctrl = s.ctrl /\ d'.request = s.request /\ d'.reply = s.reply
      /\ d'.sendQueue = s.sendQueue
      /\ d'.replyQueue = [s.replyQueue EXCEPT ![t] = <<>>]
      /\ s.replyQueue \in [Thread -> Seq(Thread)]
      /\ works' = works
  BY DEF DriverOK, Driver, Becomes
<1>2. ASSUME NEW u \in Thread
      PROVE  Count(d', works, u) = One(Asking(u)')
  <2>1. CASE u = t
    <3>1. Answered(s, t) /\ ~Answered(d', t)
      BY <1>1 DEF Answered
    <3>2. /\ InMailbox(d', t) <=> InMailbox(s, t)
          /\ InQueue(d', t) <=> InQueue(s, t)
          /\ InReply(d', t) <=> InReply(s, t)
      BY <1>1 DEF InMailbox, InQueue, InReply
    <3>3. Count(s, works, t) = One(Asking(t)) /\ ~Asking(t)'
      BY DEF Becomes, Asking
    <3>4. QED BY <2>1, <3>1, <3>2, <3>3 DEF Count, One
  <2>2. CASE u # t
    <3>1. d'.replyQueue[u] = s.replyQueue[u]
      BY <1>1, <2>2
    <3>2. Count(d', works, u) = Count(s, works, u)
      BY <1>1, <3>1 DEF Count, InMailbox, InQueue, InReply, Answered
    <3>3. Asking(u)' = Asking(u)
      BY <2>2 DEF Becomes, Asking
    <3>4. QED BY <3>2, <3>3
  <2>3. QED BY <2>1, <2>2
<1>3. QED BY <1>1, <1>2 DEF CountInv, Slots

\* A thread that has its answer asks no more; one that has none waits for it.
LEMMA ReceiveCount ==
  ASSUME CountInv, NEW t \in Thread, Receive(t)
  PROVE  CountInv'
<1>1. /\ IpcInv' /\ DriverOK(d) /\ Slots(d)
      /\ pc \in [Thread -> PC] /\ pc[t] = "issued"
      /\ d.replyQueue \in [Thread -> Seq(Thread)]
      /\ works' = works
  BY ReceiveIpc DEF CountInv, IpcInv, TypesOK, Receive, Becomes, DriverOK, Driver
<1>2. CASE /\ d.replyQueue[t] # <<>>
           /\ d' = [d EXCEPT !.replyQueue[t] = <<>>]
           /\ Becomes(t, "call")
  <2>1. Asking(t) /\ \A u \in Thread : Count(d, works, u) = One(Asking(u))
    BY <1>1 DEF CountInv, Asking
  <2>2. QED BY <1>1, <1>2, <2>1, AnswerTaken
<1>3. CASE d' = Asleep(d, t) /\ Becomes(t, "receiving")
  <2>1. /\ d'.ctrl = d.ctrl /\ d'.request = d.request /\ d'.reply = d.reply
        /\ d'.sendQueue = d.sendQueue /\ d'.replyQueue = d.replyQueue
    BY <1>1, <1>3 DEF Asleep, DriverOK, Driver
  <2>2. \A u \in Thread : Count(d', works, u) = Count(d, works, u)
    BY <2>1, CountKept
  <2>3. \A u \in Thread : Asking(u)' = Asking(u)
    BY <1>1, <1>3 DEF Becomes, Asking
  <2>4. QED BY <1>1, <2>1, <2>2, <2>3 DEF CountInv, Slots
<1>4. QED BY <1>2, <1>3 DEF Receive

\* Giving up the processor has nothing to do with requests,
LEMMA YieldCount ==
  ASSUME CountInv, NEW t \in Thread, Yield(t)
  PROVE  CountInv'
<1>1. /\ d'.ctrl = d.ctrl /\ d'.request = d.request /\ d'.reply = d.reply
      /\ d'.sendQueue = d.sendQueue /\ d'.replyQueue = d.replyQueue
      /\ works' = works /\ pc' = pc
  BY DEF CountInv, IpcInv, TypesOK, DriverOK, Driver, Yield
<1>2. \A u \in Thread : Count(d', works, u) = Count(d, works, u)
  BY <1>1, CountKept
<1>3. QED BY <1>1, <1>2, YieldIpc DEF CountInv, Slots, Asking

\* and a thread that gets it back goes on with its call.
LEMMA RunCount ==
  ASSUME CountInv, NEW t \in Thread, Run(t)
  PROVE  CountInv'
<1> DEFINE s == [d EXCEPT !.proc = Dispatch(d.proc, t)]
<1>1. /\ IpcInv' /\ DriverOK(d) /\ Slots(d)
      /\ pc \in [Thread -> PC]
      /\ works' = works
  BY RunIpc DEF CountInv, IpcInv, TypesOK, Run, Becomes
<1>2. /\ s.ctrl = d.ctrl /\ s.request = d.request /\ s.reply = d.reply
      /\ s.sendQueue = d.sendQueue /\ s.replyQueue = d.replyQueue
  BY <1>1 DEF DriverOK, Driver
<1>3. DriverOK(s)
  BY <1>1, QueuesApart, ProcessorRoutines, IpcAssumption DEF DriverOK, Driver
<1>4. Slots(s) /\ \A u \in Thread : Count(s, works, u) = One(Asking(u))
  <2> HIDE DEF s
  <2>1. \A u \in Thread : Count(s, works, u) = Count(d, works, u)
    BY <1>2, CountKept
  <2>2. QED BY <1>1, <1>2, <2>1 DEF CountInv, Slots
<1>5. \/ d' = s /\ pc' = pc
      \/ pc[t] = "sending" /\ ~Full(s) /\ d' = SendLast(s, t) /\ Becomes(t, "issued")
      \/ d' = Asleep(s, SendQueue) /\ pc' = pc
      \/ /\ pc[t] = "receiving" /\ s.replyQueue[t] # <<>>
         /\ d' = [s EXCEPT !.replyQueue[t] = <<>>] /\ Becomes(t, "call")
  BY DEF Run
<1> HIDE DEF s
<1>6. CASE d' = s /\ pc' = pc
  BY <1>1, <1>4, <1>6 DEF CountInv, Asking
<1>7. CASE pc[t] = "sending" /\ ~Full(s) /\ d' = SendLast(s, t) /\ Becomes(t, "issued")
  <2>1. Slots(d') /\ \A u \in Thread : Count(d', works, u) = Count(s, works, u) + One(u = t)
    BY <1>3, <1>4, <1>7, SendLastCount
  <2>2. \A u \in Thread : One(Asking(u)') = One(Asking(u)) + One(u = t)
    BY <1>1, <1>7 DEF Becomes, Asking, One
  <2>3. QED BY <1>1, <1>4, <2>1, <2>2 DEF CountInv
<1>8. CASE d' = Asleep(s, SendQueue) /\ pc' = pc
  <2>1. /\ d'.ctrl = s.ctrl /\ d'.request = s.request /\ d'.reply = s.reply
        /\ d'.sendQueue = s.sendQueue /\ d'.replyQueue = s.replyQueue
    BY <1>3, <1>8 DEF Asleep, DriverOK, Driver
  <2>2. \A u \in Thread : Count(d', works, u) = Count(s, works, u)
    BY <2>1, CountKept
  <2>3. QED BY <1>1, <1>4, <1>8, <2>1, <2>2 DEF CountInv, Slots, Asking
<1>9. CASE /\ pc[t] = "receiving" /\ s.replyQueue[t] # <<>>
           /\ d' = [s EXCEPT !.replyQueue[t] = <<>>] /\ Becomes(t, "call")
  <2>1. Asking(t)
    BY <1>9 DEF Asking
  <2>2. QED BY <1>1, <1>3, <1>4, <1>9, <2>1, AnswerTaken
<1>10. QED BY <1>5, <1>6, <1>7, <1>8, <1>9

LEMMA StepCount ==
  ASSUME CountInv, [Next]_vars
  PROVE  CountInv'
<1>1. CASE UNCHANGED vars
  BY <1>1 DEF vars, CountInv, IpcInv, TypesOK, Asking
<1>2. ASSUME NEW r \in Thread, IosReplies(r) PROVE CountInv'
  BY <1>2, IosRepliesCount
<1>3. ASSUME NEW t \in Thread, Issue(t) \/ Receive(t) \/ Yield(t) \/ Run(t)
      PROVE  CountInv'
  BY <1>3, IssueCount, ReceiveCount, YieldCount, RunCount
<1>4. QED BY <1>1, <1>2, <1>3, IosTakesCount, InterruptCount DEF Next, Ios

\* A request that is counted once is in one place, and one that is not in none.
LEMMA CountedInPlace ==
  ASSUME CountInv, NEW r \in Thread
  PROVE  IF pc[r] \in {"issued", "receiving"}
         THEN \E p \in Places(r) : Places(r) = {p}
         ELSE Places(r) = {}
<1>1. d.sendQueue \in Seq(Thread) /\ Len(d.sendQueue) <= 1
  BY DEF CountInv, Slots, IpcInv, TypesOK, DriverOK, Driver
<1>2. (\E i \in 1..Len(d.sendQueue) : d.sendQueue[i] = r) <=> InQueue(d, r)
  <2>1. CASE d.sendQueue = <<>>
    BY <2>1 DEF InQueue
  <2>2. CASE d.sendQueue # <<>>
    <3> DEFINE queue == d.sendQueue
    <3>1. Len(queue) = 1 /\ Head(queue) = queue[1]
      <4>1. queue \in Seq(Thread) /\ queue # <<>>
        BY <1>1, <2>2
      <4>2. Len(queue) <= 1
        BY <1>1
      <4> HIDE DEF queue
      <4>3. Len(queue) \in Nat /\ Len(queue) # 0
        BY <4>1
      <4>4. Len(queue) = 1
        BY <4>2, <4>3
      <4>5. QED BY <4>1, <4>4
    <3>2. QED BY <2>2, <3>1 DEF InQueue
  <2>3. QED BY <2>1, <2>2
<1>3. /\ "mailbox" \in Places(r) <=> InMailbox(d, r)
      /\ "queue" \in Places(r) <=> InQueue(d, r)
      /\ "ios" \in Places(r) <=> r \in works
      /\ "reply" \in Places(r) <=> InReply(d, r)
      /\ "answered" \in Places(r) <=> Answered(d, r)
      /\ Places(r) \subseteq {"mailbox", "queue", "ios", "reply", "answered"}
  BY <1>2 DEF Places, InMailbox, InReply, Answered
<1>4. One("mailbox" \in Places(r)) + One("queue" \in Places(r))
        + One("ios" \in Places(r)) + One("reply" \in Places(r))
        + One("answered" \in Places(r)) = One(Asking(r))
  BY <1>3 DEF CountInv, Count, One
<1> DEFINE here == Places(r)
<1> HIDE DEF here
<1>5. CASE pc[r] \in {"issued", "receiving"}
  <2>1. \E p \in here : \A q \in {"mailbox", "queue", "ios", "reply", "answered"} :
          q \in here <=> q = p
    BY <1>3, <1>4, <1>5 DEF One, Asking, here
  <2>2. QED BY <1>3, <1>5, <2>1 DEF here
<1>6. CASE pc[r] \notin {"issued", "receiving"}
  <2>1. \A q \in {"mailbox", "queue", "ios", "reply", "answered"} : q \notin here
    BY <1>3, <1>4, <1>6 DEF One, Asking, here
  <2>2. QED BY <1>3, <1>6, <2>1 DEF here
<1>7. QED BY <1>5, <1>6

(***************************************************************************)
(* A command block is in the hands of the driver or IOS exactly while its  *)
(* owner waits for it, and in one place: no request is lost, sent twice,   *)
(* or used after the call that issued it has returned.                     *)
(***************************************************************************)
THEOREM RequestsAlwaysAccounted == Spec => []RequestsAccounted
<1>1. CountInv => RequestsAccounted
  BY CountedInPlace DEF RequestsAccounted
<1>2. CountInv /\ [Next]_vars => CountInv'
  BY StepCount
<1>3. QED BY <1>1, <1>2, InitCount, PTL DEF Spec
=============================================================================
