---------------------------------- MODULE Ipc ----------------------------------
(***************************************************************************)
(* ios/low/Ipc.cpp: requests to IOS, which runs on the coprocessor.        *)
(*                                                                         *)
(* Every thread has one command block and one reply queue of one message   *)
(* (on its stack in the synchronous calls, in a Request otherwise), both   *)
(* named by the thread.  The mailbox holds one request that IOS has not    *)
(* taken; until IOS acknowledges it others wait in s_queue_send, of one    *)
(* message, and behind it asleep in ipcAsync.                              *)
(*                                                                         *)
(* A handler is one step although IOS runs beside it: IOS only sets Y2     *)
(* after X1 and Y1 after X2, which the handlers write after everything     *)
(* else that they do to the mailbox.                                       *)
(***************************************************************************)
EXTENDS Coop

CONSTANT SendQueue   \* the wait queue of s_queue_send

ASSUME IpcAssumption ==
  /\ Queue = Thread \cup {SendQueue}
  /\ SendQueue \notin Thread
  /\ Null \notin Queue

VARIABLES d,     \* the driver and the mailbox (see Driver)
          pc,    \* where each thread stands
          works  \* the requests that IOS has taken and not answered

vars == <<d, pc, works>>

\* "sending" and "receiving" stand in the loops of Send and Receive; "issued"
\* is the code after ipcAsync, with interrupts enabled.
PC == {"call", "sending", "issued", "receiving"}

Flag == {"X1", "X2", "Y1", "Y2", "IY1", "IY2"}

Driver ==
  [proc       : Processor,
   ctrl       : SUBSET Flag,                   \* IPCPPCCTRL
   request    : Thread \cup {Null},            \* IPCPPCMSG
   reply      : Thread \cup {Null},            \* IPCIOPMSG
   waitingAck : BOOLEAN,                       \* s_waiting_ack
   sendQueue  : Seq(Thread),                   \* the messages of s_queue_send
   replyQueue : [Thread -> Seq(Thread)]]       \* and of each reply queue

\* After Init(): the interrupts of the mailbox are enabled by the first send.
Init ==
  /\ d = [proc       |-> ProcessorInit,
          ctrl       |-> {"X2"},
          request    |-> Null,
          reply      |-> Null,
          waitingAck |-> FALSE,
          sendQueue  |-> <<>>,
          replyQueue |-> [t \in Thread |-> <<>>]]
  /\ pc = [t \in Thread |-> "call"]
  /\ works = {}

-----------------------------------------------------------------------------
(* IOS *)

\* IOS takes the request in the mailbox and acknowledges it.
IosTakes ==
  /\ "X1" \in d.ctrl
  /\ d' = [d EXCEPT !.ctrl = (@ \ {"X1"}) \cup {"Y2"}]
  /\ works' = works \cup {d.request}
  /\ UNCHANGED pc

\* IOS answers the requests in any order, one at a time.
IosReplies(r) ==
  /\ r \in works
  /\ "X2" \in d.ctrl
  /\ d' = [d EXCEPT !.reply = r, !.ctrl = (@ \ {"X2"}) \cup {"Y1"}]
  /\ works' = works \ {r}
  /\ UNCHANGED pc

-----------------------------------------------------------------------------
(* The driver: operators from one state of it to the next *)

Write(s, set, clear) == [s EXCEPT !.ctrl = (@ \ clear) \cup set]

\* Mutant: the driver does not wait for the acknowledgement.
AcrSendNoWait(s, r) ==
  Write([s EXCEPT !.request = r], {"IY1", "IY2", "X1"}, {})

\* ipcAcrSend
AcrSend(s, r) ==
  Write([s EXCEPT !.request = r, !.waitingAck = TRUE], {"IY1", "IY2", "X1"}, {})

\* Mutant: what waits in the queue is left there.
HandleAckSendNothing(s) ==
  [Write(s, {"IY1"}, {"Y2", "IY2"}) EXCEPT !.waitingAck = FALSE]

\* Mutant: the flag is cleared after the next request was sent.
HandleAckClearLate(s) ==
  LET c == Write(s, {"IY1"}, {"Y2", "IY2"})
      n == AcrSend([c EXCEPT !.sendQueue = Tail(@),
                             !.proc = WakeOne(@, SendQueue)], Head(s.sendQueue))
  IN  [IF s.sendQueue = <<>> THEN c ELSE n EXCEPT !.waitingAck = FALSE]

\* handleAck: the TryReceive empties the queue, and so wakes a sender.
HandleAck(s) ==
  LET c == [Write(s, {"IY1"}, {"Y2", "IY2"}) EXCEPT !.waitingAck = FALSE]
  IN  IF s.sendQueue = <<>>
      THEN c
      ELSE AcrSend([c EXCEPT !.sendQueue = Tail(@),
                             !.proc = WakeOne(@, SendQueue)], Head(s.sendQueue))

\* handleReply: the Send to the reply queue must find room.
HandleReply(s) ==
  Write([s EXCEPT !.replyQueue[s.reply] = Append(@, s.reply),
                  !.proc = WakeOne(@, s.reply)],
        {"IY1", "IY2", "X2"}, {"Y1"})

\* s_queue_send.Send by the current thread, once there is room; a count of one
\* wakes another sender.
SendLast(s, r) ==
  [s EXCEPT !.sendQueue = Append(@, r), !.proc = WakeOne(@, SendQueue)]

Full(s) == s.sendQueue # <<>>

Asleep(s, q) == [s EXCEPT !.proc = SleepOn(@, q)]

-----------------------------------------------------------------------------
(* Interrupts *)

\* They are enabled in the idle loop and in the threads' own code.
Interruptible ==
  \/ Idles(d.proc)
  \/ d.proc.current # Null /\ pc[d.proc.current] \in {"call", "issued"}

Raised == {"Y1", "IY1"} \subseteq d.ctrl \/ {"Y2", "IY2"} \subseteq d.ctrl

\* ipcHandleInterrupt reads the flags once and handles both, Y2 first.
Interrupt ==
  /\ Interruptible /\ Raised
  /\ LET acked == IF "Y2" \in d.ctrl THEN HandleAck(d) ELSE d
     IN  d' = IF "Y1" \in d.ctrl THEN HandleReply(acked) ELSE acked
  /\ UNCHANGED <<pc, works>>

-----------------------------------------------------------------------------
(* Threads *)

Becomes(t, place) == pc' = [pc EXCEPT ![t] = place] /\ UNCHANGED works

\* ipcAsync, from any of the IOS_* calls and the constructors of Request.
Issue(t) ==
  /\ d.proc.current = t
  /\ pc[t] = "call"
  /\ \/ /\ ~d.waitingAck
        /\ d' = AcrSend(d, t)
        /\ Becomes(t, "issued")
     \/ /\ d.waitingAck /\ ~Full(d)
        /\ d' = SendLast(d, t)
        /\ Becomes(t, "issued")
     \/ /\ d.waitingAck /\ Full(d)
        /\ d' = Asleep(d, SendQueue)
        /\ Becomes(t, "sending")

\* Mutant: the caller does not wait for the reply.
ReceiveAtOnce(t) ==
  /\ d.proc.current = t
  /\ pc[t] = "issued"
  /\ d' = [d EXCEPT !.replyQueue[t] = <<>>]
  /\ Becomes(t, "call")

\* queue.Receive() of the synchronous calls.  Sync() of a Request peeks, and
\* the message goes with the object, before it issues anything else.
Receive(t) ==
  /\ d.proc.current = t
  /\ pc[t] = "issued"
  /\ \/ /\ d.replyQueue[t] # <<>>
        /\ d' = [d EXCEPT !.replyQueue[t] = <<>>]
        /\ Becomes(t, "call")
     \/ /\ d.replyQueue[t] = <<>>
        /\ d' = Asleep(d, t)
        /\ Becomes(t, "receiving")

\* A thread gives up the processor in its own code.
Yield(t) ==
  /\ d.proc.current = t
  /\ pc[t] \in {"call", "issued"}
  /\ d' = [d EXCEPT !.proc = YieldNow(@)]
  /\ UNCHANGED <<pc, works>>

\* A thread is dispatched, and one that slept looks at its queue again.  The
\* sender does not look at s_waiting_ack again.
Run(t) ==
  LET s == [d EXCEPT !.proc = Dispatch(@, t)]
  IN  /\ MayRun(d.proc, t)
      /\ \/ /\ pc[t] \in {"call", "issued"}
            /\ d' = s
            /\ UNCHANGED <<pc, works>>
         \/ /\ pc[t] = "sending" /\ ~Full(s)
            /\ d' = SendLast(s, t)
            /\ Becomes(t, "issued")
         \/ /\ pc[t] = "sending" /\ Full(s)
            /\ d' = Asleep(s, SendQueue)
            /\ UNCHANGED <<pc, works>>
         \/ /\ pc[t] = "receiving" /\ s.replyQueue[t] # <<>>
            /\ d' = [s EXCEPT !.replyQueue[t] = <<>>]
            /\ Becomes(t, "call")

Ios == IosTakes \/ \E r \in Thread : IosReplies(r)

Next ==
  \/ Ios
  \/ Interrupt
  \/ \E t \in Thread : Issue(t) \/ Receive(t) \/ Yield(t) \/ Run(t)

Spec == Init /\ [][Next]_vars

(***************************************************************************)
(* Fairness: IOS takes and answers what it is sent, whichever it is; the   *)
(* processor takes an interrupt that is raised again and again while it    *)
(* has them enabled; threads give up the processor, and a ready one runs   *)
(* (thread_fair shows that it does among equals).                          *)
(***************************************************************************)
FairSpec ==
  /\ Spec
  /\ WF_vars(IosTakes)
  /\ SF_vars(Interrupt)
  /\ SF_vars(\E t \in Thread : Yield(t))
  /\ \A t \in Thread : SF_vars(IosReplies(t)) /\ SF_vars(Run(t))

-----------------------------------------------------------------------------
(***************************************************************************)
(* A request is never written over one that IOS has not taken, nor is an   *)
(* acknowledgement taken for that of another: while a request is in the    *)
(* mailbox or its acknowledgement is not handled, s_waiting_ack is set     *)
(* (Ipc.cpp:81, 89, 164).                                                  *)
(***************************************************************************)
MailboxGuarded ==
  /\ "X1" \in d.ctrl \/ "Y2" \in d.ctrl => d.waitingAck
  /\ ~({"X1", "Y2"} \subseteq d.ctrl)

\* A step never overwrites a request that is still in the mailbox.
NeverOverwritten == [][("X1" \in d.ctrl /\ "X1" \in d'.ctrl)
                          => d'.request = d.request]_vars

\* Where a request can be between its issue and the end of its call.
Places(r) ==
  {p \in {"mailbox", "queue", "ios", "reply", "answered"} :
     \/ p = "mailbox" /\ "X1" \in d.ctrl /\ d.request = r
     \/ p = "queue" /\ \E i \in 1..Len(d.sendQueue) : d.sendQueue[i] = r
     \/ p = "ios" /\ r \in works
     \/ p = "reply" /\ "Y1" \in d.ctrl /\ d.reply = r
     \/ p = "answered" /\ d.replyQueue[r] # <<>>}

(***************************************************************************)
(* The driver and IOS hold a pointer to a command block exactly while its  *)
(* owner is between the issue and the end of the call, and hold it in one  *)
(* place: none is lost, sent twice, or used after its owner's call         *)
(* returned and its stack frame is gone (Ipc.cpp:181-238).                 *)
(***************************************************************************)
RequestsAccounted ==
  \A r \in Thread :
    IF pc[r] \in {"issued", "receiving"}
    THEN \E p \in Places(r) : Places(r) = {p}
    ELSE Places(r) = {}

(***************************************************************************)
(* "Enqueue the request to send once the ack is received" (Ipc.cpp:168):   *)
(* when a request waits in s_queue_send there is an acknowledgement to     *)
(* come that will send it.                                                 *)
(***************************************************************************)
QueuedAwaitsAck == d.sendQueue # <<>> => d.waitingAck

(***************************************************************************)
(* A thread that waits for its reply gets it (Ipc.cpp:175-238), unless the *)
(* send queue is stuck for ever.  The wait in Send, before the request is  *)
(* issued, need not end: others may fill the queue again and again before  *)
(* the sender runs.                                                        *)
(***************************************************************************)
CallsReturn ==
  \A t \in Thread :
    pc[t] = "receiving" ~> pc[t] = "call" \/ []~QueuedAwaitsAck
=============================================================================
