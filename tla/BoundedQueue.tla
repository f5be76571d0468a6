----------------------------- MODULE BoundedQueue -----------------------------
(***************************************************************************)
(* What a message queue promises: at most size messages, received in the   *)
(* order in which they were sent, and jammed ones first.                   *)
(***************************************************************************)
EXTENDS Integers, SequencesExt

CONSTANT Message

VARIABLES queue,   \* the messages, the next to be received first
          size     \* which never changes

Init == queue = <<>>

PutLast(m) == Len(queue) < size /\ queue' = Append(queue, m)
PutFirst(m) == Len(queue) < size /\ queue' = <<m>> \o queue
Take == queue # <<>> /\ queue' = Tail(queue)

\* What Jam does: the last message makes room for the new one.
Replace(m) ==
  queue # <<>> /\ Len(queue) < size /\ queue' = <<m>> \o Front(queue)

Next ==
  /\ \/ Take
     \/ \E m \in Message : PutLast(m) \/ PutFirst(m) \/ Replace(m)
  /\ UNCHANGED size

Spec == Init /\ [][Next]_<<queue, size>>
=============================================================================
