-------------------------------- MODULE List --------------------------------
(***************************************************************************)
(* The intrusive doubly linked list of util/List.hpp, at the level of its  *)
(* pointers.  A list is its two end pointers; the Link member of every     *)
(* object is one function from objects to links, so that an object that is *)
(* on two lists through the same member corrupts both, as in the code.     *)
(* Each operator returns the list and the links as the method leaves them. *)
(***************************************************************************)
CONSTANT Null   \* nullptr

EmptyList == [head |-> Null, tail |-> Null]
NullLink == [next |-> Null, prev |-> Null]

ListOf(S) == [head : S \cup {Null}, tail : S \cup {Null}]
LinkOf(S) == [S -> [next : S \cup {Null}, prev : S \cup {Null}]]

IsEmpty(l) == l.head = Null

\* An end pointer is null exactly when the other is.
EndsAgree(l) == l.head = Null <=> l.tail = Null

EnqueueHead(l, link, t) ==
  IF IsEmpty(l)
  THEN [list |-> [head |-> t, tail |-> t],
        link |-> [link EXCEPT ![t] = NullLink]]
  ELSE [list |-> [l EXCEPT !.head = t],
        link |-> [link EXCEPT ![l.head].prev = t,
                              ![t].next = l.head,
                              ![t].prev = Null]]

EnqueueTail(l, link, t) ==
  IF IsEmpty(l)
  THEN [list |-> [head |-> t, tail |-> t],
        link |-> [link EXCEPT ![t] = NullLink]]
  ELSE [list |-> [l EXCEPT !.tail = t],
        link |-> [link EXCEPT ![l.tail].next = t,
                              ![t].prev = l.tail,
                              ![t].next = Null]]

(***************************************************************************)
(* DequeueHead and Dequeue of the head move the head to its successor.     *)
(* The removed object keeps its own links.                                 *)
(***************************************************************************)
RemoveHead(l, link) ==
  LET next == link[l.head].next
  IN  IF next = Null
      THEN [list |-> EmptyList, link |-> link]
      ELSE [list |-> [l EXCEPT !.head = next],
            link |-> [link EXCEPT ![next].prev = Null]]

\* The caller of DequeueHead gets the old head, nullptr when there is none.
DequeueHead(l, link) ==
  IF IsEmpty(l)
  THEN [thread |-> Null, list |-> l, link |-> link]
  ELSE LET r == RemoveHead(l, link)
       IN  [thread |-> l.head, list |-> r.list, link |-> r.link]

(***************************************************************************)
(* Dequeue(t) of an object that is not the head writes through t's         *)
(* neighbours only: the tail pointer is never moved, and with a successor  *)
(* it is the predecessor's own prev that is written (prev->prev = prev),   *)
(* a null dereference when there is no predecessor.                        *)
(***************************************************************************)
DequeueFaults(l, link, t) ==
  /\ l.head # t
  /\ link[t].prev = Null
  /\ link[t].next # Null

Dequeue(l, link, t) ==
  LET prev == link[t].prev
      next == link[t].next
  IN  IF l.head = t
      THEN RemoveHead(l, link)
      ELSE IF prev = Null
      THEN [list |-> l, link |-> link]
      ELSE [list |-> l,
            link |-> IF next = Null
                     THEN [link EXCEPT ![prev].next = Null]
                     ELSE [link EXCEPT ![prev].next = next,
                                       ![prev].prev = prev]]
=============================================================================
