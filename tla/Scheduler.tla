------------------------------- MODULE Scheduler -------------------------------
(***************************************************************************)
(* What the thread system promises: strict priorities, first come first    *)
(* served within a priority and within a wait queue, and every thread in   *)
(* exactly one place.  Threads are in sequences; there are no pointers.    *)
(***************************************************************************)
EXTENDS Integers, Sequences

CONSTANTS Null, Thread, WaitQueue, MaxPriority,
          Main, MainPriority, RequestedPriority, StartSuspended

VARIABLES state,     \* the life cycle of each thread
          priority,  \* the priority of each thread
          ready,     \* the ready threads of each priority, next one first
          waiting,   \* the threads asleep on each queue, longest first
          current,   \* the thread that has the processor
          phase      \* "run", "idle", or "leaving": current has exited

vars == <<state, priority, ready, waiting, current, phase>>

Priority == 0..MaxPriority
Queue == WaitQueue \cup Thread

Init ==
  /\ state = [t \in Thread |-> IF t = Main THEN "Running" ELSE "None"]
  /\ priority = [t \in Thread |-> MainPriority]
  /\ ready = [p \in Priority |-> <<>>]
  /\ waiting = [q \in Queue |-> <<>>]
  /\ current = Main
  /\ phase = "run"

ReadyPriorities == {p \in Priority : ready[p] # <<>>}
Top == CHOOSE p \in ReadyPriorities : \A o \in ReadyPriorities : p <= o

\* The processor passes to the first ready thread of the best priority that
\* "ready" has now, out of "queues", and idles when there is none.
Pass(queues, leaver) ==
  IF ReadyPriorities = {}
  THEN current' = leaver /\ phase' = "idle" /\ UNCHANGED ready
  ELSE /\ current' = Head(queues[Top])
       /\ ready' = [queues EXCEPT ![Top] = Tail(@)]
       /\ phase' = "run"

Least(a, b) == IF a < b THEN a ELSE b

Spawn(t) ==
  LET p == Least(RequestedPriority[t], MaxPriority)
  IN  /\ phase = "run"
      /\ state[t] = "None"
      /\ priority' = [priority EXCEPT ![t] = p]
      /\ \/ /\ t \in StartSuspended
            /\ state' = [state EXCEPT ![t] = "Suspended"]
            /\ UNCHANGED ready
         \/ /\ t \notin StartSuspended
            /\ state' = [state EXCEPT ![t] = "Running"]
            /\ ready' = [ready EXCEPT ![p] = Append(@, t)]
      /\ UNCHANGED <<waiting, current, phase>>

Defer ==
  /\ phase = "run"
  /\ ReadyPriorities # {}
  /\ Pass([ready EXCEPT ![priority[current]] = Append(@, current)], current)
  /\ UNCHANGED <<state, priority, waiting>>

Block(q) ==
  /\ phase = "run"
  /\ state' = [state EXCEPT ![current] = "Waiting"]
  /\ waiting' = [waiting EXCEPT ![q] = Append(@, current)]
  /\ Pass(ready, current)
  /\ UNCHANGED priority

Wake(q) ==
  /\ waiting[q] # <<>>
  /\ LET t == Head(waiting[q])
     IN  /\ state' = [state EXCEPT ![t] = "Running"]
         /\ ready' = [ready EXCEPT ![priority[t]] = Append(@, t)]
  /\ waiting' = [waiting EXCEPT ![q] = Tail(@)]
  /\ UNCHANGED <<priority, current, phase>>

Finish ==
  /\ phase = "run"
  /\ state' = [state EXCEPT ![current] = "Exited"]
  /\ phase' = "leaving"
  /\ UNCHANGED <<priority, ready, waiting, current>>

\* An exited thread leaves once everyone who joined it has been woken.
Leave ==
  /\ phase = "leaving"
  /\ waiting[current] = <<>>
  /\ Pass(ready, current)
  /\ UNCHANGED <<state, priority, waiting>>

EndIdle ==
  /\ phase = "idle"
  /\ ReadyPriorities # {}
  /\ Pass(ready, current)
  /\ UNCHANGED <<state, priority, waiting>>

Retire(t) ==
  /\ phase = "run"
  /\ t # current
  /\ state[t] = "Exited"
  /\ waiting[t] = <<>>
  /\ state' = [state EXCEPT ![t] = "Disabled"]
  /\ UNCHANGED <<priority, ready, waiting, current, phase>>

RetireSelf ==
  /\ phase = "run"
  /\ waiting[current] = <<>>
  /\ state' = [state EXCEPT ![current] = "Disabled"]
  /\ Pass(ready, Null)
  /\ UNCHANGED <<priority, waiting>>

Next ==
  \/ \E t \in Thread : Spawn(t) \/ Retire(t)
  \/ \E q \in Queue : Block(q) \/ Wake(q)
  \/ Defer
  \/ Finish
  \/ Leave
  \/ EndIdle
  \/ RetireSelf

Spec == Init /\ [][Next]_vars
=============================================================================
