-------------------------------- MODULE Thread --------------------------------
(***************************************************************************)
(* The Thread class of rt/Thread.hpp and rt/Thread.cpp: construction,      *)
(* destruction, Exit, Join, Sleep, Wakeup, WakeupAll, Yield, the list of   *)
(* all threads, and who owns and frees each thread's stack.                *)
(*                                                                         *)
(* Every call runs with interrupts disabled, so a call is one step up to   *)
(* the point where it gives the processor away (WakeupAll's loop is        *)
(* several, with nothing in between).  Interrupt handlers only run in the  *)
(* idle loop or between two calls of the running thread; a handler that    *)
(* makes a call in the second case is the same step as the thread making   *)
(* it.  FullSpec lets any thread make any call in any order; CleanSpec is  *)
(* a client that keeps to what the code can bear (see the README).         *)
(***************************************************************************)
EXTENDS Sched, FiniteSets

CONSTANTS Main,              \* s_main_thread
          MainPriority,      \* 16 in the code
          RequestedPriority, \* the constructor's arguments: the priority,
          HeapStack,         \* whether the stack is allocated,
          StartSuspended,    \* and whether the thread is not made ready
          Joinable           \* the threads that a client joins (a bound)

ASSUME ThreadAssumption ==
  /\ Main \in Thread
  /\ MainPriority \in Priority
  /\ RequestedPriority \in [Thread -> Nat]

VARIABLES k,           \* the scheduler (see Sched)
          threadList,  \* s_thread_list
          threadLink,  \* m_link
          joinThread,  \* m_join_thread
          stack,       \* each thread's stack: where it is and if it is freed
          ownsStack,   \* m_stack_size # 0
          stray,       \* s_stray_stack, named by its thread
          pc,          \* where each thread's code stands
          sp           \* the thread on whose stack the processor is

listVars == <<threadList, threadLink>>
stackVars == <<stack, ownsStack, stray>>
vars == <<k, threadList, threadLink, joinThread, stack, ownsStack, stray, pc, sp>>

(***************************************************************************)
(* pc: "call" may make a call; "switch" and "join" stand in the context    *)
(* switch of Sleep, Yield or Join; "exited" and "deleted" in the one of    *)
(* Exit or of the destructor, which must never come back.                  *)
(***************************************************************************)
PC == {"call", "switch", "join", "exited", "deleted"}

Init ==
  /\ k = KernelInit(Main, MainPriority)
  /\ threadList = EmptyList
  /\ threadLink = [t \in Thread |-> NullLink]
  /\ joinThread = [t \in Thread |-> Null]
  /\ stack = [t \in Thread |-> "external"]
  /\ ownsStack = [t \in Thread |-> FALSE]
  /\ stray = Null
  /\ pc = [t \in Thread |-> "call"]
  /\ sp = Main

\* c is the running thread and is at liberty to make a call.  A destroyed
\* thread that is dispatched again runs on freed memory: no step describes it.
Calls(c) ==
  /\ k.cpu = "run"
  /\ c = k.current
  /\ k.state[c] # "Disabled"
  /\ pc[c] = "call"

\* The processor moves to the stack of the thread that it now executes.
Switches == sp' = IF k'.current = Null THEN sp ELSE k'.current

Exists(t) == k.state[t] \notin {"None", "Disabled"}

-----------------------------------------------------------------------------
(* Construction and destruction *)

Clamp(p) == IF p > MaxPriority THEN MaxPriority ELSE p

Create(c, t) ==
  LET made == [k EXCEPT !.state[t] = "Suspended",
                        !.priority[t] = Clamp(RequestedPriority[t])]
      entry == EnqueueTail(threadList, threadLink, t)
  IN  /\ Calls(c)
      /\ k.state[t] = "None"
      /\ k' = IF t \in StartSuspended THEN made ELSE Run(made, t)
      /\ threadList' = entry.list
      /\ threadLink' = entry.link
      /\ stack' = [stack EXCEPT ![t] = IF t \in HeapStack THEN "live" ELSE @]
      /\ ownsStack' = [ownsStack EXCEPT ![t] = t \in HeapStack]
      /\ UNCHANGED <<joinThread, stray, pc, sp>>

\* The stack that a deleted thread left behind is freed.
FreeStray == IF stray = Null THEN stack ELSE [stack EXCEPT ![stray] = "freed"]

Unlink(t) ==
  LET entry == Dequeue(threadList, threadLink, t)
  IN  /\ threadList' = entry.list
      /\ threadLink' = [entry.link EXCEPT ![t] = NullLink]

(***************************************************************************)
(* The destructor called for another thread.  The state is Disabled before *)
(* the run queue is considered, so "if Running, dequeueRun" never happens. *)
(***************************************************************************)
Destroy(c, t) ==
  /\ Calls(c)
  /\ t # c /\ t # Main /\ Exists(t)
  /\ Unlink(t)
  /\ k' = [k EXCEPT !.state[t] = "Disabled"]
  /\ stack' = IF ownsStack[t] THEN [FreeStray EXCEPT ![t] = "freed"]
                              ELSE FreeStray
  /\ stray' = Null
  /\ UNCHANGED <<joinThread, ownsStack, pc, sp>>

\* The destructor called by the thread itself ("delete GetCurrent()").
\* Mutant: the stack that is in use is freed on the spot.
DestroySelfFreeNow(c) ==
  /\ Calls(c)
  /\ c # Main
  /\ Exists(c)
  /\ Unlink(c)
  /\ k' = DispatchAny([k EXCEPT !.state[c] = "Disabled", !.current = Null])
  /\ stack' = IF ownsStack[c] THEN [FreeStray EXCEPT ![c] = "freed"]
                              ELSE FreeStray
  /\ stray' = Null
  /\ ownsStack' = [ownsStack EXCEPT ![c] = FALSE]
  /\ pc' = [pc EXCEPT ![c] = "deleted"]
  /\ Switches
  /\ UNCHANGED joinThread

\* Mutant: a stack that is still to be freed is forgotten.
DestroySelfDropStray(c) ==
  /\ Calls(c)
  /\ c # Main
  /\ Exists(c)
  /\ Unlink(c)
  /\ k' = DispatchAny([k EXCEPT !.state[c] = "Disabled", !.current = Null])
  /\ stray' = IF ownsStack[c] THEN c ELSE Null
  /\ ownsStack' = [ownsStack EXCEPT ![c] = FALSE]
  /\ pc' = [pc EXCEPT ![c] = "deleted"]
  /\ Switches
  /\ UNCHANGED <<joinThread, stack>>

DestroySelf(c) ==
  /\ Calls(c)
  /\ c # Main
  /\ Exists(c)
  /\ Unlink(c)
  /\ k' = DispatchAny([k EXCEPT !.state[c] = "Disabled", !.current = Null])
  /\ stack' = FreeStray
  /\ stray' = IF ownsStack[c] THEN c ELSE Null
  /\ ownsStack' = [ownsStack EXCEPT ![c] = FALSE]
  /\ pc' = [pc EXCEPT ![c] = "deleted"]
  /\ Switches
  /\ UNCHANGED joinThread

-----------------------------------------------------------------------------
(* Exit and Join *)

\* Mutant: the state is not written.
ExitKeepState(c, t) ==
  /\ Calls(c)
  /\ Exists(t)
  /\ k' = WakeupAll(k, t, IF t = c THEN "dispatch" ELSE "run")
  /\ pc' = IF t = c THEN [pc EXCEPT ![c] = "exited"] ELSE pc
  /\ UNCHANGED <<listVars, joinThread, stackVars, sp>>

\* Mutant: the threads that joined this one are not woken.
ExitNoWake(c, t) ==
  /\ Calls(c)
  /\ Exists(t)
  /\ LET e == [k EXCEPT !.state[t] = "Exited"]
     IN  k' = IF t = c THEN DispatchAny(e) ELSE e
  /\ pc' = IF t = c THEN [pc EXCEPT ![c] = "exited"] ELSE pc
  /\ Switches
  /\ UNCHANGED <<listVars, joinThread, stackVars>>

Exit(c, t) ==
  /\ Calls(c)
  /\ Exists(t)
  /\ k' = WakeupAll([k EXCEPT !.state[t] = "Exited"], t,
                    IF t = c THEN "dispatch" ELSE "run")
  /\ pc' = IF t = c THEN [pc EXCEPT ![c] = "exited"] ELSE pc
  /\ UNCHANGED <<listVars, joinThread, stackVars, sp>>

\* A Join that returns at once (of an Exited thread) changes nothing.
Join(c, t) ==
  /\ Calls(c)
  /\ t # c /\ t \in Joinable
  /\ Exists(t)
  /\ k.state[t] # "Exited"
  /\ joinThread' = [joinThread EXCEPT ![c] = t]
  /\ k' = Sleep(k, t)
  /\ pc' = [pc EXCEPT ![c] = "join"]
  /\ Switches
  /\ UNCHANGED <<listVars, stackVars>>

-----------------------------------------------------------------------------
(* Sleeping, waking and yielding *)

SleepOn(c, q) ==
  /\ Calls(c)
  /\ k' = Sleep(k, q)
  /\ pc' = [pc EXCEPT ![c] = "switch"]
  /\ Switches
  /\ UNCHANGED <<listVars, joinThread, stackVars>>

\* With no thread ready, Yield returns at once and changes nothing.
YieldTo(c) ==
  /\ Calls(c)
  /\ k.runMask # {} \/ ~CurrentRuns(k)
  /\ k' = Yield(k)
  /\ pc' = [pc EXCEPT ![c] = "switch"]
  /\ Switches
  /\ UNCHANGED <<listVars, joinThread, stackVars>>

\* A waker is the running thread, or a handler that interrupts the idle loop.
Wakes == k.cpu = "idle" \/ \E c \in Thread : Calls(c)

WakeThread(t) ==
  /\ Wakes
  /\ k.state[t] = "Waiting"
  /\ k' = Wakeup(k, t)
  /\ UNCHANGED <<listVars, joinThread, stackVars, pc, sp>>

WakeOne(q) ==
  /\ Wakes
  /\ ~IsEmpty(k.queue[q])
  /\ k' = WakeupOne(k, q)
  /\ UNCHANGED <<listVars, joinThread, stackVars, pc, sp>>

WakeAll(q) ==
  /\ Wakes
  /\ k' = WakeupAll(k, q, k.cpu)
  /\ UNCHANGED <<listVars, joinThread, stackVars, pc, sp>>

\* Only ever called for the current thread (Cond.hpp:23).
Enqueue(c, q) ==
  /\ Calls(c)
  /\ k' = QueueEnqueue(k, q, c)
  /\ UNCHANGED <<listVars, joinThread, stackVars, pc, sp>>

-----------------------------------------------------------------------------
(* The scheduler's own steps *)

WakeAllStep ==
  /\ k.cpu = "wakeall"
  /\ k' = WakeupAllStep(k)
  /\ Switches
  /\ UNCHANGED <<listVars, joinThread, stackVars, pc>>

IdleEnd ==
  /\ IdleEnds(k)
  /\ k' = DispatchAny(k)
  /\ Switches
  /\ UNCHANGED <<listVars, joinThread, stackVars, pc>>

\* A thread comes back from its context switch: the end of dispatch frees the
\* stray stack, and Sleep, Yield or Join returns.
Resume(c) ==
  /\ k.cpu = "run"
  /\ c = k.current
  /\ pc[c] \in {"switch", "join"}
  /\ stack' = FreeStray
  /\ stray' = Null
  /\ pc' = [pc EXCEPT ![c] = "call"]
  /\ UNCHANGED <<k, listVars, joinThread, ownsStack, sp>>

System == WakeAllStep \/ IdleEnd \/ \E c \in Thread : Resume(c)

Next ==
  \/ System
  \/ \E c, t \in Thread :
       \/ Create(c, t)
       \/ Destroy(c, t)
       \/ Exit(c, t)
       \/ Join(c, t)
  \/ \E c \in Thread :
       \/ DestroySelf(c)
       \/ YieldTo(c)
       \/ \E q \in WaitQueue \cup {Null} : SleepOn(c, q)
       \/ \E q \in WaitQueue : Enqueue(c, q)
  \/ \E t \in Thread : WakeThread(t)
  \/ \E q \in WaitQueue : WakeOne(q) \/ WakeAll(q)

FullSpec == Init /\ [][Next]_vars

-----------------------------------------------------------------------------
TypeOK ==
  /\ k \in Kernel
  /\ threadList \in ListType
  /\ threadLink \in LinkType
  /\ joinThread \in [Thread -> Pointer]
  /\ stack \in [Thread -> {"external", "live", "freed"}]
  /\ ownsStack \in [Thread -> BOOLEAN]
  /\ stray \in Pointer
  /\ pc \in [Thread -> PC]
  /\ sp \in Thread

(***************************************************************************)
(* The mask never disagrees with the run queues, and no list has one null  *)
(* end only, whatever calls are made and however corrupt the links become. *)
(* This is what dispatchAny's "highest priority" (Thread.cpp:341-359) and  *)
(* the tail dereference of EnqueueTail (List.hpp:42) rely on.              *)
(***************************************************************************)
QueuesSound ==
  /\ MaskMatchesQueues(k)
  /\ RunQueueEnds(k)
  /\ WaitQueueEnds(k)

(***************************************************************************)
(* dispatchAny's assertion "Dispatched thread is null" (Thread.cpp:356)    *)
(* never fails.                                                            *)
(***************************************************************************)
DispatchedNotNull == k.cpu # "panic"
=============================================================================
