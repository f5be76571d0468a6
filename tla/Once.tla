--------------------------------- MODULE Once ---------------------------------
(***************************************************************************)
(* rt/Once.cpp with the Guard of Once.hpp, as pthread_once and the guards  *)
(* of function-local statics use it (rt/GThread.cpp:117-125): the first    *)
(* thread runs an initialiser, the others yield until it is done.          *)
(***************************************************************************)
EXTENDS Coop, FiniteSets

VARIABLES proc,   \* the processor (see Coop)
          state,  \* m_state
          pc,     \* "call", "init" in the initialiser, "wait", "done"
          ran     \* how often the initialiser has run to its end

vars == <<proc, state, pc, ran>>

\* What the initialiser sleeps on.
event == CHOOSE q \in Queue : TRUE

Init ==
  /\ proc = ProcessorInit
  /\ state = "Uninitialized"
  /\ pc = [t \in Thread |-> "call"]
  /\ ran = 0

\* t has the processor and its code stands at place.
At(t, place) == proc.current = t /\ pc[t] = place

Goes(t, place) == pc' = [pc EXCEPT ![t] = place]

\* Mutant: a thread that finds the initialiser running does not wait.
WaitsNever(t) ==
  /\ At(t, "wait")
  /\ Goes(t, "done")
  /\ state' = "Initialized"
  /\ UNCHANGED <<proc, ran>>

\* "If we are in progress, we need to wait for the other thread to finish":
\* one turn of the loop, with interrupts disabled.  The Guard of a thread that
\* was refused calls Done as well, which then changes nothing.
Waits(t) ==
  /\ At(t, "wait")
  /\ IF state = "InProgress"
     THEN proc' = YieldNow(proc) /\ UNCHANGED pc
     ELSE Goes(t, "done") /\ UNCHANGED proc
  /\ UNCHANGED <<state, ran>>

Once(t) ==
  /\ At(t, "call")
  /\ IF state = "Uninitialized"
     THEN state' = "InProgress" /\ Goes(t, "init")
     ELSE Goes(t, "wait") /\ UNCHANGED state
  /\ UNCHANGED <<proc, ran>>

\* The initialiser gives up the processor on its way, or sleeps until an
\* interrupt.
InitialiserPauses(t) ==
  /\ At(t, "init")
  /\ \/ proc' = YieldNow(proc)
     \/ proc' = SleepOn(proc, event)
  /\ UNCHANGED <<state, pc, ran>>

\* Mutant: the state is left in progress.
DoneForgets(t) ==
  /\ At(t, "init")
  /\ ran' = ran + 1
  /\ Goes(t, "done")
  /\ UNCHANGED <<proc, state>>

\* The initialiser returns and the Guard is destroyed.
Done(t) ==
  /\ At(t, "init")
  /\ ran' = ran + 1
  /\ state' = IF state = "InProgress" THEN "Initialized" ELSE state
  /\ Goes(t, "done")
  /\ UNCHANGED proc

\* A thread's own code, before and after its call.
Yield(t) ==
  /\ At(t, "call") \/ At(t, "done")
  /\ proc' = YieldNow(proc)
  /\ UNCHANGED <<state, pc, ran>>

Run(t) ==
  /\ MayRun(proc, t)
  /\ proc' = Dispatch(proc, t)
  /\ UNCHANGED <<state, pc, ran>>

\* The interrupt that the initialiser sleeps for: taken in the idle loop, and
\* in any code but that of Once.
Interrupt ==
  /\ Idles(proc) \/ \E t \in Thread : proc.current = t /\ pc[t] # "wait"
  /\ proc.asleep[event] # <<>>
  /\ proc' = WakeOne(proc, event)
  /\ UNCHANGED <<state, pc, ran>>

ThreadStep(t) ==
  Once(t) \/ Waits(t) \/ InitialiserPauses(t) \/ Done(t) \/ Yield(t) \/ Run(t)

Next == Interrupt \/ \E t \in Thread : ThreadStep(t)

Spec == Init /\ [][Next]_vars

(***************************************************************************)
(* Fairness: ready threads of one priority get the processor in turn       *)
(* (thread_fair), leave it, and the initialiser comes to its end; an       *)
(* interrupt comes if the processor has interrupts enabled for it.         *)
(***************************************************************************)
Fairness ==
  /\ SF_vars(Interrupt)
  /\ \A t \in Thread : /\ SF_vars(Run(t))
                       /\ SF_vars(Once(t) \/ Waits(t) \/ Done(t) \/ Yield(t))

FairSpec == Spec /\ Fairness

-----------------------------------------------------------------------------
(***************************************************************************)
(* The initialiser runs once, in one thread, and whoever returns does so   *)
(* after its end (Once.cpp:15-24, Once.hpp:17-24).                         *)
(***************************************************************************)
InitialisedOnce ==
  /\ ran + Cardinality({t \in Thread : pc[t] = "init"}) <= 1
  /\ (\E t \in Thread : pc[t] = "done") => ran = 1

(***************************************************************************)
(* "we need to wait for the other thread to finish" (Once.cpp:20): every   *)
(* thread that waits returns, unless the initialiser sleeps for ever.  It  *)
(* may: the waiters keep interrupts disabled, and as long as one of them   *)
(* is ready, the processor does not idle and no interrupt wakes it.        *)
(***************************************************************************)
WaitersReturn ==
  \A t \in Thread :
    pc[t] = "wait" ~> pc[t] = "done" \/ [](proc.asleep[event] # <<>>)
=============================================================================
