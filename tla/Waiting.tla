-------------------------------- MODULE Waiting --------------------------------
(***************************************************************************)
(* What threads wait for beside the mutex: a message queue; a condition    *)
(* with its mutex; the initialiser of a Once; and the settings, which are  *)
(* set up on first use.  They share nothing, so that a behaviour is about  *)
(* one of them, its part.                                                  *)
(***************************************************************************)
EXTENDS MessageQueue

CONSTANTS Parts,                       \* the parts that a behaviour may be about
          User, First, cond, mutex,    \* the threads of the condition (see Cond)
          opening, reading, locking,   \* the settings (see SysConf)
          Caller, Files, Asks

VARIABLES part,
          kernel, lockCount, owner, condPc, holds,
          onceProc, onceState, oncePc, ran,
          setProc, file, built, state, request, setLock, setPc, ask, early,
          result, rebuilt

C == INSTANCE Cond WITH
       Thread <- User, WaitQueue <- {cond, mutex}, MaxPriority <- 0,
       k <- kernel, pc <- condPc

O == INSTANCE Once WITH proc <- onceProc, state <- onceState, pc <- oncePc

Conf == INSTANCE SysConf WITH proc <- setProc, lockCount <- setLock, pc <- setPc

ASSUME WaitingAssumption == Conf!SysConfAssumption /\ cond # mutex

condition == <<kernel, lockCount, owner, condPc, holds>>
once      == <<onceProc, onceState, oncePc, ran>>
settings  == <<setProc, file, built, state, request, setLock, setPc, ask,
               early, result, rebuilt>>
all       == <<part, vars, condition, once, settings>>

\* What nobody uses starts in one state.
Unused ==
  /\ part # "queue" =>
       \E m \in Message : /\ m = CHOOSE x \in Message : TRUE
                          /\ use.size = 1 /\ ring[0] = m
                          /\ arg = [t \in Thread |-> m]
  /\ part # "settings" => file = CHOOSE f \in Files : TRUE

WaitingInit == part \in Parts /\ Init /\ C!Init /\ O!Init /\ Conf!Init /\ Unused

InQueue(A) ==
  part = "queue" /\ A /\ UNCHANGED <<part, condition, once, settings>>
InCondition(A) ==
  part = "condition" /\ A /\ UNCHANGED <<part, vars, once, settings>>
InOnce(A) ==
  part = "once" /\ A /\ UNCHANGED <<part, vars, condition, settings>>
InSettings(A) ==
  part = "settings" /\ A /\ UNCHANGED <<part, vars, condition, once>>

\* Threads that use a condition may all go to sleep for good; the others may
\* not.
AtRest == part = "condition" /\ UNCHANGED all

WaitingNext ==
  \/ InQueue(Next) \/ InCondition(C!Next) \/ AtRest
  \/ InOnce(O!Next) \/ InSettings(Conf!Next)

WaitingSpec == WaitingInit /\ [][WaitingNext]_all

(***************************************************************************)
(* The fairness of Once and of SysConf: see O!Fairness and Conf!Fairness.     *)
(***************************************************************************)
FirstUseFairness ==
  /\ SF_all(InOnce(O!Interrupt) \/ InSettings(Conf!IosOpens \/ Conf!IosReads))
  /\ WF_all(InSettings(\E t \in Caller : Conf!Works(t)))
  /\ \A t \in Thread :
       /\ SF_all(\/ InOnce(O!Run(t))
                 \/ t \in Caller /\ InSettings(Conf!Resumes(t)))
       /\ SF_all(\/ InOnce(O!Once(t) \/ O!Waits(t) \/ O!Done(t) \/ O!Yield(t))
                 \/ t \in Caller /\ InSettings(Conf!Yield(t)))

FirstUseSpec == WaitingSpec /\ FirstUseFairness

-----------------------------------------------------------------------------
\* The mutex of a condition is never unlocked more often than it was locked
\* (the assertion of Mutex.cpp:38), whatever Wait, Signal and Broadcast do to
\* the queues: see module Cond.
CountMatchesHolders == C!CountMatchesHolders

\* The initialiser of a Once runs once, and who returns does so after its end
\* (Once.cpp:15-24): see module Once.
InitialisedOnce == O!InitialisedOnce

\* A thread that waits for the initialiser returns (Once.cpp:20): see Once.
WaitersReturn == O!WaitersReturn

\* A setting that a call returned is an entry of the file, one that was asked
\* for, and lies in m_data (SysConf.cpp:119-267): see SysConf.
GetRight == Conf!GetRight

\* A thread that asks for a setting gets its answer: see SysConf.
GetsReturn == Conf!GetsReturn
=============================================================================
