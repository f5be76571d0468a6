---------------------------- MODULE OwnRegisters ----------------------------
(***************************************************************************)
(* What threads are promised of the processor: each has registers of its   *)
(* own.  An interrupt and a switch that a handler makes change none of      *)
(* them, and a call of the runtime only those that a call may change.       *)
(* Forget is what the promise leaves out: of some floating-point registers  *)
(* and the XER of a thread nothing is said any more.                        *)
(***************************************************************************)
CONSTANTS Thread, NoThread, Class, Value

VARIABLES regs,     \* of each thread, the registers that the promise covers
          running   \* the thread whose code the processor executes

\* Registers that a call need not preserve, and those that may be forgotten.
CallChanges == {"scratch", "volatile", "xer", "f0"}
Forgettable == {"xer", "f0", "float", "paired"}

NotBegun == [c \in {} |-> NoThread]

Init == /\ running \in Thread
        /\ regs \in [Thread -> {NotBegun} \cup [Class -> Value]]

\* What a step may do to the registers of t: set those of C, forget some.
Changes(t, C) ==
  /\ DOMAIN regs[t] \ DOMAIN regs'[t] \subseteq Forgettable
  /\ regs'[t] \in [DOMAIN regs'[t] -> Value]
  /\ \A c \in DOMAIN regs'[t] \ C : c \in DOMAIN regs[t] /\ regs'[t][c] = regs[t][c]
  /\ regs' = [regs EXCEPT ![t] = regs'[t]]

\* A thread computes.
Compute(t) ==
  /\ running = t /\ UNCHANGED running
  /\ \E c \in Class : Changes(t, {c})

\* A thread begins or ends the use of paired singles: they start undefined,
\* and the quantization registers are reset.
SetPaired(t) ==
  running = t /\ UNCHANGED running /\ Changes(t, {"paired", "saved"})

\* A thread makes another one.
Create(t, u) ==
  /\ running = t /\ regs[u] = NotBegun /\ UNCHANGED running
  /\ \E r \in [Class -> Value] : regs' = [regs EXCEPT ![u] = r]

\* A thread calls the runtime, which goes on with u.
Call(t, u) == running = t /\ running' = u /\ Changes(t, CallChanges)

\* A handler takes the processor from t, wherever that is, or t stops at an
\* exception, so that its registers can be read.
Preempt(t, u) == running = t /\ running' = u /\ Changes(t, {})

\* A thread is destroyed.
Delete(t) ==
  /\ running = t /\ running' = NoThread
  /\ regs' = [regs EXCEPT ![t] = NotBegun]

\* The last disjunct: what is left of a thread that was destroyed goes on.
Next ==
  \/ \E t \in Thread : Compute(t) \/ SetPaired(t) \/ Delete(t)
  \/ \E t, u \in Thread : Create(t, u) \/ Call(t, u) \/ Preempt(t, u)
  \/ running = NoThread /\ running' \in Thread /\ UNCHANGED regs

Spec == Init /\ [][Next]_<<regs, running>>
=============================================================================
