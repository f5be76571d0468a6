----------------------------- MODULE Registers ------------------------------
(***************************************************************************)
(* The registers of the processor between threads, interrupts and           *)
(* exceptions: ppc/Context.cpp, the vectors of rt/Exceptions.cpp, the       *)
(* contexts that rt/Thread.cpp makes.  Registers are classes, by what the   *)
(* assembly does with them:                                                 *)
(*   scratch   r0, r3                                                       *)
(*   volatile  r4 - r12, CTR                                                *)
(*   saved     r1, r2, r13 - r31, GQR1 - GQR7                               *)
(*   branch    CR, LR and the place the code is at (SRR0)                   *)
(*   xer       XER                                                          *)
(*   f0        the upper half of f0                                         *)
(*   float     the rest of f0, f1 - f31, FPSCR                              *)
(*   paired    the second halves of paired singles                          *)
(* A context has a word for each, except that XER and f0 share one: the     *)
(* assembly has XER at 0x090, where f0 is, and not at 0x08C.                *)
(*                                                                         *)
(* A call of the runtime is one step: interrupts are disabled from its      *)
(* begin until it gives the processor to another thread.  The loop in which *)
(* it waits with interrupts enabled is code like any other for this module. *)
(***************************************************************************)
EXTENDS Integers

CONSTANTS
  Thread, Main,      \* Main is s_main_thread
  NoThread,          \* s_none_context
  Value,             \* contents of registers
  Start,             \* the contents that a context begins with
  MaxEvents          \* bound on writes of registers, switches in handlers
                     \* and threads that end

Class  == {"scratch", "volatile", "saved", "branch", "xer",
           "f0", "float", "paired"}
Word   == {"scratch", "volatile", "saved", "branch", "xerOrF0",
           "float", "paired"}
Floats == {"f0", "float", "paired"}
Owner  == Thread \cup {NoThread}

ASSUME RegistersAssumption ==
  /\ Main \in Thread /\ NoThread \notin Thread
  /\ Start \in Value
  /\ MaxEvents \in Nat

VARIABLES
  cpu,     \* the registers
  msr,     \* MSR: interrupts enabled, floating point enabled
  hid2,    \* HID2: LSQE and PSE, and whether any other bit is set
  ctx,     \* OSContext of each thread
  em,      \* em_current_context
  at,      \* where a thread's code is
  frame,   \* what handleExternalInterrupt holds on the thread's stack
  scope,   \* NoInterruptsScope::prev of the call the thread is in
  lost,    \* history variable: what was not kept of a thread, see section 6
           \* of README.md
  events

vars == <<cpu, msr, hid2, ctx, em, at, frame, scope, lost, events>>

\* The word of a context that holds a register.
WordOf(c) == IF c \in {"xer", "f0"} THEN "xerOrF0" ELSE c

\* Thread.cpp:88-128: a context begins with the stack, the GQRs and the MSR of
\* its creator, of which Restore leaves EE.  HID2 is not set.
NewContext(ee) == [words |-> [w \in Word |-> Start], ee |-> ee, ps |-> FALSE]

Off   == [ee |-> FALSE, fp |-> FALSE]
Blank == [branch |-> Start, xer |-> Start, msr |-> Off]

\* The main thread after peliMain: paired singles are on, interrupts are not.
Init ==
  /\ cpu = [c \in Class |-> Start] /\ msr = Off
  /\ hid2 = [ps |-> TRUE, other |-> FALSE]
  /\ ctx = [t \in Owner |-> NewContext(FALSE)]
  /\ em = Main
  /\ at = [t \in Owner |-> IF t = em THEN "code" ELSE "none"]
  /\ frame = [t \in Owner |-> Blank]
  /\ scope = [t \in Owner |-> FALSE]
  /\ lost = [t \in Owner |-> {}]
  /\ events = 0

----------------------------------------------------------------------------
(* The code of a thread. *)

Counted == events < MaxEvents /\ events' = events + 1

InCode  == at[em] = "code"
Running == InCode /\ em # NoThread

\* An instruction writes a register; floating point only while it is enabled.
Compute ==
  /\ Running /\ Counted
  /\ \E c \in Class : \E v \in Value :
       /\ c \in Floats => msr.fp
       /\ c = "paired" => hid2.ps
       /\ cpu' = [cpu EXCEPT ![c] = v]
  /\ UNCHANGED <<msr, hid2, ctx, em, at, frame, scope, lost>>

\* The MSR is read and written by one instruction, or by the system call.
EnableInterrupts ==
  /\ InCode /\ ~msr.ee /\ msr' = [msr EXCEPT !.ee = TRUE]
  /\ UNCHANGED <<cpu, hid2, ctx, em, at, frame, scope, lost, events>>

DisableInterrupts ==
  /\ InCode /\ msr.ee /\ msr' = [msr EXCEPT !.ee = FALSE]
  /\ UNCHANGED <<cpu, hid2, ctx, em, at, frame, scope, lost, events>>

\* PairedSingle::Init, which resets the GQRs, and Disable.
SetPaired ==
  /\ Running /\ Counted
  /\ cpu' = IF hid2.ps THEN cpu ELSE [cpu EXCEPT !["saved"] = Start]
  /\ hid2' = [hid2 EXCEPT !.ps = ~@]
  /\ UNCHANGED <<msr, ctx, em, at, frame, scope, lost>>

\* A program uses the write gather pipe, the locked cache or its DMA.
SetHid2 ==
  /\ Running /\ Counted /\ hid2' = [hid2 EXCEPT !.other = ~@]
  /\ UNCHANGED <<cpu, msr, ctx, em, at, frame, scope, lost>>

Create(u) ==
  /\ Running /\ at[u] = "none"
  /\ ctx' = [ctx EXCEPT ![u] = NewContext(msr.ee)]
  /\ at' = [at EXCEPT ![u] = "code"]
  /\ scope' = [scope EXCEPT ![u] = FALSE]
  /\ lost' = [lost EXCEPT ![u] = {}]
  /\ UNCHANGED <<cpu, msr, hid2, em, frame, events>>

\* ~Thread of the running thread (Thread.cpp:174-191), up to the dispatch:
\* what is left runs on s_none_context.
Delete ==
  /\ Running /\ Counted /\ em' = NoThread
  /\ msr' = [msr EXCEPT !.ee = FALSE]
  /\ at' = [at EXCEPT ![em] = "none", ![NoThread] = "code"]
  /\ UNCHANGED <<cpu, hid2, ctx, frame, scope, lost>>

----------------------------------------------------------------------------
(* The switch: FastSwitch saves, Restore loads. *)

\* The words of a context that FastSwitch stores, XER before f0.  The test for
\* paired singles is of all of HID2, not of LSQE and PSE.
Stored ==
  {"saved", "branch", "xerOrF0"}
  \cup (IF msr.fp THEN {"float"} ELSE {})
  \cup (IF msr.fp /\ hid2.ps /\ ~hid2.other THEN {"paired"} ELSE {})

Source(w) == IF w # "xerOrF0" THEN w ELSE IF msr.fp THEN "f0" ELSE "xer"

FastSwitched(x) ==
  [x EXCEPT !.words = [w \in Word |-> IF w \in Stored THEN cpu[Source(w)] ELSE @[w]],
            !.ee = FALSE, !.ps = hid2.ps]

\* Restore: all but floating point, which is off until it is used.
Loaded(x) ==
  [c \in Class |-> IF c \in Floats THEN cpu[c] ELSE x.words[WordOf(c)]]

\* Mutant: Restore leaves MSR.FP as it is.
RestoredMsrKeepFp(x, prev) == [ee |-> x.ee \/ prev, fp |-> msr.fp]

\* MSR.FP is cleared; the scope of the call enables interrupts again.
RestoredMsr(x, prev) == [ee |-> x.ee \/ prev, fp |-> FALSE]

\* dispatch of u: the switch, and the end of the scope of the call that u is in.
Dispatch(u, prev) ==
  LET saved  == [ctx EXCEPT ![em] = FastSwitched(@)]
      scopes == [scope EXCEPT ![em] = prev]
  IN /\ ctx' = saved /\ em' = u
     /\ cpu' = Loaded(saved[u])
     /\ msr' = RestoredMsr(saved[u], scopes[u])
     /\ hid2' = [hid2 EXCEPT !.ps = saved[u].ps]
     /\ scope' = [scopes EXCEPT ![u] = FALSE]

CanRun(u) == at[u] \in {"code", "handler"}

\* What FastSwitch should have stored.
Missed == IF msr.fp /\ hid2.ps /\ hid2.other THEN {"paired"} ELSE {}

\* The running thread calls what ends in dispatchAny.
Call(u) ==
  /\ InCode /\ CanRun(u)
  /\ lost' = [lost EXCEPT ![em] = @ \cup Missed]
  /\ Dispatch(u, msr.ee)
  /\ UNCHANGED <<at, frame, events>>

\* A handler calls what ends in dispatchAny: interrupts are disabled, and
\* floating point is, whatever the interrupted code had in its registers.
HandlerCalls(u) ==
  /\ at[em] = "handler" /\ CanRun(u) /\ Counted
  /\ lost' = [lost EXCEPT ![em] = @ \cup (IF frame[em].msr.fp THEN Floats ELSE {"f0"})]
  /\ Dispatch(u, FALSE)
  /\ UNCHANGED <<at, frame>>

----------------------------------------------------------------------------
(* Exceptions. *)

\* The thread uses floating point while it is off: its registers are loaded.
\* r0 and r3 are kept in the context meanwhile.
FloatingPointUnavailable ==
  /\ Running /\ ~msr.fp /\ msr' = [msr EXCEPT !.fp = TRUE]
  /\ LET loads == IF hid2.ps THEN Floats ELSE Floats \ {"paired"}
     IN cpu' = [c \in Class |-> IF c \in loads THEN ctx[em].words[WordOf(c)] ELSE cpu[c]]
  /\ ctx' = [ctx EXCEPT ![em].words["scratch"] = cpu["scratch"]]
  /\ UNCHANGED <<hid2, em, at, frame, scope, lost, events>>

\* externalInterruptVector.
ExternalInterrupt ==
  /\ InCode /\ msr.ee
  /\ ctx' = [ctx EXCEPT ![em].words["scratch"] = cpu["scratch"],
                        ![em].words["volatile"] = cpu["volatile"]]
  /\ frame' = [frame EXCEPT ![em] = [branch |-> cpu["branch"],
                                     xer |-> cpu["xer"], msr |-> msr]]
  /\ msr' = Off
  /\ at' = [at EXCEPT ![em] = "handler"]
  /\ UNCHANGED <<cpu, hid2, em, scope, lost, events>>

\* A handler is compiled code: it leaves only r1, r2, r13 - r31 as they were,
\* and it must not use floating point.
HandlerRuns ==
  /\ at[em] = "handler" /\ Counted
  /\ \E v \in Value :
       cpu' = [c \in Class |-> IF c \in {"scratch", "volatile", "branch", "xer"}
                               THEN v ELSE cpu[c]]
  /\ UNCHANGED <<msr, hid2, ctx, em, at, frame, scope, lost>>

\* The end of handleExternalInterrupt and returnFromExternalInterrupt.
ReturnFromInterrupt ==
  /\ at[em] = "handler"
  /\ ctx' = [ctx EXCEPT ![em].words["branch"] = frame[em].branch]
  /\ cpu' = [cpu EXCEPT !["scratch"]  = ctx[em].words["scratch"],
                        !["volatile"] = ctx[em].words["volatile"],
                        !["branch"]   = frame[em].branch,
                        !["xer"]      = frame[em].xer]
  /\ msr' = frame[em].msr
  /\ at' = [at EXCEPT ![em] = "code"]
  /\ frame' = [frame EXCEPT ![em] = Blank]
  /\ UNCHANGED <<hid2, em, scope, lost, events>>

\* panicExceptionVector, for DefaultErrorHandler to print and halt.  XER goes
\* to 0x090 and is printed from 0x08C, where nothing was ever stored.
Panic ==
  /\ Running /\ at' = [at EXCEPT ![em] = "panic"]
  /\ ctx' = [ctx EXCEPT ![em].words = [w \in Word |->
               CASE w \in {"scratch", "volatile", "saved", "branch"} -> cpu[w]
                 [] w = "xerOrF0" -> cpu["xer"] [] OTHER -> @[w]]]
  /\ lost' = [lost EXCEPT ![em] = @ \cup (IF msr.fp THEN {"xer"} ELSE {"xer", "f0"})]
  /\ UNCHANGED <<cpu, msr, hid2, em, frame, scope, events>>

----------------------------------------------------------------------------
Next ==
  \/ Compute \/ EnableInterrupts \/ DisableInterrupts \/ SetPaired \/ SetHid2
  \/ \E u \in Thread : Create(u) \/ Call(u) \/ HandlerCalls(u)
  \/ Delete
  \/ FloatingPointUnavailable \/ ExternalInterrupt \/ HandlerRuns
  \/ ReturnFromInterrupt \/ Panic

Spec == Init /\ [][Next]_vars

----------------------------------------------------------------------------
(* Where the registers of a thread are. *)

\* MSR as the code of a thread has it.
MsrOf(t) == IF at[t] = "handler" THEN frame[t].msr ELSE msr

Live(c) == MsrOf(em).fp /\ (c = "paired" => hid2.ps)

\* What DefaultErrorHandler prints.
Printed(t, c) == ctx[t].words[c]

Held(t, c) ==
  CASE at[t] = "panic" /\ c \notin Floats -> Printed(t, c)
    [] at[t] = "handler" /\ c \in {"scratch", "volatile"} -> ctx[t].words[c]
    [] at[t] = "handler" /\ c \in {"branch", "xer"} -> frame[t][c]
    [] c \in Floats /\ t = em /\ Live(c) -> cpu[c]
    [] c \in Floats /\ ~(t = em /\ Live(c)) -> ctx[t].words[WordOf(c)]
    [] OTHER -> IF t = em THEN cpu[c] ELSE ctx[t].words[WordOf(c)]

Own(t) == IF at[t] = "none" THEN [c \in {} |-> NoThread]
          ELSE [c \in Class \ lost[t] |-> Held(t, c)]

Ideal == INSTANCE OwnRegisters WITH
           regs <- [t \in Thread |-> Own(t)], running <- em

\* However calls, interrupts and exceptions interleave, each thread finds in
\* its registers what it left there (Context.cpp:88-228, Exceptions.cpp:68-449).
ImplementsOwnRegisters == Ideal!Spec
=============================================================================
