---------------------------- MODULE Machine_proofs ----------------------------
(***************************************************************************)
(* What is shared out is kept apart, for any number of threads, any calls, *)
(* buffers and values, and any transfers:                                  *)
(*   - each thread has registers of its own: every step of Registers is a  *)
(*     step of OwnRegisters or leaves what that module sees as it is;      *)
(*   - every call of IosRequest is a call of IosCall, whatever goes        *)
(*     through the cache between the two processors;                       *)
(*   - the SD card is selected when it is asked for blocks, and deselected *)
(*     when a call is over.                                                *)
(* Each part has its inductive invariant, RInv, ReqInv and CardInv.        *)
(***************************************************************************)
EXTENDS Machine, Sequences, TLAPS

-----------------------------------------------------------------------------
(* Registers *)

Msr     == [ee : BOOLEAN, fp : BOOLEAN]
Context == [words : [Word -> Value], ee : BOOLEAN, ps : BOOLEAN]

RegTypes ==
  /\ cpu \in [Class -> Value]
  /\ msr \in Msr
  /\ hid2 \in [ps : BOOLEAN, other : BOOLEAN]
  /\ ctx \in [Owner -> Context]
  /\ em \in Owner
  /\ at \in [Owner -> {"none", "code", "handler", "panic"}]
  /\ frame \in [Owner -> [branch : Value, xer : Value, msr : Msr]]
  /\ scope \in [Owner -> BOOLEAN]
  /\ lost \in [Owner -> SUBSET Ideal!Forgettable]

\* Floating point is off in a handler.  A thread that lost the processor there
\* may find its floating point on when it comes back, and the registers those
\* of somebody else: all of them count as lost.  What a panic keeps of XER is
\* not found where it is looked for.
HandlerOK ==
  /\ at[em] = "handler" => ~msr.fp
  /\ \A t \in Owner : t # em /\ at[t] = "handler" /\ frame[t].msr.fp
                        => Floats \subseteq lost[t]
  /\ \A t \in Owner : at[t] = "panic" => "xer" \in lost[t]

RInv == RegTypes /\ HandlerOK

-----------------------------------------------------------------------------
(* What the abstraction makes of a thread. *)

\* A register that is kept is found in one place or the other.
HeldTypes == \A t \in Owner : \A c \in Class \ lost[t] : Held(t, c) \in Value

LEMMA HeldValue == RInv => HeldTypes
<1> SUFFICES ASSUME RInv, NEW t \in Owner, NEW c \in Class \ lost[t]
             PROVE  Held(t, c) \in Value
  BY DEF HeldTypes
<1> USE DEF RInv, RegTypes, HandlerOK, Context, Word, Class, Floats
<1>1. \A d \in Class : WordOf(d) \in Word BY DEF WordOf
<1>2. \A w \in Word : ctx[t].words[w] \in Value OBVIOUS
<1>3. cpu[c] \in Value OBVIOUS
<1>4. c \in {"branch", "xer"} => frame[t][c] \in Value OBVIOUS
<1>5. at[t] = "panic" /\ c \notin Floats => c \in Word OBVIOUS
<1>6. c \in {"scratch", "volatile"} => c \in Word OBVIOUS
<1> QED BY <1>1, <1>2, <1>3, <1>4, <1>5, <1>6 DEF Held, Printed

\* What is promised of a thread, and its registers.
LEMMA OwnIs ==
  ASSUME NEW t \in Owner
  PROVE  /\ at[t] = "none" => Own(t) = Ideal!NotBegun
         /\ at[t] # "none" =>
              /\ DOMAIN Own(t) = Class \ lost[t]
              /\ \A c \in Class \ lost[t] : Own(t)[c] = Held(t, c)
              /\ Own(t) = [c \in Class \ lost[t] |-> Held(t, c)]
  BY DEF Own, Ideal!NotBegun

\* The same in the next state.
LEMMA OwnIsThen ==
  ASSUME NEW t \in Owner
  PROVE  /\ at'[t] = "none" => Own(t)' = Ideal!NotBegun
         /\ at'[t] # "none" =>
              /\ DOMAIN Own(t)' = Class \ lost'[t]
              /\ \A c \in Class \ lost'[t] : Own(t)'[c] = Held(t, c)'
              /\ Own(t)' = [c \in Class \ lost'[t] |-> Held(t, c)']
  BY DEF Own, Ideal!NotBegun

\* A thread of which a step changes nothing that is promised.
Keeps(t) ==
  /\ at'[t] = "none" <=> at[t] = "none"
  /\ lost'[t] = lost[t]
  /\ \A c \in Class \ lost[t] : Held(t, c)' = Held(t, c)

LEMMA KeptOwn ==
  ASSUME NEW t \in Owner, Keeps(t)
  PROVE  Own(t)' = Own(t)
  BY DEF Keeps, Own

\* The registers of all threads, as OwnRegisters has them.
Regs == [t \in Thread |-> Own(t)]

\* A step that may only set the registers of C and lose some of one thread.
LEMMA ChangesOnly ==
  ASSUME RInv, RInv', NEW t \in Thread, NEW C, at[t] # "none", at'[t] # "none",
         lost[t] \subseteq lost'[t],
         \A c \in Class \ (lost'[t] \cup C) : Held(t, c)' = Held(t, c),
         \A u \in Thread \ {t} : Keeps(u)
  PROVE  Ideal!Changes(t, C)
<1>1. t \in Owner /\ Thread \subseteq Owner BY DEF Owner
<1>2. lost'[t] \subseteq Ideal!Forgettable
  BY <1>1 DEF RInv, RegTypes
<1>3. Regs[t] = Own(t) /\ Regs'[t] = Own(t)'
  BY DEF Regs
<1>4. DOMAIN Regs[t] \ DOMAIN Regs'[t] \subseteq Ideal!Forgettable
  BY <1>1, <1>2, <1>3, OwnIs, OwnIsThen
<1>5. Regs'[t] \in [DOMAIN Regs'[t] -> Value]
  <2>1. \A c \in Class \ lost'[t] : Held(t, c)' \in Value
    <3>1. RInv' => HeldTypes' BY HeldValue, PTL
    <3> QED BY <1>1, <3>1 DEF HeldTypes
  <2> DEFINE K == Class \ lost'[t]
  <2>2. Regs'[t] = [c \in K |-> Held(t, c)'] /\ DOMAIN Regs'[t] = K
    BY <1>1, <1>3, OwnIsThen
  <2> QED BY <2>1, <2>2
<1>6. \A c \in DOMAIN Regs'[t] \ C :
        c \in DOMAIN Regs[t] /\ Regs'[t][c] = Regs[t][c]
  <2>1. DOMAIN Regs'[t] = Class \ lost'[t] /\ DOMAIN Regs[t] = Class \ lost[t]
    BY <1>1, <1>3, OwnIs, OwnIsThen
  <2> SUFFICES ASSUME NEW c \in (Class \ lost'[t]) \ C
               PROVE  c \in Class \ lost[t] /\ Regs'[t][c] = Regs[t][c]
    BY <2>1
  <2>2. c \in Class \ lost[t] OBVIOUS
  <2>3. Regs'[t][c] = Held(t, c)' BY <1>1, <1>3, OwnIsThen
  <2>4. Regs[t][c] = Held(t, c) BY <1>1, <1>3, <2>2, OwnIs
  <2> QED BY <2>2, <2>3, <2>4
<1>7. Regs' = [Regs EXCEPT ![t] = Regs'[t]]
  <2>1. \A u \in Thread \ {t} : Own(u)' = Own(u)
    BY <1>1, KeptOwn
  <2> QED BY <2>1, <1>3 DEF Regs
<1> QED BY <1>4, <1>5, <1>6, <1>7 DEF Ideal!Changes, Regs

\* A step that changes nothing that is promised of any thread.
LEMMA AllKept ==
  ASSUME \A t \in Thread : Keeps(t)
  PROVE  UNCHANGED Regs
  BY KeptOwn DEF Regs, Owner

-----------------------------------------------------------------------------
(* The invariant.                                                          *)

LEMMA InitInv == Init => RInv
<1> USE RegistersAssumption DEF Init, RInv, RegTypes, HandlerOK
<1>1. ASSUME Init PROVE RegTypes
  BY <1>1 DEF Off, Blank, NewContext, Msr, Context, Owner
<1>2. ASSUME Init PROVE HandlerOK
  BY <1>2 DEF Off
<1> QED BY <1>1, <1>2

\* One word of a context is written.
LEMMA ContextWord ==
  ASSUME NEW x \in Context, NEW w \in Word, NEW v \in Value
  PROVE  /\ [x EXCEPT !.words[w] = v] \in Context
         /\ [x EXCEPT !.words[w] = v].words = [x.words EXCEPT ![w] = v]
<1> DEFINE ws == [x.words EXCEPT ![w] = v]
<1>1. ws \in [Word -> Value] BY DEF Context
<1>2. [x EXCEPT !.words[w] = v] = [x EXCEPT !.words = ws] OBVIOUS
<1> HIDE DEF ws
<1>3. [x EXCEPT !.words = ws] \in Context /\ [x EXCEPT !.words = ws].words = ws
  BY <1>1 DEF Context
<1> QED BY <1>2, <1>3 DEF ws

\* A dispatch, whoever makes it, keeps the types of what it changes.
LEMMA DispatchTypes ==
  ASSUME RegTypes, NEW u \in Thread, NEW prev \in BOOLEAN, Dispatch(u, prev)
  PROVE  /\ cpu' \in [Class -> Value] /\ msr' \in Msr
         /\ hid2' \in [ps : BOOLEAN, other : BOOLEAN]
         /\ ctx' \in [Owner -> Context]
         /\ em' \in Owner /\ em' = u /\ scope' \in [Owner -> BOOLEAN]
         /\ ~msr'.fp
         /\ \A v \in Owner \ {em} : ctx'[v] = ctx[v]
         /\ ctx'[em].words = [w \in Word |-> IF w \in Stored THEN cpu[Source(w)]
                                             ELSE ctx[em].words[w]]
         /\ cpu' = Loaded(ctx'[u])
<1> USE DEF RegTypes
<1> DEFINE x == FastSwitched(ctx[em])
<1> DEFINE saved == [ctx EXCEPT ![em] = x]
<1> DEFINE scopes == [scope EXCEPT ![em] = prev]
<1>1. \A w \in Word : Source(w) \in Class \/ w \notin Stored
  BY DEF Source, Stored, Word, Class
<1>2. /\ x \in Context
      /\ x.words = [w \in Word |-> IF w \in Stored THEN cpu[Source(w)]
                                   ELSE ctx[em].words[w]]
  <2> DEFINE ws == [w \in Word |-> IF w \in Stored THEN cpu[Source(w)]
                                   ELSE ctx[em].words[w]]
  <2>1. ws \in [Word -> Value] BY <1>1 DEF Context
  <2>2. ctx[em] \in Context /\ hid2.ps \in BOOLEAN OBVIOUS
  <2>a. x = [ctx[em] EXCEPT !.words = ws, !.ee = FALSE, !.ps = hid2.ps]
    BY DEF FastSwitched
  <2> HIDE DEF ws
  <2>3. x = [words |-> ws, ee |-> FALSE, ps |-> hid2.ps]
    BY <2>2, <2>a DEF Context
  <2>4. x \in Context /\ x.words = ws BY <2>1, <2>2, <2>3 DEF Context
  <2> QED BY <2>4 DEF ws
<1> HIDE DEF x
<1>3. saved \in [Owner -> Context] /\ saved[em] = x
      /\ \A v \in Owner \ {em} : saved[v] = ctx[v]
  BY <1>2
<1>4. u \in Owner BY DEF Owner
<1>5. scopes \in [Owner -> BOOLEAN] OBVIOUS
<1>6. /\ ctx' = saved /\ em' = u
      /\ cpu' = Loaded(saved[u])
      /\ msr' = [ee |-> saved[u].ee \/ scopes[u], fp |-> FALSE]
      /\ hid2' = [hid2 EXCEPT !.ps = saved[u].ps]
      /\ scope' = [scopes EXCEPT ![u] = FALSE]
  BY DEF Dispatch, RestoredMsr, x
<1> HIDE DEF saved, scopes
<1>7. Loaded(saved[u]) \in [Class -> Value]
  <2>1. \A c \in Class : WordOf(c) \in Word \/ c \in Floats
    BY DEF WordOf, Word, Class, Floats
  <2> QED BY <1>3, <1>4, <2>1 DEF Loaded, Context
<1>8. /\ msr' \in Msr /\ hid2' \in [ps : BOOLEAN, other : BOOLEAN]
      /\ scope' \in [Owner -> BOOLEAN] /\ ~msr'.fp
  BY <1>3, <1>4, <1>5, <1>6 DEF Msr, Context
<1> QED BY <1>2, <1>3, <1>4, <1>6, <1>7, <1>8

LEMMA StepInv == RInv /\ [Next]_vars => RInv'
<1> SUFFICES ASSUME RInv, [Next]_vars PROVE RInv'
  OBVIOUS
<1> USE RegistersAssumption
<1> USE DEF RInv, RegTypes, HandlerOK, InCode, Running, Counted
<1>1. ASSUME Compute PROVE RInv'
  BY <1>1 DEF Compute
<1>2. ASSUME EnableInterrupts \/ DisableInterrupts PROVE RInv'
  BY <1>2 DEF EnableInterrupts, DisableInterrupts, Msr
<1>3. ASSUME SetPaired \/ SetHid2 PROVE RInv'
  BY <1>3 DEF SetPaired, SetHid2
<1>4. ASSUME NEW u \in Thread, Create(u) PROVE RInv'
  BY <1>4 DEF Create, NewContext, Context, Msr, Owner
<1>5. ASSUME NEW u \in Thread, Call(u) PROVE RInv'
  <2>1. PICK prev \in BOOLEAN : prev = msr.ee BY DEF Msr
  <2>2. Dispatch(u, prev) BY <1>5, <2>1 DEF Call
  <2>3. /\ UNCHANGED <<at, frame>> /\ at[em] = "code"
        /\ lost' = [lost EXCEPT ![em] = @ \cup Missed]
    BY <1>5 DEF Call
  <2>4. lost' \in [Owner -> SUBSET Ideal!Forgettable]
    BY <2>3 DEF Missed, Ideal!Forgettable
  <2>5. \A t \in Owner : lost[t] \subseteq lost'[t] BY <2>3
  <2>6. RegTypes'
    <3>1. /\ cpu' \in [Class -> Value] /\ msr' \in Msr
          /\ hid2' \in [ps : BOOLEAN, other : BOOLEAN]
          /\ ctx' \in [Owner -> Context]
          /\ em' \in Owner /\ scope' \in [Owner -> BOOLEAN]
      BY <2>1, <2>2, DispatchTypes
    <3> QED BY <3>1, <2>3, <2>4
  <2>7. HandlerOK'
    BY <2>1, <2>2, <2>3, <2>5, DispatchTypes
  <2> QED BY <2>6, <2>7
<1>6. ASSUME NEW u \in Thread, HandlerCalls(u) PROVE RInv'
  <2>2. Dispatch(u, FALSE) BY <1>6 DEF HandlerCalls
  <2>3. /\ UNCHANGED <<at, frame>> /\ at[em] = "handler"
        /\ lost' = [lost EXCEPT ![em] =
                      @ \cup (IF frame[em].msr.fp THEN Floats ELSE {"f0"})]
    BY <1>6 DEF HandlerCalls
  <2>4. lost' \in [Owner -> SUBSET Ideal!Forgettable]
    BY <2>3 DEF Floats, Ideal!Forgettable
  <2>5. \A t \in Owner : lost[t] \subseteq lost'[t] BY <2>3
  <2>6. RegTypes' BY <2>2, <2>3, <2>4, DispatchTypes
  <2>7. frame[em].msr.fp => Floats \subseteq lost'[em] BY <2>3
  <2>8. HandlerOK'
    BY <2>2, <2>3, <2>5, <2>7, DispatchTypes
  <2> QED BY <2>6, <2>8
<1>7. ASSUME Delete PROVE RInv'
  BY <1>7 DEF Delete, Msr, Owner
<1>8. ASSUME FloatingPointUnavailable PROVE RInv'
  <2> DEFINE loads == IF hid2.ps THEN Floats ELSE Floats \ {"paired"}
  <2> DEFINE x == [ctx[em] EXCEPT !.words["scratch"] = cpu["scratch"]]
  <2>1. x \in Context
    BY ContextWord DEF Class, Word
  <2>2. \A c \in Class : c \in loads => WordOf(c) \in Word
    BY DEF WordOf, Word, Floats
  <2>3. cpu' \in [Class -> Value]
    BY <1>8, <2>2 DEF FloatingPointUnavailable, Context
  <2>4. ctx' = [ctx EXCEPT ![em] = x]
    BY <1>8 DEF FloatingPointUnavailable
  <2> HIDE DEF x, loads
  <2>5. msr' \in Msr /\ UNCHANGED <<hid2, em, at, frame, scope, lost>>
        /\ at[em] = "code"
    BY <1>8 DEF FloatingPointUnavailable, Msr
  <2>6. RegTypes' BY <2>1, <2>3, <2>4, <2>5
  <2>7. HandlerOK' BY <2>5
  <2> QED BY <2>6, <2>7
<1>9. ASSUME ExternalInterrupt PROVE RInv'
  <2> DEFINE x == [ctx[em] EXCEPT !.words["scratch"] = cpu["scratch"],
                                  !.words["volatile"] = cpu["volatile"]]
  <2> DEFINE y == [ctx[em] EXCEPT !.words["scratch"] = cpu["scratch"]]
  <2>a. y \in Context BY ContextWord DEF Class, Word
  <2>b. x = [y EXCEPT !.words["volatile"] = cpu["volatile"]] OBVIOUS
  <2> HIDE DEF y
  <2>1. x \in Context BY <2>a, <2>b, ContextWord DEF Class, Word
  <2>2. ctx' = [ctx EXCEPT ![em] = x]
    BY <1>9 DEF ExternalInterrupt
  <2>3. [branch |-> cpu["branch"], xer |-> cpu["xer"], msr |-> msr]
          \in [branch : Value, xer : Value, msr : Msr]
    BY DEF Class
  <2> HIDE DEF x
  <2>4. /\ msr' = Off /\ UNCHANGED <<cpu, hid2, em, scope, lost>>
        /\ at' = [at EXCEPT ![em] = "handler"]
        /\ frame' \in [Owner -> [branch : Value, xer : Value, msr : Msr]]
        /\ \A t \in Owner \ {em} : frame'[t] = frame[t]
    BY <1>9, <2>3 DEF ExternalInterrupt
  <2>5. RegTypes' BY <2>1, <2>2, <2>4 DEF Msr, Off
  <2>6. HandlerOK' BY <2>4 DEF Off
  <2> QED BY <2>5, <2>6
<1>10. ASSUME HandlerRuns PROVE RInv'
  BY <1>10 DEF HandlerRuns
<1>11. ASSUME ReturnFromInterrupt PROVE RInv'
  <2> DEFINE x == [ctx[em] EXCEPT !.words["branch"] = frame[em].branch]
  <2>1. x \in Context BY ContextWord DEF Word
  <2>2. ctx' = [ctx EXCEPT ![em] = x]
    BY <1>11 DEF ReturnFromInterrupt
  <2>3. cpu' \in [Class -> Value]
    <3>1. /\ ctx[em].words["scratch"] \in Value
          /\ ctx[em].words["volatile"] \in Value
          /\ frame[em].branch \in Value /\ frame[em].xer \in Value
      BY DEF Context, Word
    <3> QED BY <1>11, <3>1 DEF ReturnFromInterrupt
  <2>4. Blank \in [branch : Value, xer : Value, msr : Msr]
    BY DEF Blank, Msr, Off
  <2> HIDE DEF x
  <2>5. /\ msr' = frame[em].msr /\ UNCHANGED <<hid2, em, scope, lost>>
        /\ at' = [at EXCEPT ![em] = "code"]
        /\ frame' = [frame EXCEPT ![em] = Blank]
    BY <1>11 DEF ReturnFromInterrupt
  <2>6. RegTypes' BY <2>1, <2>2, <2>3, <2>4, <2>5
  <2>7. HandlerOK' BY <2>5
  <2> QED BY <2>6, <2>7
<1>12. ASSUME Panic PROVE RInv'
  <2> DEFINE ws == [w \in Word |->
               CASE w \in {"scratch", "volatile", "saved", "branch"} -> cpu[w]
                 [] w = "xerOrF0" -> cpu["xer"] [] OTHER -> ctx[em].words[w]]
  <2> DEFINE x == [ctx[em] EXCEPT !.words = ws]
  <2>1. ws \in [Word -> Value] BY DEF Context, Class
  <2>2. ctx' = [ctx EXCEPT ![em] = x]
    BY <1>12 DEF Panic
  <2> HIDE DEF ws
  <2>3. x \in Context BY <2>1 DEF Context
  <2> HIDE DEF x
  <2>4. lost' \in [Owner -> SUBSET Ideal!Forgettable] /\ "xer" \in lost'[em]
        /\ \A t \in Owner : lost[t] \subseteq lost'[t]
    BY <1>12 DEF Panic, Ideal!Forgettable
  <2>5. /\ UNCHANGED <<cpu, msr, hid2, em, frame, scope>>
        /\ at' = [at EXCEPT ![em] = "panic"]
    BY <1>12 DEF Panic
  <2>6. RegTypes' BY <2>2, <2>3, <2>4, <2>5
  <2>7. HandlerOK' BY <2>4, <2>5
  <2> QED BY <2>6, <2>7
<1>13. ASSUME UNCHANGED vars PROVE RInv'
  BY <1>13 DEF vars
<1> QED BY <1>1, <1>2, <1>3, <1>4, <1>5, <1>6, <1>7, <1>8, <1>9, <1>10, <1>11,
           <1>12, <1>13 DEF Next

-----------------------------------------------------------------------------
(* The steps, one by one, as OwnRegisters has them.                        *)

\* Nobody but the main thread has registers yet.
LEMMA InitOwn == Init => Ideal!Init
<1> SUFFICES ASSUME Init PROVE Ideal!Init
  OBVIOUS
<1>1. em \in Thread BY RegistersAssumption DEF Init
<1>2. RInv BY InitInv
<1>3. ASSUME NEW t \in Thread
      PROVE  Own(t) \in {Ideal!NotBegun} \cup [Class -> Value]
  <2>1. t \in Owner /\ lost[t] = {} BY DEF Owner, Init
  <2>2. \A c \in Class : Held(t, c) \in Value
    BY <1>2, <2>1, HeldValue DEF HeldTypes
  <2>3. at[t] # "none" => Own(t) = [c \in Class |-> Held(t, c)]
    BY <2>1 DEF Own
  <2> QED BY <2>1, <2>2, <2>3, OwnIs
<1> QED BY <1>1, <1>3 DEF Ideal!Init

\* A step that takes no part in what a thread, that does not run, has.
LEMMA OthersKept ==
  ASSUME RegTypes, NEW t \in Owner, t # em, t # em',
         at'[t] = at[t], frame'[t] = frame[t], ctx'[t] = ctx[t],
         lost'[t] = lost[t]
  PROVE  Keeps(t)
  BY DEF Keeps, Held, Printed

\* The thread that runs computes.
LEMMA ComputeOwn ==
  ASSUME RInv, RInv', NEW t \in Thread, em = t, Compute
  PROVE  Ideal!Compute(t)
<1> USE DEF RInv, RegTypes
<1>1. /\ t \in Owner /\ at[t] = "code"
      /\ UNCHANGED <<msr, hid2, ctx, em, at, frame, scope, lost>>
  BY DEF Compute, Running, InCode, Owner
<1>2. PICK d \in Class, v \in Value :
        /\ d \in Floats => msr.fp
        /\ d = "paired" => hid2.ps
        /\ cpu' = [cpu EXCEPT ![d] = v]
  BY DEF Compute
<1>3. \A c \in Class \ {d} : cpu'[c] = cpu[c]
  <2>1. cpu \in [Class -> Value] OBVIOUS
  <2> QED BY ONLY <1>2, <2>1
<1>4. \A c \in Class \ (lost'[t] \cup {d}) : Held(t, c)' = Held(t, c)
  BY <1>1, <1>3 DEF Held, Printed, Live, MsrOf
<1>5. \A u \in Thread \ {t} : Keeps(u)
  BY <1>1, OthersKept DEF Owner
<1>6. Ideal!Changes(t, {d})
  BY <1>1, <1>4, <1>5, ChangesOnly
<1> QED BY <1>1, <1>2, <1>6 DEF Ideal!Compute

\* It begins or ends the use of paired singles.
LEMMA SetPairedOwn ==
  ASSUME RInv, RInv', NEW t \in Thread, em = t, SetPaired
  PROVE  Ideal!SetPaired(t)
<1> USE DEF RInv, RegTypes
<1>1. /\ t \in Owner /\ at[t] = "code"
      /\ UNCHANGED <<msr, ctx, em, at, frame, scope, lost>>
  BY DEF SetPaired, Running, InCode, Owner
<1>2. \A c \in Class \ {"saved"} : cpu'[c] = cpu[c]
  BY DEF SetPaired
<1>3. \A c \in Class \ (lost'[t] \cup {"paired", "saved"}) :
        Held(t, c)' = Held(t, c)
  BY <1>1, <1>2 DEF Held, Printed, Live, MsrOf
<1>4. \A u \in Thread \ {t} : Keeps(u)
  BY <1>1, OthersKept DEF Owner
<1>5. Ideal!Changes(t, {"paired", "saved"})
  BY <1>1, <1>3, <1>4, ChangesOnly
<1> QED BY <1>1, <1>5 DEF Ideal!SetPaired

\* It makes another thread, which begins with registers that are defined.
LEMMA CreateOwn ==
  ASSUME RInv, RInv', NEW t \in Thread, em = t, NEW u \in Thread, Create(u)
  PROVE  Ideal!Create(t, u)
<1> USE DEF RInv, RegTypes
<1>1. /\ u \in Owner /\ t \in Owner /\ at[t] = "code" /\ at[u] = "none" /\ u # t
      /\ at' = [at EXCEPT ![u] = "code"] /\ lost'[u] = {}
      /\ \A v \in Owner \ {u} : ctx'[v] = ctx[v] /\ lost'[v] = lost[v]
      /\ UNCHANGED <<cpu, msr, hid2, em, frame>>
  BY DEF Create, Running, InCode, Owner
<1>2. \A v \in Thread \ {u, t} : Keeps(v)
  BY <1>1, OthersKept DEF Owner
<1>3. Keeps(t)
  BY <1>1 DEF Keeps, Held, Printed, Live, MsrOf
<1>4. \A v \in Thread \ {u} : Own(v)' = Own(v)
  BY <1>1, <1>2, <1>3, KeptOwn DEF Owner
<1>5. Own(u) = Ideal!NotBegun
  BY <1>1, OwnIs
<1>6. Own(u)' \in [Class -> Value]
  <2>1. \A c \in Class : Held(u, c)' \in Value
    <3>1. RInv' => HeldTypes' BY HeldValue, PTL
    <3> QED BY <1>1, <3>1 DEF HeldTypes
  <2>2. Own(u)' = [c \in Class |-> Held(u, c)']
    <3>1. at'[u] # "none" /\ Class \ lost'[u] = Class BY <1>1
    <3> QED BY <1>1, <3>1 DEF Own
  <2> QED BY <2>1, <2>2
<1>7. Regs' = [Regs EXCEPT ![u] = Own(u)']
  BY <1>4 DEF Regs
<1> QED BY <1>1, <1>5, <1>6, <1>7 DEF Ideal!Create, Regs

\* It is destroyed, and what is left of it runs on.
LEMMA DeleteOwn ==
  ASSUME RInv, RInv', NEW t \in Thread, em = t, Delete
  PROVE  Ideal!Delete(t)
<1> USE DEF RInv, RegTypes
<1>1. /\ t \in Owner /\ t # NoThread /\ em' = NoThread /\ at'[t] = "none"
      /\ \A v \in Thread \ {t} : at'[v] = at[v]
      /\ UNCHANGED <<cpu, hid2, ctx, frame, scope, lost>>
  BY RegistersAssumption DEF Delete, Running, InCode, Owner
<1>2. \A v \in Thread \ {t} : Keeps(v)
  BY <1>1, OthersKept, RegistersAssumption DEF Owner
<1>3. \A v \in Thread \ {t} : Own(v)' = Own(v)
  BY <1>2, KeptOwn DEF Owner
<1>4. Own(t)' = Ideal!NotBegun
  BY <1>1, OwnIsThen
<1>5. Regs' = [Regs EXCEPT ![t] = Ideal!NotBegun]
  BY <1>3, <1>4 DEF Regs
<1> QED BY <1>1, <1>5 DEF Ideal!Delete, Regs

\* A thread that gets the processor finds its registers as it left them.
LEMMA DispatchedKept ==
  ASSUME RInv, NEW u \in Thread, u # em, at[u] \in {"code", "handler"},
         em' = u, UNCHANGED <<at, frame>>, lost'[u] = lost[u],
         ctx'[u] = ctx[u], cpu' = Loaded(ctx'[u]), ~msr'.fp
  PROVE  Keeps(u)
<1> USE DEF RInv, RegTypes
<1>0. u \in Owner BY DEF Owner
<1> SUFFICES ASSUME NEW c \in Class \ lost[u] PROVE Held(u, c)' = Held(u, c)
  BY DEF Keeps
<1>1. CASE c \in Floats
  <2>1. ~(MsrOf(u)'.fp)
    BY <1>0, <1>1 DEF MsrOf, HandlerOK
  <2>2. Held(u, c)' = ctx'[u].words[WordOf(c)]
    BY <1>1, <2>1 DEF Held, Printed, Live, Floats
  <2>3. Held(u, c) = ctx[u].words[WordOf(c)]
    BY <1>1 DEF Held, Printed, Floats
  <2> QED BY <2>2, <2>3
<1>2. CASE c \notin Floats
  <2>1. cpu'[c] = ctx[u].words[WordOf(c)]
    BY <1>2 DEF Loaded
  <2> QED BY <1>2, <2>1 DEF Held, Printed
<1> QED BY <1>1, <1>2

\* The thread u that is dispatched, and those that do not take part.
LEMMA DispatchOwn ==
  ASSUME RInv, NEW t \in Owner, em = t, NEW u \in Thread, NEW prev \in BOOLEAN,
         CanRun(u), Dispatch(u, prev), UNCHANGED <<at, frame>>,
         \A v \in Owner \ {t} : lost'[v] = lost[v]
  PROVE  \A v \in Thread \ {t} : Keeps(v)
<1> SUFFICES ASSUME NEW v \in Thread \ {t} PROVE Keeps(v)
  OBVIOUS
<1>1. /\ em' = u /\ ~msr'.fp /\ ctx'[v] = ctx[v] /\ cpu' = Loaded(ctx'[u])
      /\ v \in Owner
  BY DispatchTypes DEF RInv, Owner
<1>2. CASE v = u
  BY <1>1, <1>2, DispatchedKept DEF CanRun
<1>3. CASE v # u
  BY <1>1, <1>3, OthersKept DEF RInv
<1> QED BY <1>2, <1>3

\* A call of the runtime, from which the processor goes on with u.
LEMMA CallOwn ==
  ASSUME RInv, RInv', NEW t \in Thread, em = t, NEW u \in Thread, Call(u)
  PROVE  Ideal!Call(t, u)
<1>1. PICK prev \in BOOLEAN : prev = msr.ee
  BY DEF RInv, RegTypes, Msr
<1>2. /\ t \in Owner /\ at[t] = "code" /\ CanRun(u) /\ Dispatch(u, prev)
      /\ UNCHANGED <<at, frame>>
      /\ lost' = [lost EXCEPT ![t] = @ \cup Missed]
  BY <1>1 DEF Call, InCode, Owner
<1>3. \A v \in Thread \ {t} : Keeps(v)
  BY <1>2, DispatchOwn DEF RInv, RegTypes
<1>4. /\ em' = u /\ ~msr'.fp /\ cpu' = Loaded(ctx'[u])
      /\ ctx'[t].words = [w \in Word |-> IF w \in Stored THEN cpu[Source(w)]
                                         ELSE ctx[t].words[w]]
  BY <1>2, DispatchTypes DEF RInv
<1>5. lost[t] \subseteq lost'[t] /\ Missed \subseteq lost'[t]
  BY <1>2 DEF RInv, RegTypes
<1>6. \A c \in {"saved", "branch"} : Held(t, c)' = Held(t, c)
  <2>1. \A c \in {"saved", "branch"} :
          /\ WordOf(c) = c /\ c \in Stored /\ Source(c) = c /\ c \in Word
          /\ c \in Class /\ c \notin Floats
    BY DEF WordOf, Stored, Source, Word, Class, Floats
  <2>2. \A c \in {"saved", "branch"} : ctx'[t].words[c] = cpu[c]
    BY <1>4, <2>1
  <2>3. \A c \in {"saved", "branch"} : Held(t, c) = cpu[c]
    BY <1>2, <2>1 DEF Held, Printed
  <2>4. \A c \in {"saved", "branch"} : u = t => cpu'[c] = cpu[c]
    BY <1>4, <2>1, <2>2 DEF Loaded
  <2> QED BY <1>2, <1>4, <2>1, <2>2, <2>3, <2>4 DEF Held, Printed
<1>7. \A c \in {"float", "paired"} \ lost'[t] : Held(t, c)' = Held(t, c)
  <2> SUFFICES ASSUME NEW c \in {"float", "paired"} \ lost'[t]
               PROVE  Held(t, c)' = Held(t, c)
    OBVIOUS
  <2>1. WordOf(c) = c /\ Source(c) = c /\ c \in Word /\ c \in Floats
    BY DEF WordOf, Source, Word, Floats
  <2>2. Held(t, c)' = ctx'[t].words[c]
    BY <1>2, <1>4, <2>1 DEF Held, Printed, Live, MsrOf, Floats
  <2>3. CASE Live(c)
    <3>1. Held(t, c) = cpu[c] BY <2>1, <2>3 DEF Held, Printed, Floats
    <3>2. c \in Stored
      BY <1>2, <1>5, <2>1, <2>3 DEF Live, MsrOf, Stored, Missed
    <3> QED BY <1>4, <2>1, <2>2, <3>1, <3>2
  <2>4. CASE ~Live(c)
    <3>1. Held(t, c) = ctx[t].words[c] BY <2>1, <2>4 DEF Held, Printed, Floats
    <3>2. c \notin Stored
      BY <1>2, <2>1, <2>4 DEF Live, MsrOf, Stored
    <3> QED BY <1>4, <2>1, <2>2, <3>1, <3>2
  <2> QED BY <2>3, <2>4
<1>8. \A c \in Class \ (lost'[t] \cup Ideal!CallChanges) : Held(t, c)' = Held(t, c)
  BY <1>6, <1>7 DEF Class, Ideal!CallChanges
<1>9. Ideal!Changes(t, Ideal!CallChanges)
  BY <1>2, <1>3, <1>5, <1>8, ChangesOnly
<1> QED BY <1>4, <1>9 DEF Ideal!Call

\* A handler gives the processor to u: what the interrupted thread had is kept.
LEMMA HandlerCallsOwn ==
  ASSUME RInv, RInv', NEW t \in Thread, em = t, NEW u \in Thread, HandlerCalls(u)
  PROVE  Ideal!Preempt(t, u)
<1>1. PICK prev \in BOOLEAN : prev = FALSE
  OBVIOUS
<1>2. /\ t \in Owner /\ at[t] = "handler" /\ CanRun(u) /\ Dispatch(u, prev)
      /\ UNCHANGED <<at, frame>> /\ ~msr.fp
      /\ lost' = [lost EXCEPT ![t] =
                    @ \cup (IF frame[t].msr.fp THEN Floats ELSE {"f0"})]
  BY <1>1 DEF HandlerCalls, Owner, RInv, HandlerOK
<1>3. \A v \in Thread \ {t} : Keeps(v)
  BY <1>2, DispatchOwn DEF RInv, RegTypes
<1>4. /\ em' = u /\ ~msr'.fp /\ cpu' = Loaded(ctx'[u])
      /\ ctx'[t].words = [w \in Word |-> IF w \in Stored THEN cpu[Source(w)]
                                         ELSE ctx[t].words[w]]
  BY <1>2, DispatchTypes DEF RInv
<1>5. /\ lost[t] \subseteq lost'[t] /\ "f0" \in lost'[t]
      /\ frame[t].msr.fp => Floats \subseteq lost'[t]
  BY <1>2 DEF RInv, RegTypes, Floats
<1>6. \A c \in {"scratch", "volatile"} : Held(t, c)' = Held(t, c)
  <2>1. \A c \in {"scratch", "volatile"} : c \in Word /\ c \notin Stored
    BY DEF Stored, Word
  <2>2. \A c \in {"scratch", "volatile"} : ctx'[t].words[c] = ctx[t].words[c]
    BY <1>4, <2>1
  <2> QED BY <1>2, <2>2 DEF Held, Printed, Floats
<1>7. \A c \in {"branch", "xer"} : Held(t, c)' = Held(t, c)
  BY <1>2 DEF Held, Printed, Floats
<1>8. Held(t, "saved")' = Held(t, "saved")
  <2>1. /\ WordOf("saved") = "saved" /\ "saved" \in Stored
        /\ Source("saved") = "saved" /\ "saved" \in Word
        /\ "saved" \in Class /\ "saved" \notin Floats
    BY DEF WordOf, Stored, Source, Word, Class, Floats
  <2>2. ctx'[t].words["saved"] = cpu["saved"]
    BY <1>4, <2>1
  <2>3. Held(t, "saved") = cpu["saved"]
    BY <1>2, <2>1 DEF Held, Printed
  <2>4. u = t => cpu'["saved"] = cpu["saved"]
    BY <1>4, <2>1, <2>2 DEF Loaded
  <2> QED BY <1>2, <1>4, <2>1, <2>2, <2>3, <2>4 DEF Held, Printed
<1>9. \A c \in {"float", "paired"} \ lost'[t] : Held(t, c)' = Held(t, c)
  <2> SUFFICES ASSUME NEW c \in {"float", "paired"} \ lost'[t]
               PROVE  Held(t, c)' = Held(t, c)
    OBVIOUS
  <2>1. WordOf(c) = c /\ c \in Word /\ c \in Floats /\ c \notin Stored
    BY <1>2 DEF WordOf, Word, Floats, Stored
  <2>2. ~frame[t].msr.fp BY <1>5, <2>1
  <2>3. Held(t, c)' = ctx'[t].words[c]
    BY <1>2, <1>4, <2>1, <2>2 DEF Held, Printed, Live, MsrOf, Floats
  <2>4. Held(t, c) = ctx[t].words[c]
    BY <1>2, <2>1, <2>2 DEF Held, Printed, Live, MsrOf, Floats
  <2> QED BY <1>4, <2>1, <2>3, <2>4
<1>10. \A c \in Class \ (lost'[t] \cup {}) : Held(t, c)' = Held(t, c)
  BY <1>5, <1>6, <1>7, <1>8, <1>9 DEF Class
<1>11. Ideal!Changes(t, {})
  BY <1>2, <1>3, <1>5, <1>10, ChangesOnly
<1> QED BY <1>4, <1>11 DEF Ideal!Preempt

\* What is left of a thread that was destroyed goes on with u.
LEMMA NobodyOwn ==
  ASSUME RInv, em = NoThread, NEW u \in Thread, Call(u) \/ HandlerCalls(u)
  PROVE  em' \in Thread /\ UNCHANGED Regs
<1>1. PICK t \in Owner : t = em /\ t = NoThread /\ t \notin Thread
  BY RegistersAssumption DEF Owner
<1>2. PICK prev \in BOOLEAN :
        prev = IF Call(u) THEN msr.ee ELSE FALSE
  BY DEF RInv, RegTypes, Msr
<1>3. /\ CanRun(u) /\ Dispatch(u, prev) /\ UNCHANGED <<at, frame>>
      /\ \A v \in Owner \ {t} : lost'[v] = lost[v]
  BY <1>1, <1>2 DEF Call, HandlerCalls, RInv, RegTypes
<1>4. \A v \in Thread : Keeps(v)
  BY <1>1, <1>3, DispatchOwn
<1>5. em' = u
  BY <1>3 DEF Dispatch
<1> QED BY <1>4, <1>5, AllKept

\* The first use of floating point brings the registers back.
LEMMA FloatOwn ==
  ASSUME RInv, NEW t \in Thread, em = t, FloatingPointUnavailable
  PROVE  Keeps(t)
<1> USE DEF RInv, RegTypes
<1> DEFINE loads == IF hid2.ps THEN Floats ELSE Floats \ {"paired"}
<1>1. /\ t \in Owner /\ at[t] = "code" /\ ~msr.fp /\ msr'.fp
      /\ UNCHANGED <<hid2, em, at, frame, scope, lost>>
      /\ ctx' = [ctx EXCEPT ![t].words["scratch"] = cpu["scratch"]]
      /\ cpu' = [c \in Class |-> IF c \in loads THEN ctx[t].words[WordOf(c)]
                                 ELSE cpu[c]]
  BY DEF FloatingPointUnavailable, Running, InCode, Owner, Msr
<1>2. \A w \in Word \ {"scratch"} : ctx'[t].words[w] = ctx[t].words[w]
  BY <1>1 DEF Context
<1>3. \A c \in Class : c \in Floats => WordOf(c) \in Word \ {"scratch"}
  BY DEF WordOf, Word, Floats
<1> HIDE DEF loads
<1> SUFFICES ASSUME NEW c \in Class \ lost[t] PROVE Held(t, c)' = Held(t, c)
  BY <1>1 DEF Keeps
<1>4. CASE c \notin Floats
  BY <1>1, <1>4 DEF Held, Printed, loads
<1>5. CASE c \in Floats
  <2>1. Held(t, c) = ctx[t].words[WordOf(c)]
    BY <1>1, <1>5 DEF Held, Printed, Live, MsrOf, Floats
  <2>2. CASE c \in loads
    <3>1. Held(t, c)' = cpu'[c]
      BY <1>1, <1>5, <2>2 DEF Held, Printed, Live, MsrOf, Floats, loads
    <3> QED BY <1>1, <2>1, <2>2, <3>1
  <2>3. CASE c \notin loads
    <3>1. Held(t, c)' = ctx'[t].words[WordOf(c)]
      BY <1>1, <1>5, <2>3 DEF Held, Printed, Live, MsrOf, Floats, loads
    <3> QED BY <1>2, <1>3, <1>5, <2>1, <3>1
  <2> QED BY <2>2, <2>3
<1> QED BY <1>4, <1>5

\* An interrupt puts in the context and on the stack what its handler may use.
LEMMA InterruptOwn ==
  ASSUME RInv, NEW t \in Thread, em = t, ExternalInterrupt
  PROVE  Keeps(t)
<1> USE DEF RInv, RegTypes
<1>1. /\ t \in Owner /\ at[t] = "code" /\ at'[t] = "handler"
      /\ UNCHANGED <<cpu, hid2, em, scope, lost>>
      /\ frame'[t] = [branch |-> cpu["branch"], xer |-> cpu["xer"], msr |-> msr]
      /\ ctx' = [ctx EXCEPT ![t].words["scratch"] = cpu["scratch"],
                            ![t].words["volatile"] = cpu["volatile"]]
  BY DEF ExternalInterrupt, InCode, Owner
<1>2. /\ ctx'[t].words["scratch"] = cpu["scratch"]
      /\ ctx'[t].words["volatile"] = cpu["volatile"]
      /\ \A w \in Word \ {"scratch", "volatile"} : ctx'[t].words[w] = ctx[t].words[w]
  BY <1>1 DEF Context, Word
<1>3. \A c \in Class : c \in Floats => WordOf(c) \in Word \ {"scratch", "volatile"}
  BY DEF WordOf, Word, Floats
<1> SUFFICES ASSUME NEW c \in Class \ lost[t] PROVE Held(t, c)' = Held(t, c)
  BY <1>1 DEF Keeps
<1>4. CASE c \notin Floats
  BY <1>1, <1>2, <1>4 DEF Held, Printed
<1>5. CASE c \in Floats
  <2>1. Live(c)' <=> Live(c)
    BY <1>1 DEF Live, MsrOf
  <2>2. ctx'[t].words[WordOf(c)] = ctx[t].words[WordOf(c)]
    BY <1>2, <1>3, <1>5
  <2> QED BY <1>1, <1>5, <2>1, <2>2 DEF Held, Printed, Floats
<1> QED BY <1>4, <1>5

\* A handler uses what has been put away.
LEMMA HandlerOwn ==
  ASSUME RInv, NEW t \in Thread, em = t, HandlerRuns
  PROVE  Keeps(t)
<1>1. /\ at[t] = "handler"
      /\ UNCHANGED <<msr, hid2, ctx, em, at, frame, scope, lost>>
      /\ \A c \in Class \ {"scratch", "volatile", "branch", "xer"} :
           cpu'[c] = cpu[c]
  BY DEF HandlerRuns
<1> SUFFICES ASSUME NEW c \in Class \ lost[t] PROVE Held(t, c)' = Held(t, c)
  BY <1>1 DEF Keeps
<1>2. CASE c \in Floats
  <2>1. cpu'[c] = cpu[c] BY <1>1, <1>2 DEF Floats
  <2>2. Live(c)' <=> Live(c) BY <1>1 DEF Live, MsrOf
  <2> QED BY <1>1, <1>2, <2>1, <2>2 DEF Held, Printed, Floats
<1>3. CASE c \notin Floats
  <2>1. c \in {"scratch", "volatile", "branch", "xer", "saved"}
    BY <1>3 DEF Class, Floats
  <2>2. cpu'["saved"] = cpu["saved"] BY <1>1 DEF Class
  <2> QED BY <1>1, <1>3, <2>1, <2>2 DEF Held, Printed
<1> QED BY <1>2, <1>3

\* The end of an interrupt puts it back.
LEMMA ReturnOwn ==
  ASSUME RInv, NEW t \in Thread, em = t, ReturnFromInterrupt
  PROVE  Keeps(t)
<1> USE DEF RInv, RegTypes
<1>1. /\ t \in Owner /\ at[t] = "handler" /\ at'[t] = "code"
      /\ msr' = frame[t].msr /\ UNCHANGED <<hid2, em, scope, lost>>
      /\ ctx' = [ctx EXCEPT ![t].words["branch"] = frame[t].branch]
      /\ cpu' = [cpu EXCEPT !["scratch"]  = ctx[t].words["scratch"],
                            !["volatile"] = ctx[t].words["volatile"],
                            !["branch"]   = frame[t].branch,
                            !["xer"]      = frame[t].xer]
  BY DEF ReturnFromInterrupt, Owner
<1>2. \A w \in Word \ {"branch"} : ctx'[t].words[w] = ctx[t].words[w]
  BY <1>1 DEF Context
<1>3. /\ cpu'["scratch"] = ctx[t].words["scratch"]
      /\ cpu'["volatile"] = ctx[t].words["volatile"]
      /\ cpu'["branch"] = frame[t].branch /\ cpu'["xer"] = frame[t].xer
      /\ \A c \in Class \ {"scratch", "volatile", "branch", "xer"} :
           cpu'[c] = cpu[c]
  BY <1>1 DEF Class
<1>4. \A c \in Class : c \in Floats => WordOf(c) \in Word \ {"branch"}
  BY DEF WordOf, Word, Floats
<1> SUFFICES ASSUME NEW c \in Class \ lost[t] PROVE Held(t, c)' = Held(t, c)
  BY <1>1 DEF Keeps
<1>5. CASE c \notin Floats
  <2>1. c \in {"scratch", "volatile", "branch", "xer", "saved"}
    BY <1>5 DEF Class, Floats
  <2> QED BY <1>1, <1>3, <1>5, <2>1 DEF Held, Printed
<1>6. CASE c \in Floats
  <2>1. Live(c)' <=> Live(c)
    BY <1>1 DEF Live, MsrOf
  <2>2. ctx'[t].words[WordOf(c)] = ctx[t].words[WordOf(c)]
    BY <1>2, <1>4, <1>6
  <2>3. cpu'[c] = cpu[c]
    BY <1>3, <1>6 DEF Floats
  <2> QED BY <1>1, <1>6, <2>1, <2>2, <2>3 DEF Held, Printed, Floats
<1> QED BY <1>5, <1>6

\* A panic puts everything but XER where it is looked for.
LEMMA PanicOwn ==
  ASSUME RInv, RInv', NEW t \in Thread, em = t, Panic
  PROVE  Ideal!Preempt(t, t)
<1> USE DEF RInv, RegTypes
<1>1. /\ t \in Owner /\ at[t] = "code" /\ at' = [at EXCEPT ![t] = "panic"]
      /\ UNCHANGED <<cpu, msr, hid2, em, frame, scope>>
      /\ lost' = [lost EXCEPT ![t] = @ \cup (IF msr.fp THEN {"xer"}
                                             ELSE {"xer", "f0"})]
      /\ ctx' = [ctx EXCEPT ![t].words = [w \in Word |->
               CASE w \in {"scratch", "volatile", "saved", "branch"} -> cpu[w]
                 [] w = "xerOrF0" -> cpu["xer"] [] OTHER -> @[w]]]
  BY DEF Panic, Running, InCode, Owner
<1>2. /\ \A w \in {"scratch", "volatile", "saved", "branch"} :
           ctx'[t].words[w] = cpu[w]
      /\ \A w \in {"float", "paired"} : ctx'[t].words[w] = ctx[t].words[w]
  BY <1>1 DEF Context, Word
<1>3. /\ lost[t] \subseteq lost'[t] /\ "xer" \in lost'[t]
      /\ ~msr.fp => "f0" \in lost'[t]
  BY <1>1
<1>4. \A v \in Thread \ {t} : Keeps(v)
  BY <1>1, OthersKept DEF Owner
<1>5. ASSUME NEW c \in Class \ lost'[t] PROVE Held(t, c)' = Held(t, c)
  <2>1. CASE c \notin Floats
    <3>1. c \in {"scratch", "volatile", "saved", "branch"}
      BY <1>3, <2>1 DEF Class, Floats
    <3> QED BY <1>1, <1>2, <2>1, <3>1 DEF Held, Printed
  <2>2. CASE c \in Floats
    <3>1. Live(c)' <=> Live(c)
      BY <1>1 DEF Live, MsrOf
    <3>2. CASE Live(c)
      BY <1>1, <2>2, <3>1, <3>2 DEF Held, Printed, Floats
    <3>3. CASE ~Live(c)
      <4>1. c \in {"float", "paired"}
        BY <1>1, <1>3, <2>2, <3>3 DEF Live, MsrOf, Floats
      <4>2. WordOf(c) = c BY <4>1 DEF WordOf
      <4> QED BY <1>1, <1>2, <2>2, <3>1, <3>3, <4>1, <4>2 DEF Held, Printed, Floats
    <3> QED BY <3>2, <3>3
  <2> QED BY <2>1, <2>2
<1>6. \A c \in Class \ (lost'[t] \cup {}) : Held(t, c)' = Held(t, c)
  BY <1>5
<1>7. Ideal!Changes(t, {})
  BY <1>1, <1>3, <1>4, <1>6, ChangesOnly
<1> QED BY <1>1, <1>7 DEF Ideal!Preempt

\* A step that leaves the abstraction as it is, made by somebody or nobody.
LEMMA StutterOwn ==
  ASSUME RInv, em' = em,
         \A t \in Thread : t = em => Keeps(t),
         \A t \in Owner \ {em} : at'[t] = at[t] /\ frame'[t] = frame[t]
                                 /\ ctx'[t] = ctx[t] /\ lost'[t] = lost[t]
  PROVE  UNCHANGED <<Regs, em>>
<1>1. \A t \in Thread : Keeps(t)
  BY OthersKept DEF RInv, Owner
<1> QED BY <1>1, AllKept

\* Every step is one of OwnRegisters or changes nothing that it sees.
LEMMA StepOwn ==
  ASSUME RInv, RInv', [Next]_vars
  PROVE  Ideal!Next \/ UNCHANGED <<Regs, em>>
<1>0. PICK t \in Owner : t = em
  BY DEF RInv, RegTypes
<1> USE DEF Ideal!Next
<1>1. CASE Compute
  BY <1>0, <1>1, ComputeOwn DEF Compute, Running, Owner
<1>2. CASE EnableInterrupts \/ DisableInterrupts \/ SetHid2
  <2>1. UNCHANGED <<cpu, ctx, em, at, frame, lost>> /\ at[em] = "code"
    BY <1>2 DEF EnableInterrupts, DisableInterrupts, SetHid2, InCode, Running
  <2>2. msr'.fp = msr.fp /\ hid2'.ps = hid2.ps
    BY <1>2 DEF EnableInterrupts, DisableInterrupts, SetHid2, RInv, RegTypes, Msr
  <2>3. \A u \in Thread : u = em => Keeps(u)
    BY <2>1, <2>2 DEF Keeps, Held, Printed, Live, MsrOf
  <2> QED BY <2>1, <2>3, StutterOwn
<1>3. CASE SetPaired
  BY <1>0, <1>3, SetPairedOwn DEF SetPaired, Running, Owner
<1>4. ASSUME NEW u \in Thread, Create(u) PROVE Ideal!Next
  BY <1>0, <1>4, CreateOwn DEF Create, Running, Owner
<1>5. ASSUME NEW u \in Thread, Call(u) PROVE Ideal!Next
  <2>1. CASE t \in Thread BY <1>0, <1>5, <2>1, CallOwn
  <2>2. CASE t = NoThread BY <1>0, <1>5, <2>2, NobodyOwn DEF Regs
  <2> QED BY <2>1, <2>2 DEF Owner
<1>6. ASSUME NEW u \in Thread, HandlerCalls(u) PROVE Ideal!Next
  <2>1. CASE t \in Thread BY <1>0, <1>6, <2>1, HandlerCallsOwn
  <2>2. CASE t = NoThread BY <1>0, <1>6, <2>2, NobodyOwn DEF Regs
  <2> QED BY <2>1, <2>2 DEF Owner
<1>7. CASE Delete
  BY <1>0, <1>7, DeleteOwn DEF Delete, Running, Owner
<1>8. ASSUME \/ FloatingPointUnavailable \/ ExternalInterrupt
             \/ HandlerRuns \/ ReturnFromInterrupt
      PROVE  UNCHANGED <<Regs, em>>
  <2>1. em' = em
    BY <1>8 DEF FloatingPointUnavailable, ExternalInterrupt, HandlerRuns,
                ReturnFromInterrupt
  <2>2. \A u \in Thread : u = em => Keeps(u)
    BY <1>8, FloatOwn, InterruptOwn, HandlerOwn, ReturnOwn
  <2>3. \A u \in Owner \ {em} : at'[u] = at[u] /\ frame'[u] = frame[u]
                                /\ ctx'[u] = ctx[u] /\ lost'[u] = lost[u]
    BY <1>8 DEF FloatingPointUnavailable, ExternalInterrupt, HandlerRuns,
                ReturnFromInterrupt, RInv, RegTypes
  <2> QED BY <2>1, <2>2, <2>3, StutterOwn
<1>9. CASE Panic
  BY <1>0, <1>9, PanicOwn DEF Panic, Running, Owner
<1>10. CASE UNCHANGED vars
  <2>1. \A u \in Thread : Keeps(u)
    BY <1>10 DEF vars, Keeps, Held, Printed, Live, MsrOf
  <2> QED BY <1>10, <2>1, AllKept DEF vars
<1> QED BY <1>1, <1>2, <1>3, <1>4, <1>5, <1>6, <1>7, <1>8, <1>9, <1>10 DEF Next

\* What the registers, contexts and frames are at every moment: each of its
\* type, and nothing of a thread's floating point trusted that a handler may
\* have given away.
THEOREM RegistersInv == Spec => []RInv
  BY InitInv, StepInv, PTL DEF Spec

(***************************************************************************)
(* However the calls, interrupts and exceptions of any number of threads   *)
(* interleave, each thread finds in its registers what it left there, but  *)
(* for what lost names (Context.cpp:88-228, Exceptions.cpp:68-449): module *)
(* Registers implements OwnRegisters.                                      *)
(***************************************************************************)
THEOREM RegistersOwn == Spec => ImplementsOwnRegisters
<1>1. RInv /\ RInv' /\ [Next]_vars
        => [Ideal!Next]_<<[t \in Thread |-> Own(t)], em>>
  BY StepOwn DEF Regs
<1> QED BY <1>1, InitOwn, RegistersInv, PTL
        DEF Spec, ImplementsOwnRegisters, Ideal!Spec

-----------------------------------------------------------------------------
(* Memory *)

IsMap(f) == f = [l \in DOMAIN f |-> f[l]]

IsMem(x) ==
  /\ x = [ram |-> x.ram, cache |-> x.cache, dirty |-> x.dirty]
  /\ IsMap(x.ram) /\ DOMAIN x.ram = Req!Line
  /\ IsMap(x.cache) /\ DOMAIN x.cache \subseteq Req!Line
  /\ x.dirty \subseteq DOMAIN x.cache

\* What the cache has of a line, if it is not newer than RAM, is in RAM.
Agrees(x, l) == l \in DOMAIN x.cache /\ l \notin x.dirty => x.cache[l] = x.ram[l]

LEMMA PutFacts ==
  ASSUME NEW x, IsMem(x), NEW f, IsMap(f), DOMAIN f \subseteq Req!Line, NEW y, y = Req!PutAll(x, f)
  PROVE  /\ IsMem(y) /\ y.ram = x.ram /\ y.dirty = x.dirty \cup DOMAIN f
         /\ \A l : Req!Seen(y, l) = IF l \in DOMAIN f THEN f[l] ELSE Req!Seen(x, l)
         /\ \A l : Agrees(x, l) => Agrees(y, l)
<1>1. y = [ram |-> x.ram, cache |-> Req!Override(x.cache, f), dirty |-> x.dirty \cup DOMAIN f]
  BY DEF Req!PutAll, IsMem
<1>2. /\ DOMAIN Req!Override(x.cache, f) = DOMAIN x.cache \cup DOMAIN f
      /\ IsMap(Req!Override(x.cache, f))
      /\ \A l \in DOMAIN x.cache \cup DOMAIN f :
           Req!Override(x.cache, f)[l] = IF l \in DOMAIN f THEN f[l] ELSE x.cache[l]
  BY DEF Req!Override, IsMap
<1>3. IsMem(y) /\ y.ram = x.ram /\ y.dirty = x.dirty \cup DOMAIN f
  BY <1>1, <1>2 DEF IsMem
<1>4. \A l : Req!Seen(y, l) = IF l \in DOMAIN f THEN f[l] ELSE Req!Seen(x, l)
  BY <1>1, <1>2 DEF Req!Seen
<1>5. \A l : Agrees(x, l) => Agrees(y, l)
  BY <1>1, <1>2 DEF Agrees
<1> QED BY <1>3, <1>4, <1>5

LEMMA InvalidateFacts ==
  ASSUME NEW x, IsMem(x), NEW ls, NEW y, y = Req!DcInvalidate(x, ls)
  PROVE  /\ IsMem(y) /\ y.ram = x.ram /\ y.dirty = x.dirty \ ls
         /\ \A l : Req!Seen(y, l) = IF l \in ls THEN x.ram[l] ELSE Req!Seen(x, l)
         /\ \A l : Agrees(x, l) \/ l \in ls => Agrees(y, l)
<1>1. y = [ram |-> x.ram, cache |-> [l \in DOMAIN x.cache \ ls |-> x.cache[l]],
           dirty |-> x.dirty \ ls]
  BY DEF Req!DcInvalidate, IsMem
<1>2. IsMem(y) /\ y.ram = x.ram /\ y.dirty = x.dirty \ ls
  BY <1>1 DEF IsMem, IsMap
<1>3. \A l : Req!Seen(y, l) = IF l \in ls THEN x.ram[l] ELSE Req!Seen(x, l)
  BY <1>1 DEF Req!Seen
<1>4. \A l : Agrees(x, l) \/ l \in ls => Agrees(y, l)
  BY <1>1 DEF Agrees
<1> QED BY <1>2, <1>3, <1>4

LEMMA FlushFacts ==
  ASSUME NEW x, IsMem(x), NEW ls, NEW y, y = Req!DcFlush(x, ls)
  PROVE  /\ IsMem(y) /\ y.dirty = x.dirty \ ls
         /\ \A l \in Req!Line : y.ram[l] = IF l \in ls \cap x.dirty THEN Req!Seen(x, l) ELSE x.ram[l]
         /\ \A l \in Req!Line : Agrees(x, l) \/ l \notin ls => Req!Seen(y, l) = Req!Seen(x, l)
         /\ \A l \in Req!Line : Agrees(x, l) \/ l \in ls => Agrees(y, l)
<1> DEFINE r == [l \in Req!Line |-> IF l \in ls \cap x.dirty THEN x.cache[l] ELSE x.ram[l]]
           w == [ram |-> r, cache |-> x.cache, dirty |-> x.dirty]
<1>1. y = Req!DcInvalidate(w, ls)
  BY DEF Req!DcFlush, IsMem
<1>2. IsMem(w) BY DEF IsMem, IsMap
<1>3. /\ IsMem(y) /\ y.ram = r /\ y.dirty = x.dirty \ ls
      /\ \A l : Req!Seen(y, l) = IF l \in ls THEN r[l] ELSE Req!Seen(w, l)
      /\ \A l : Agrees(w, l) \/ l \in ls => Agrees(y, l)
  BY <1>1, <1>2, InvalidateFacts
<1>4. \A l : Req!Seen(w, l) = IF l \in DOMAIN x.cache THEN x.cache[l] ELSE r[l]
  BY DEF Req!Seen
<1>5. \A l : l \in x.dirty => l \in DOMAIN x.cache
  BY DEF IsMem
<1>6. \A l \in Req!Line : r[l] = IF l \in ls \cap x.dirty THEN Req!Seen(x, l) ELSE x.ram[l]
  BY <1>5 DEF Req!Seen
<1>7. \A l \in Req!Line : Agrees(x, l) \/ l \notin ls => Req!Seen(y, l) = Req!Seen(x, l)
  BY <1>3, <1>4, <1>5 DEF Req!Seen, Agrees
<1>8. \A l \in Req!Line : Agrees(x, l) => Agrees(w, l)
  BY <1>5 DEF Agrees
<1> HIDE DEF r, w
<1> QED BY <1>3, <1>6, <1>7, <1>8

LEMMA OverrideFacts ==
  ASSUME NEW f, NEW g, IsMap(f), IsMap(g)
  PROVE  /\ IsMap(Req!Override(f, g)) /\ DOMAIN Req!Override(f, g) = DOMAIN f \cup DOMAIN g
         /\ \A l \in DOMAIN f \cup DOMAIN g :
              Req!Override(f, g)[l] = IF l \in DOMAIN g THEN g[l] ELSE f[l]
BY DEF Req!Override, IsMap

LEMMA OverrideWithin ==
  ASSUME NEW D, NEW f, NEW g, IsMap(f), IsMap(g), DOMAIN f = D, DOMAIN g \subseteq D
  PROVE  /\ IsMap(Req!Override(f, g)) /\ DOMAIN Req!Override(f, g) = D
         /\ \A l \in D : Req!Override(f, g)[l] = IF l \in DOMAIN g THEN g[l] ELSE f[l]
BY DEF Req!Override, IsMap

LEMMA OnlyFacts ==
  ASSUME NEW l, NEW v
  PROVE  IsMap(Req!Only(l, v)) /\ DOMAIN Req!Only(l, v) = {l} /\ Req!Only(l, v)[l] = v
BY DEF Req!Only, IsMap

LEMMA PutOneFacts ==
  ASSUME NEW x, IsMem(x), NEW k \in Req!Line, NEW v, NEW y, y = Req!Put(x, k, v)
  PROVE  /\ IsMem(y) /\ y.ram = x.ram /\ y.dirty = x.dirty \cup {k}
         /\ \A l : Req!Seen(y, l) = IF l = k THEN v ELSE Req!Seen(x, l)
         /\ \A l : Agrees(x, l) => Agrees(y, l)
<1> DEFINE o == Req!Only(k, v)
<1>1. IsMap(o) /\ DOMAIN o = {k} /\ o[k] = v BY OnlyFacts
<1>2. y = Req!PutAll(x, o) BY DEF Req!Put
<1> HIDE DEF o
<1> QED BY <1>1, <1>2, PutFacts

LEMMA FetchFacts ==
  ASSUME NEW x, IsMem(x), NEW k \in Req!Line, k \notin DOMAIN x.cache, NEW y,
         y = [x EXCEPT !.cache = Req!Override(@, Req!Only(k, x.ram[k]))]
  PROVE  /\ IsMem(y) /\ y.ram = x.ram /\ y.dirty = x.dirty
         /\ \A l : Req!Seen(y, l) = Req!Seen(x, l)
         /\ \A l : Agrees(x, l) => Agrees(y, l)
<1>1. y = [ram |-> x.ram, cache |-> Req!Override(x.cache, Req!Only(k, x.ram[k])), dirty |-> x.dirty]
  BY DEF IsMem
<1>2. /\ IsMap(y.cache) /\ DOMAIN y.cache = DOMAIN x.cache \cup {k}
      /\ \A l \in DOMAIN y.cache : y.cache[l] = IF l = k THEN x.ram[k] ELSE x.cache[l]
  <2> DEFINE o == Req!Only(k, x.ram[k])
  <2>1. IsMap(o) /\ DOMAIN o = {k} /\ o[k] = x.ram[k] BY OnlyFacts
  <2>2. IsMap(x.cache) BY DEF IsMem
  <2> HIDE DEF o
  <2>3. /\ IsMap(Req!Override(x.cache, o))
        /\ DOMAIN Req!Override(x.cache, o) = DOMAIN x.cache \cup DOMAIN o
        /\ \A l \in DOMAIN x.cache \cup DOMAIN o :
              Req!Override(x.cache, o)[l] = IF l \in DOMAIN o THEN o[l] ELSE x.cache[l]
    BY <2>1, <2>2, OverrideFacts
  <2>4. y.cache = Req!Override(x.cache, o) BY <1>1 DEF o
  <2> QED BY <2>1, <2>3, <2>4
<1> QED BY <1>1, <1>2 DEF IsMem, Req!Seen, Agrees

LEMMA ObjectFacts ==
  ASSUME Req!CallsAssumption
  PROVE  /\ Req!Block # Req!Vectors
         /\ {Req!Block, Req!Vectors} \subseteq Req!Line \ User
         /\ User \subseteq Req!Line
BY DEF Req!CallsAssumption, Req!Block, Req!Vectors, Req!Line, Req!Object

LEMMA CallFacts ==
  ASSUME Req!CallsAssumption, NEW c \in Calls
  PROVE  /\ Req!Lines(c) \subseteq Req!Line \ {Req!Block, Req!Vectors}
         /\ DOMAIN c.args = 1 .. Len(c.args) /\ Len(c.args) \in Nat /\ c.ins \in 0 .. Len(c.args)
         /\ \A i \in DOMAIN c.args : Req!ToSet(Req!LinesOf(c, i)) \subseteq Req!Lines(c)
         /\ Req!Written(c) \subseteq Req!Lines(c)
         /\ Req!Copies(c) \subseteq Req!Lines(c) \ User
<1>1. Req!Lines(c) \subseteq Req!Line \ {Req!Block, Req!Vectors}
  BY DEF Req!CallsAssumption
<1>2. DOMAIN c.args = 1 .. Len(c.args) /\ Len(c.args) \in Nat /\ c.ins \in 0 .. Len(c.args)
  BY DEF Req!CallsAssumption
<1>3. \A i \in DOMAIN c.args : Req!ToSet(Req!LinesOf(c, i)) \subseteq Req!Lines(c)
  BY DEF Req!Lines
<1>4. Req!Written(c) \subseteq Req!Lines(c)
  BY <1>3 DEF Req!Written
<1>5. Req!Copies(c) \subseteq Req!Lines(c) \ User
  BY <1>2, <1>3 DEF Req!Copies
<1> QED BY <1>1, <1>2, <1>3, <1>4, <1>5

\* What sending makes of memory, when every line agrees.
LEMMA AsyncFacts ==
  ASSUME Req!CallsAssumption, NEW c \in Calls, NEW x, IsMem(x), \A l \in Req!Line : Agrees(x, l),
         c.cmd = "READ" => Req!Lines(c) \cap x.dirty = {}, NEW y, y = Req!Async(x, c)
  PROVE  /\ IsMem(y) /\ \A l \in Req!Line : Agrees(y, l)
         /\ Req!Seen(y, Req!Block) = Req!CommandBlock(c)
         /\ \A l \in Req!Line \ {Req!Block, Req!Vectors} : Req!Seen(y, l) = Req!Seen(x, l)
         /\ Req!Lines(c) \cap y.dirty = {}
         /\ c.cmd = "IOCTLV" => Req!Vectors \notin y.dirty /\ y.ram[Req!Vectors] = Req!Vector(c)
         /\ \A l \in Req!Lines(c) : y.ram[l] = Req!Seen(x, l)
<1> DEFINE Sent(z, w) ==
      /\ IsMem(w) /\ \A l \in Req!Line : Agrees(w, l)
      /\ w.ram = z.ram /\ w.dirty = z.dirty \cup {Req!Block}
      /\ Req!Seen(w, Req!Block) = Req!CommandBlock(c)
      /\ \A l \in Req!Line \ {Req!Block} : Req!Seen(w, l) = Req!Seen(z, l)
<1>1. ASSUME NEW z, IsMem(z), \A l \in Req!Line : Agrees(z, l)
      PROVE  Sent(z, Req!Post(z, c))
  BY <1>1, PutOneFacts, ObjectFacts DEF Req!Post
<1> HIDE DEF Sent
<1> DEFINE ls == Req!Lines(c)  Clean(z) == Req!DcFlush(z, ls)
<1>2. /\ IsMem(Clean(x)) /\ \A l \in Req!Line : Agrees(Clean(x), l)
      /\ \A l \in Req!Line : Req!Seen(Clean(x), l) = Req!Seen(x, l)
      /\ Clean(x).dirty = x.dirty \ ls
  BY FlushFacts
<1>3. \A l \in ls : Clean(x).ram[l] = Req!Seen(x, l)
  <2> SUFFICES ASSUME NEW l \in ls PROVE Clean(x).ram[l] = Req!Seen(x, l)
    OBVIOUS
  <2>1. l \in Req!Line BY CallFacts
  <2>2. Clean(x).ram[l] = IF l \in ls \cap x.dirty THEN Req!Seen(x, l) ELSE x.ram[l]
    BY <2>1, FlushFacts
  <2> QED BY <2>1, <2>2 DEF Agrees, Req!Seen
<1> HIDE DEF Clean
<1>4. CASE c.cmd \in {"OPEN", "WRITE", "IOCTL"}
  <2>1. y = Req!Post(Clean(x), c)
    BY <1>4 DEF Req!Async, Req!IOS_OpenAsync, Req!IOS_WriteAsync, Req!IOS_IoctlAsync, Clean
  <2>2. Sent(Clean(x), y) BY <1>1, <1>2, <2>1
  <2> QED BY <1>2, <1>3, <1>4, <2>2, CallFacts DEF Sent
<1>5. CASE c.cmd \in {"CLOSE", "SEEK", "READ"}
  <2>1. y = Req!Post(x, c)
    BY <1>5 DEF Req!Async, Req!IOS_CloseAsync, Req!IOS_SeekAsync, Req!IOS_ReadAsync
  <2>2. Sent(x, y) BY <1>1, <2>1
  <2>3. ls \cap x.dirty = {}
    <3>1. CASE c.cmd = "READ" BY <3>1
    <3>2. CASE c.cmd # "READ"
      <4>1. c.args = <<>> BY <1>5, <3>2 DEF Req!CallsAssumption
      <4> QED BY <4>1 DEF Req!Lines
    <3> QED BY <3>1, <3>2
  <2>4. \A l \in ls : x.ram[l] = Req!Seen(x, l)
    BY <2>3, CallFacts DEF Agrees, Req!Seen
  <2> QED BY <1>5, <2>2, <2>3, <2>4, CallFacts DEF Sent
<1>6. CASE c.cmd = "IOCTLV"
  <2> DEFINE v == Req!Put(x, Req!Vectors, Req!Vector(c))
             z == Req!DcFlush(v, ls \cup {Req!Vectors})
  <2>1. y = Req!Post(z, c)
    BY <1>6 DEF Req!Async, Req!IOS_IoctlvAsync
  <2>2. /\ IsMem(v) /\ \A l \in Req!Line : Agrees(v, l)
        /\ v.ram = x.ram /\ v.dirty = x.dirty \cup {Req!Vectors}
        /\ Req!Seen(v, Req!Vectors) = Req!Vector(c)
        /\ \A l \in Req!Line \ {Req!Vectors} : Req!Seen(v, l) = Req!Seen(x, l)
    BY PutOneFacts, ObjectFacts
  <2> HIDE DEF v
  <2>3. /\ IsMem(z) /\ \A l \in Req!Line : Agrees(z, l)
        /\ z.dirty = v.dirty \ (ls \cup {Req!Vectors})
        /\ \A l \in Req!Line : Req!Seen(z, l) = Req!Seen(v, l)
        /\ \A l \in Req!Line : z.ram[l] = IF l \in (ls \cup {Req!Vectors}) \cap v.dirty
                                          THEN Req!Seen(v, l) ELSE v.ram[l]
    BY <2>2, FlushFacts
  <2> HIDE DEF z
  <2>4. Sent(z, y) BY <1>1, <2>1, <2>3
  <2>5. z.ram[Req!Vectors] = Req!Vector(c) BY <2>2, <2>3, ObjectFacts
  <2>6. \A l \in ls : z.ram[l] = Req!Seen(x, l)
    BY <2>2, <2>3, CallFacts DEF Agrees, Req!Seen
  <2> QED BY <1>6, <2>2, <2>3, <2>4, <2>5, <2>6, CallFacts, ObjectFacts DEF Sent
<1>7. c.cmd \in {"OPEN", "CLOSE", "READ", "WRITE", "SEEK", "IOCTL", "IOCTLV"}
  BY DEF Req!CallsAssumption
<1> QED BY <1>4, <1>5, <1>6, <1>7

-----------------------------------------------------------------------------
(* The invariant *)

InFlight == st \in {"queued", "posted", "taken", "done", "answered"}

\* IOS has written here, and the cache may have what was there before.
Behind == IF st = "done" THEN Req!Written(call) \cup {Req!Block} ELSE {}

\* The reply to an Ioctl fixes all that IOS has written.
AllFixed(c) ==
  c.cmd = "IOCTL" =>
    LET in == Req!LinesOf(c, 1)  out == Req!LinesOf(c, 2)
    IN  in # <<>> /\ out # <<>> /\ Head(in) = Head(out) => Req!ToSet(out) \subseteq Req!ToSet(in)

CallOK ==
  /\ st \in {"none", "queued", "posted", "taken", "done", "answered", "synced", "refused"}
  /\ ~Req!Idle => call \in Calls
  /\ InFlight => ~Req!Refused(call) /\ AllFixed(call)

MemOK ==
  /\ IsMem(m)
  /\ \A l \in Req!Line \ Behind : Agrees(m, l)
  /\ InFlight => Req!Lines(call) \cap m.dirty = {}

BlockOK ==
  /\ st = "queued" => Req!Seen(m, Req!Block) = Req!CommandBlock(call)
  /\ st \in {"posted", "taken", "done"} => Req!Block \notin m.dirty
  /\ st \in {"posted", "taken"} => m.ram[Req!Block] = Req!CommandBlock(call)
  /\ st = "done" => m.ram[Req!Block] = [Req!CommandBlock(call) EXCEPT !.result = answer.result]

VectorsOK ==
  st \in {"queued", "posted", "taken", "done"} /\ call.cmd = "IOCTLV" =>
    Req!Vectors \notin m.dirty /\ m.ram[Req!Vectors] = Req!Vector(call)

InputsOK ==
  st \in {"queued", "posted"} =>
    given = [i \in 1 .. call.ins |->
               [k \in DOMAIN Req!LinesOf(call, i) |-> m.ram[Req!LinesOf(call, i)[k]]]]

AnswerOK ==
  /\ st \in {"done", "answered"} => answer = [result |-> answer.result, lines |-> answer.lines]
                                    /\ answer.lines \in [Req!Written(call) -> Values]
  /\ st = "done" => \A l \in Req!Written(call) : m.ram[l] = answer.lines[l]
  /\ st = "answered" =>
       /\ Req!Seen(m, Req!Block).result = answer.result
       /\ Req!Seen(m, Req!Block).cmd = call.cmd
       /\ \A l \in Req!Written(call) : Req!Seen(m, l) = answer.lines[l]
       /\ call.cmd = "IOCTLV" =>
            Req!Seen(m, Req!Vectors) =
              [i \in DOMAIN call.args |-> Req!Effective(Req!Physical(Req!LinesOf(call, i)))]

ReqInv == CallOK /\ MemOK /\ BlockOK /\ VectorsOK /\ InputsOK /\ AnswerOK

Rest == <<st, call, given, took, answer>>

\* What the cache does of itself, and stores of the caller to the lines of K.
LEMMA CacheStep ==
  ASSUME Req!CallsAssumption, ReqInv, UNCHANGED Rest, IsMem(m'),
         NEW K, K \subseteq User \ Req!Lent,
         \A l \in Req!Line : Agrees(m, l) => Agrees(m', l),
         \A l \in Req!Line : Agrees(m, l) /\ l \notin K => Req!Seen(m', l) = Req!Seen(m, l),
         \A l \in Req!Line : l \notin m.dirty \cup K => l \notin m'.dirty /\ m'.ram[l] = m.ram[l]
  PROVE  /\ ReqInv'
         /\ \A u \in User \ K : Req!Memory'[u] = Req!Memory[u]
<1> USE DEF Rest
<1>1. CallOK' /\ InFlight' = InFlight /\ Behind' = Behind
  BY DEF ReqInv, CallOK, Req!Idle, InFlight, AllFixed, Behind
<1>2. K \cap {Req!Block, Req!Vectors} = {} BY ObjectFacts
<1>3. ~Req!Idle => /\ Req!Lines(call) \cap K = {}
                   /\ Req!Lines(call) \subseteq Req!Line \ {Req!Block, Req!Vectors}
                   /\ Req!Written(call) \subseteq Req!Lines(call)
                   /\ call.ins \in 0 .. Len(call.args) /\ Len(call.args) \in Nat
                   /\ DOMAIN call.args = 1 .. Len(call.args)
                   /\ \A i \in DOMAIN call.args : Req!ToSet(Req!LinesOf(call, i)) \subseteq Req!Lines(call)
  BY CallFacts DEF ReqInv, CallOK, Req!Lent
<1>4. InFlight => ~Req!Idle /\ st # "refused" BY DEF InFlight, Req!Idle
<1>5. MemOK' BY <1>1, <1>3, <1>4 DEF ReqInv, MemOK
<1>6. InFlight => \A l \in Req!Lines(call) : m'.ram[l] = m.ram[l]
  BY <1>3, <1>4 DEF ReqInv, MemOK
<1>7. BlockOK'
  <2>1. st = "queued" => Agrees(m, Req!Block)
    BY ObjectFacts DEF ReqInv, MemOK, Behind
  <2> QED BY <1>2, <2>1, ObjectFacts DEF ReqInv, BlockOK
<1>8. VectorsOK' BY <1>2, ObjectFacts DEF ReqInv, VectorsOK
<1>9. InputsOK'
  <2> SUFFICES ASSUME st \in {"queued", "posted"}
               PROVE  \A i \in 1 .. call.ins : \A k \in DOMAIN Req!LinesOf(call, i) :
                        m'.ram[Req!LinesOf(call, i)[k]] = m.ram[Req!LinesOf(call, i)[k]]
    BY DEF ReqInv, InputsOK
  <2>1. \A i \in 1 .. call.ins : Req!ToSet(Req!LinesOf(call, i)) \subseteq Req!Lines(call)
    BY <1>3, <1>4 DEF InFlight
  <2> QED BY <1>6, <2>1 DEF InFlight, Req!ToSet
<1>10. AnswerOK'
  <2>1. st = "done" => \A l \in Req!Written(call) : m'.ram[l] = m.ram[l]
    BY <1>3, <1>4, <1>6 DEF InFlight
  <2>2. st = "answered" => \A l \in Req!Written(call) \cup {Req!Block, Req!Vectors} :
                             Req!Seen(m', l) = Req!Seen(m, l)
    <3> SUFFICES ASSUME st = "answered", NEW l \in Req!Written(call) \cup {Req!Block, Req!Vectors}
                 PROVE  Req!Seen(m', l) = Req!Seen(m, l)
      OBVIOUS
    <3>1. l \in Req!Line /\ l \notin K BY <1>2, <1>3, <1>4, ObjectFacts DEF InFlight
    <3>2. Agrees(m, l) BY <3>1 DEF ReqInv, MemOK, Behind
    <3> QED BY <3>1, <3>2
  <2> QED BY <2>1, <2>2 DEF ReqInv, AnswerOK
<1>11. \A u \in User \ K : Req!Memory'[u] = Req!Memory[u]
  <2> SUFFICES ASSUME NEW u \in User \ K, ~(~Req!Idle /\ st # "refused" /\ u \in Req!Written(call))
               PROVE  Req!Seen(m', u) = Req!Seen(m, u)
    BY DEF Req!Memory, Req!Idle
  <2>1. u \in Req!Line \ Behind BY ObjectFacts DEF Behind, Req!Idle
  <2> QED BY <2>1 DEF ReqInv, MemOK
<1> QED BY <1>1, <1>5, <1>7, <1>8, <1>9, <1>10, <1>11 DEF ReqInv

-----------------------------------------------------------------------------
(* The steps *)

Promise == <<Req!Memory, Req!Stage, call, given, took, answer>>

LEMMA StoreStep ==
  ASSUME Req!CallsAssumption, ReqInv, NEW u \in User, NEW v \in Values, Req!Store(u, v)
  PROVE  ReqInv' /\ Req!Promise!Store(u, v)
<1>1. u \in User \ Req!Lent /\ m' = Req!Put(m, u, v) /\ UNCHANGED Rest
  BY DEF Req!Store, Rest
<1>2. IsMem(m) /\ u \in Req!Line BY ObjectFacts DEF ReqInv, MemOK
<1>3. /\ IsMem(m') /\ m'.ram = m.ram /\ m'.dirty = m.dirty \cup {u}
      /\ \A l : Req!Seen(m', l) = IF l = u THEN v ELSE Req!Seen(m, l)
      /\ \A l : Agrees(m, l) => Agrees(m', l)
  BY <1>1, <1>2, PutOneFacts
<1>4. ReqInv' /\ \A w \in User \ {u} : Req!Memory'[w] = Req!Memory[w]
  BY <1>1, <1>3, CacheStep
<1>5. Req!Memory'[u] = v
  <2>1. ~Req!Idle => u \notin Req!Written(call)
    BY <1>1, CallFacts DEF Req!Lent, ReqInv, CallOK
  <2> QED BY <1>1, <1>3, <2>1 DEF Req!Memory, Req!Idle, Rest
<1>6. Req!Memory' = [Req!Memory EXCEPT ![u] = v]
  BY <1>4, <1>5 DEF Req!Memory
<1>7. Req!Lent = Req!Promise!Lent
  BY DEF Req!Lent, Req!Promise!Lent, Req!Idle, Req!Promise!Idle, Req!Stage
<1> QED BY <1>1, <1>4, <1>6, <1>7 DEF Req!Promise!Store, Req!Stage, Rest

LEMMA FetchStep ==
  ASSUME Req!CallsAssumption, ReqInv, NEW l \in Req!Used, Req!Fetch(l) \/ Req!Evict(l)
  PROVE  ReqInv' /\ UNCHANGED Promise
<1>1. IsMem(m) /\ l \in Req!Line /\ UNCHANGED Rest
  BY ObjectFacts, CallFacts DEF ReqInv, MemOK, CallOK, Req!Used, Req!Fetch, Req!Evict, Rest
<1>2. CASE Req!Fetch(l)
  <2>1. l \notin DOMAIN m.cache /\ m' = [m EXCEPT !.cache = Req!Override(@, Req!Only(l, m.ram[l]))]
    BY <1>2 DEF Req!Fetch
  <2>2. /\ IsMem(m') /\ m'.ram = m.ram /\ m'.dirty = m.dirty
        /\ \A k : Req!Seen(m', k) = Req!Seen(m, k)
        /\ \A k : Agrees(m, k) => Agrees(m', k)
    BY <1>1, <2>1, FetchFacts
  <2>3. ReqInv' /\ \A u \in User \ {} : Req!Memory'[u] = Req!Memory[u]
    BY <1>1, <2>2, CacheStep
  <2> QED BY <1>1, <2>3 DEF Promise, Rest, Req!Memory, Req!Stage
<1>3. CASE Req!Evict(l)
  <2>1. m' = Req!DcFlush(m, {l}) BY <1>3 DEF Req!Evict
  <2>2. /\ IsMem(m') /\ m'.dirty = m.dirty \ {l}
        /\ \A k \in Req!Line : m'.ram[k] = IF k \in {l} \cap m.dirty THEN Req!Seen(m, k) ELSE m.ram[k]
        /\ \A k \in Req!Line : Agrees(m, k) \/ k \notin {l} => Req!Seen(m', k) = Req!Seen(m, k)
        /\ \A k \in Req!Line : Agrees(m, k) \/ k \in {l} => Agrees(m', k)
    BY <1>1, <2>1, FlushFacts
  <2>3. ReqInv' /\ \A u \in User \ {} : Req!Memory'[u] = Req!Memory[u]
    BY <1>1, <2>2, CacheStep
  <2> QED BY <1>1, <2>3 DEF Promise, Rest, Req!Memory, Req!Stage
<1> QED BY <1>2, <1>3

LEMMA ConstructStep ==
  ASSUME Req!CallsAssumption, ReqInv, NEW c \in Calls, NEW copies \in [Req!Copies(c) -> Values],
         Req!Construct(c, copies)
  PROVE  ReqInv' /\ Req!Promise!Issue(c, copies)
<1> DEFINE made == [l \in Req!Lines(c) \ User |->
                      IF l \in Req!Copies(c) THEN copies[l] ELSE CHOOSE v \in Values : TRUE]
           x == Req!Constructed(m, c, copies)
<1>1. /\ Req!Idle /\ ~Req!Refused(c) /\ Req!Allowed(c)
      /\ st' = "queued" /\ call' = c /\ m' = Req!Async(x, c) /\ took' = <<>> /\ answer' = <<>>
      /\ given' = [i \in DOMAIN Req!Inputs(c) |-> [k \in DOMAIN Req!Inputs(c)[i] |->
           IF Req!Inputs(c)[i][k] \in User THEN Req!Seen(m, Req!Inputs(c)[i][k])
           ELSE copies[Req!Inputs(c)[i][k]]]]
  BY DEF Req!Construct
<1>2. IsMem(m) /\ \A l \in Req!Line : Agrees(m, l)
  BY <1>1 DEF ReqInv, MemOK, Behind, Req!Idle
<1>3. IsMap(made) /\ DOMAIN made = Req!Lines(c) \ User /\ DOMAIN made \subseteq Req!Line
  BY CallFacts DEF IsMap
<1>4. /\ IsMem(x) /\ x.dirty = m.dirty \cup (Req!Lines(c) \ User)
      /\ \A l : Req!Seen(x, l) = IF l \in Req!Lines(c) \ User THEN made[l] ELSE Req!Seen(m, l)
      /\ \A l : Agrees(m, l) => Agrees(x, l)
  <2>1. x = Req!PutAll(m, made) BY DEF Req!Constructed
  <2> HIDE DEF made, x
  <2> QED BY <1>2, <1>3, <2>1, PutFacts
<1>5. c.cmd = "READ" => Req!Lines(c) \cap x.dirty = {}
  BY <1>1, <1>4 DEF Req!CallsAssumption, Req!Allowed
<1> HIDE DEF x
<1>6. /\ IsMem(m') /\ \A l \in Req!Line : Agrees(m', l)
      /\ Req!Seen(m', Req!Block) = Req!CommandBlock(c)
      /\ \A l \in Req!Line \ {Req!Block, Req!Vectors} : Req!Seen(m', l) = Req!Seen(x, l)
      /\ Req!Lines(c) \cap m'.dirty = {}
      /\ c.cmd = "IOCTLV" => Req!Vectors \notin m'.dirty /\ m'.ram[Req!Vectors] = Req!Vector(c)
      /\ \A l \in Req!Lines(c) : m'.ram[l] = Req!Seen(x, l)
  BY <1>1, <1>2, <1>4, <1>5, AsyncFacts
<1>7. CallOK' BY <1>1 DEF CallOK, InFlight, AllFixed, Req!Allowed, Req!Idle
<1>8. MemOK' BY <1>1, <1>6 DEF MemOK
<1>9. BlockOK' /\ VectorsOK' /\ AnswerOK' BY <1>1, <1>6 DEF BlockOK, VectorsOK, AnswerOK
<1>10. InputsOK'
  <2>1. DOMAIN Req!Inputs(c) = 1 .. c.ins /\ \A i \in 1 .. c.ins : Req!Inputs(c)[i] = Req!LinesOf(c, i)
    BY DEF Req!Inputs
  <2>2. ASSUME NEW i \in 1 .. c.ins, NEW k \in DOMAIN Req!LinesOf(c, i)
        PROVE  m'.ram[Req!LinesOf(c, i)[k]] =
                 IF Req!LinesOf(c, i)[k] \in User THEN Req!Seen(m, Req!LinesOf(c, i)[k])
                 ELSE copies[Req!LinesOf(c, i)[k]]
    <3> DEFINE l == Req!LinesOf(c, i)[k]
    <3>1. l \in Req!ToSet(Req!LinesOf(c, i)) BY DEF Req!ToSet
    <3>2. l \in Req!Lines(c) BY <3>1, CallFacts
    <3>3. l \notin User => l \in Req!Copies(c) BY <3>1 DEF Req!Copies
    <3> HIDE DEF l
    <3>4. m'.ram[l] = IF l \in User THEN Req!Seen(m, l) ELSE copies[l]
      BY <1>4, <1>6, <3>2, <3>3
    <3> QED BY <3>4 DEF l
  <2> QED BY <1>1, <2>1, <2>2 DEF InputsOK
<1>11. ReqInv' BY <1>7, <1>8, <1>9, <1>10 DEF ReqInv
<1>12. Req!Stage = st /\ Req!Promise!Idle /\ \A u \in User : Req!Memory[u] = Req!Seen(m, u)
  BY <1>1 DEF Req!Stage, Req!Promise!Idle, Req!Memory, Req!Idle
<1>13. \A u \in User : Req!Seen(m', u) = Req!Seen(m, u)
  BY <1>4, <1>6, ObjectFacts
<1>14. Req!Memory' = [u \in User |-> IF u \in Req!Written(c) THEN "lent" ELSE Req!Memory[u]]
  BY <1>1, <1>12, <1>13 DEF Req!Memory, Req!Idle
<1>15. given' = Req!Promise!Given(c, copies)
  BY <1>1, <1>12 DEF Req!Promise!Given
<1> QED BY <1>1, <1>11, <1>12, <1>14, <1>15 DEF Req!Promise!Issue, Req!Stage

LEMMA RefuseStep ==
  ASSUME Req!CallsAssumption, ReqInv, NEW c \in Calls, Req!Refuse(c)
  PROVE  ReqInv' /\ Req!Promise!Refuse(c)
<1>1. /\ Req!Idle /\ Req!Refused(c)
      /\ st' = (IF Req!Waits(c) THEN "synced" ELSE "refused") /\ call' = c
      /\ given' = <<>> /\ took' = <<>>
      /\ answer' = IF Req!Waits(c) THEN [result |-> "INVALID", lines |-> <<>>] ELSE <<>>
  BY DEF Req!Refuse
<1>2. IsMem(m) /\ \A l \in Req!Line : Agrees(m, l)
  BY <1>1 DEF ReqInv, MemOK, Behind, Req!Idle
<1>3. /\ IsMem(m')
      /\ \A l : Req!Seen(m', l) = IF l = Req!Block THEN [Req!CommandBlock(c) EXCEPT !.result = "INVALID"]
                                  ELSE Req!Seen(m, l)
      /\ \A l : Agrees(m, l) => Agrees(m', l)
  <2>1. m' = Req!Put(m, Req!Block, [Req!CommandBlock(c) EXCEPT !.result = "INVALID"])
    BY DEF Req!Refuse
  <2> QED BY <1>2, <2>1, PutOneFacts, ObjectFacts
<1>4. ReqInv'
  BY <1>1, <1>2, <1>3 DEF ReqInv, CallOK, MemOK, BlockOK, VectorsOK, InputsOK, AnswerOK,
     InFlight, Behind, Req!Idle
<1>5. Req!Memory' = Req!Memory
  <2>1. \A u \in User : Req!Seen(m', u) = Req!Seen(m, u) BY <1>3, ObjectFacts
  <2> QED BY <1>1, <2>1 DEF Req!Memory, Req!Idle
<1> QED BY <1>1, <1>4, <1>5 DEF Req!Promise!Refuse, Req!Promise!Idle, Req!Stage, Req!Idle

\* The call in flight.
LEMMA InFlightFacts ==
  ASSUME Req!CallsAssumption, ReqInv, InFlight
  PROVE  /\ call \in Calls /\ ~Req!Idle /\ st # "refused"
         /\ Req!Lines(call) \subseteq Req!Line \ {Req!Block, Req!Vectors}
         /\ Req!Lines(call) \cap m.dirty = {}
         /\ DOMAIN call.args = 1 .. Len(call.args) /\ Len(call.args) \in Nat
         /\ call.ins \in 0 .. Len(call.args)
         /\ \A i \in DOMAIN call.args : Req!ToSet(Req!LinesOf(call, i)) \subseteq Req!Lines(call)
         /\ Req!Written(call) \subseteq Req!Lines(call)
<1>1. call \in Calls /\ ~Req!Idle /\ st # "refused"
  BY DEF ReqInv, CallOK, InFlight, Req!Idle
<1> QED BY <1>1, CallFacts DEF ReqInv, MemOK

LEMMA SendStep ==
  ASSUME Req!CallsAssumption, ReqInv, Req!ipcAcrSend
  PROVE  ReqInv' /\ UNCHANGED Promise
<1>1. /\ st = "queued" /\ st' = "posted" /\ m' = Req!DcFlush(m, {Req!Block})
      /\ UNCHANGED <<call, given, took, answer>>
  BY DEF Req!ipcAcrSend
<1> USE InFlightFacts
<1>2. InFlight /\ IsMem(m) /\ \A l \in Req!Line : Agrees(m, l)
  BY <1>1 DEF ReqInv, MemOK, Behind, InFlight
<1>3. /\ IsMem(m') /\ m'.dirty = m.dirty \ {Req!Block}
      /\ \A l \in Req!Line : m'.ram[l] = IF l \in {Req!Block} \cap m.dirty THEN Req!Seen(m, l) ELSE m.ram[l]
      /\ \A l \in Req!Line : Req!Seen(m', l) = Req!Seen(m, l)
      /\ \A l \in Req!Line : Agrees(m', l)
  BY <1>1, <1>2, FlushFacts
<1>4. CallOK' BY <1>1 DEF ReqInv, CallOK, InFlight, AllFixed, Req!Idle
<1>5. MemOK' BY <1>1, <1>2, <1>3 DEF MemOK
<1>6. m'.ram[Req!Block] = Req!CommandBlock(call)
  <2>1. Req!Seen(m, Req!Block) = Req!CommandBlock(call) BY <1>1 DEF ReqInv, BlockOK
  <2>2. Agrees(m, Req!Block) BY <1>2, ObjectFacts
  <2> QED BY <1>3, <2>1, <2>2, ObjectFacts DEF Agrees, Req!Seen
<1>7. BlockOK' BY <1>1, <1>3, <1>6 DEF BlockOK
<1>8. VectorsOK' BY <1>1, <1>3, ObjectFacts DEF ReqInv, VectorsOK
<1>9. \A l \in Req!Lines(call) : m'.ram[l] = m.ram[l] BY <1>2, <1>3
<1>10. InputsOK'
  <2>1. \A i \in 1 .. call.ins : Req!ToSet(Req!LinesOf(call, i)) \subseteq Req!Lines(call)
    BY <1>2
  <2>2. \A i \in 1 .. call.ins : \A k \in DOMAIN Req!LinesOf(call, i) :
          m'.ram[Req!LinesOf(call, i)[k]] = m.ram[Req!LinesOf(call, i)[k]]
    BY <1>9, <2>1 DEF Req!ToSet
  <2>3. given = [i \in 1 .. call.ins |->
                   [k \in DOMAIN Req!LinesOf(call, i) |-> m.ram[Req!LinesOf(call, i)[k]]]]
    BY <1>1 DEF ReqInv, InputsOK
  <2>4. given = [i \in 1 .. call.ins |->
                   [k \in DOMAIN Req!LinesOf(call, i) |-> m'.ram[Req!LinesOf(call, i)[k]]]]
    BY <2>2, <2>3
  <2> QED BY <1>1, <2>4 DEF InputsOK
<1>11. AnswerOK' BY <1>1 DEF AnswerOK
<1>12. ReqInv' BY <1>4, <1>5, <1>7, <1>8, <1>10, <1>11 DEF ReqInv
<1>13. Req!Memory' = Req!Memory
  <2>1. \A u \in User : Req!Seen(m', u) = Req!Seen(m, u) BY <1>3, ObjectFacts
  <2> QED BY <1>1, <2>1 DEF Req!Memory, Req!Idle
<1> QED BY <1>1, <1>12, <1>13 DEF Promise, Req!Stage

\* What IOS finds in RAM.
LEMMA AskedFacts ==
  ASSUME Req!CallsAssumption, ReqInv, st \in {"posted", "taken"}
  PROVE  /\ m.ram[Req!Block] = Req!CommandBlock(call)
         /\ Req!CommandBlock(call).ins = call.ins
         /\ Req!Asked(Req!CommandBlock(call)) = Req!Vector(call)
<1>1. m.ram[Req!Block] = Req!CommandBlock(call) BY DEF ReqInv, BlockOK
<1>2. call.cmd = "IOCTLV" => m.ram[Req!Vectors] = Req!Vector(call) BY DEF ReqInv, VectorsOK
<1> QED BY <1>1, <1>2 DEF Req!CommandBlock, Req!Asked

LEMMA TakeStep ==
  ASSUME Req!CallsAssumption, ReqInv, Req!IosTakes
  PROVE  ReqInv' /\ Req!Promise!Take
<1>1. /\ st = "posted" /\ st' = "taken" /\ UNCHANGED <<m, call, given, answer>>
      /\ took' = LET b == m.ram[Req!Block]
                 IN  [i \in 1 .. b.ins \cap DOMAIN Req!Asked(b) |-> Req!Reads(Req!Asked(b)[i])]
  BY DEF Req!IosTakes
<1> USE InFlightFacts
<1>2. InFlight BY <1>1 DEF InFlight
<1>3. took' = [i \in 1 .. call.ins \cap DOMAIN Req!Vector(call) |-> Req!Reads(Req!Vector(call)[i])]
  BY <1>1, AskedFacts
<1>4. DOMAIN Req!Vector(call) = DOMAIN call.args
      /\ \A i \in DOMAIN call.args : Req!Vector(call)[i] = Req!Physical(Req!LinesOf(call, i))
  BY DEF Req!Vector
<1>5. \A ls : Req!Reads(Req!Physical(ls)) = [k \in DOMAIN ls |-> m.ram[ls[k]]]
  BY DEF Req!Reads, Req!Physical
<1>6. 1 .. call.ins \cap DOMAIN call.args = 1 .. call.ins BY <1>2
<1>7. took' = given
  <2>1. took' = [i \in 1 .. call.ins |->
                   [k \in DOMAIN Req!LinesOf(call, i) |-> m.ram[Req!LinesOf(call, i)[k]]]]
    BY <1>3, <1>4, <1>5, <1>6
  <2> QED BY <1>1, <2>1 DEF ReqInv, InputsOK
<1>8. ReqInv'
  BY <1>1 DEF ReqInv, CallOK, MemOK, BlockOK, VectorsOK, InputsOK, AnswerOK, InFlight, Behind,
     AllFixed, Req!Idle
<1>9. Req!Memory' = Req!Memory BY <1>1 DEF Req!Memory, Req!Idle
<1> QED BY <1>1, <1>7, <1>8, <1>9 DEF Req!Promise!Take, Req!Stage

LEMMA AnswerStep ==
  ASSUME Req!CallsAssumption, ReqInv, Req!IosAnswers
  PROVE  /\ ReqInv'
         /\ \E result \in Results, new \in [Req!Written(call) -> Values] :
              Req!Promise!Answer(result, new)
<1> DEFINE b == Req!CommandBlock(call)
<1>1. st = "taken" /\ st' = "done" /\ UNCHANGED <<call, given, took>>
  BY DEF Req!IosAnswers
<1> USE InFlightFacts
<1>2. InFlight /\ IsMem(m) /\ \A l \in Req!Line : Agrees(m, l)
  BY <1>1 DEF ReqInv, MemOK, Behind, InFlight
<1>3. Req!Writable(b) = Req!Written(call)
  <2>1. /\ DOMAIN Req!Vector(call) = DOMAIN call.args
        /\ \A i \in DOMAIN call.args : Req!Vector(call)[i].lines = Req!LinesOf(call, i)
    BY DEF Req!Vector, Req!Physical
  <2>2. Req!Writable(b) = UNION {Req!ToSet(Req!Vector(call)[i].lines) :
                                   i \in {j \in DOMAIN Req!Vector(call) : call.marks \/ j > call.ins}}
    BY <1>1, AskedFacts DEF Req!Writable
  <2> QED BY <2>1, <2>2 DEF Req!Written
<1>4. PICK result \in Results, new \in [Req!Written(call) -> Values] :
        /\ m' = [m EXCEPT !.ram = Req!Override(Req!Override(@, new),
                                    Req!Only(Req!Block, [@[Req!Block] EXCEPT !.result = result]))]
        /\ answer' = [result |-> result, lines |-> new]
  BY <1>1, <1>3, AskedFacts DEF Req!IosAnswers
<1>5. /\ IsMem(m') /\ m'.cache = m.cache /\ m'.dirty = m.dirty
      /\ \A l \in Req!Line : m'.ram[l] = IF l = Req!Block THEN [b EXCEPT !.result = result]
                                         ELSE IF l \in Req!Written(call) THEN new[l] ELSE m.ram[l]
  <2> DEFINE r == Req!Override(m.ram, new)
             o == Req!Only(Req!Block, [b EXCEPT !.result = result])
             s == Req!Override(r, o)
  <2>1. IsMap(m.ram) /\ IsMap(new) /\ DOMAIN new = Req!Written(call) /\ DOMAIN m.ram = Req!Line
    BY <1>2 DEF IsMem, IsMap
  <2>2. /\ IsMap(r) /\ DOMAIN r = Req!Line
        /\ \A l \in Req!Line : r[l] = IF l \in Req!Written(call) THEN new[l] ELSE m.ram[l]
    BY <1>2, <2>1, OverrideWithin
  <2>3. IsMap(o) /\ DOMAIN o = {Req!Block} /\ o[Req!Block] = [b EXCEPT !.result = result]
    BY OnlyFacts
  <2>4. m' = [m EXCEPT !.ram = s] BY <1>1, <1>4, AskedFacts
  <2> HIDE DEF r, o
  <2>5. /\ IsMap(s) /\ DOMAIN s = Req!Line
        /\ \A l \in Req!Line : s[l] = IF l = Req!Block THEN o[l] ELSE r[l]
    BY <2>2, <2>3, OverrideWithin, ObjectFacts
  <2> HIDE DEF s
  <2>6. m' = [ram |-> s, cache |-> m.cache, dirty |-> m.dirty] BY <1>2, <2>4 DEF IsMem
  <2> QED BY <1>2, <2>2, <2>3, <2>5, <2>6 DEF IsMem
<1> HIDE DEF b
<1>6. Req!Block \notin Req!Written(call) /\ Req!Vectors \notin Req!Written(call)
      /\ Req!Written(call) \subseteq Req!Line
  BY <1>2
<1>7. CallOK' BY <1>1 DEF ReqInv, CallOK, InFlight, AllFixed, Req!Idle
<1>8. MemOK'
  <2>1. Behind' = Req!Written(call) \cup {Req!Block} BY <1>1 DEF Behind
  <2> QED BY <1>1, <1>2, <1>5, <2>1 DEF MemOK, Agrees
<1>9. BlockOK' BY <1>1, <1>4, <1>5, ObjectFacts DEF ReqInv, BlockOK, b
<1>10. VectorsOK' BY <1>1, <1>5, <1>6, ObjectFacts DEF ReqInv, VectorsOK
<1>11. InputsOK' BY <1>1 DEF InputsOK
<1>12. AnswerOK' BY <1>1, <1>4, <1>5, <1>6 DEF AnswerOK
<1>13. ReqInv' BY <1>7, <1>8, <1>9, <1>10, <1>11, <1>12 DEF ReqInv
<1>14. Req!Memory' = Req!Memory
  <2>1. \A u \in User \ Req!Written(call) : Req!Seen(m', u) = Req!Seen(m, u)
    BY <1>5, ObjectFacts DEF Req!Seen
  <2> QED BY <1>1, <1>2, <2>1 DEF Req!Memory, Req!Idle
<1> QED BY <1>1, <1>4, <1>13, <1>14 DEF Req!Promise!Answer, Req!Stage

\* The block and the vectors after a reply, and what it takes out of the cache.
LEMMA ReplyStep ==
  ASSUME Req!CallsAssumption, ReqInv, Req!handleReply
  PROVE  ReqInv' /\ UNCHANGED Promise
<1> DEFINE b       == m.ram[Req!Block]
           seen    == Req!DcInvalidate(m, {Req!Block})
           vectors == Req!Seen(seen, Req!Vectors)
           eff(ps) == [i \in DOMAIN ps |-> Req!Effective(ps[i])]
           fixed   == IF b.cmd \in {"READ", "WRITE", "IOCTL", "IOCTLV"}
                      THEN Req!Put(seen, Req!Block, [b EXCEPT !.args = eff(@)]) ELSE seen
           listed  == IF b.cmd = "IOCTLV" THEN Req!Put(fixed, Req!Vectors, eff(vectors)) ELSE fixed
           out     == Req!Fixed(b, vectors)
<1> USE InFlightFacts
<1>1. InFlight /\ st = "done" /\ st' = "answered" /\ UNCHANGED <<call, given, took, answer>>
  BY DEF Req!handleReply, InFlight
<1>2. IsMem(m) /\ Behind = Req!Written(call) \cup {Req!Block}
      /\ \A l \in Req!Line \ Behind : Agrees(m, l)
  BY <1>1 DEF ReqInv, MemOK, Behind
<1>3. b = [Req!CommandBlock(call) EXCEPT !.result = answer.result]
  BY <1>1 DEF ReqInv, BlockOK
<1>4. b.cmd = call.cmd /\ b.result = answer.result
      /\ b.args = IF call.cmd = "IOCTLV" THEN <<Req!Physical(<<Req!Vectors>>)>> ELSE Req!Vector(call)
  BY <1>3 DEF Req!CommandBlock
<1>5. /\ IsMem(seen) /\ seen.ram = m.ram /\ seen.dirty = m.dirty \ {Req!Block}
      /\ \A l : Req!Seen(seen, l) = IF l = Req!Block THEN b ELSE Req!Seen(m, l)
      /\ \A l : Agrees(m, l) \/ l = Req!Block => Agrees(seen, l)
  BY <1>2, InvalidateFacts
<1>6. m' = Req!DcInvalidate(listed, out)
  <2>1. Req!Seen(seen, Req!Block) = b BY <1>5
  <2> QED BY <2>1 DEF Req!handleReply
<1> HIDE DEF seen, b
<1>7. /\ IsMem(fixed) /\ fixed.ram = m.ram /\ fixed.dirty \subseteq m.dirty \cup {Req!Block}
      /\ \A l : l # Req!Block => Req!Seen(fixed, l) = Req!Seen(m, l)
      /\ Req!Seen(fixed, Req!Block).cmd = b.cmd /\ Req!Seen(fixed, Req!Block).result = b.result
      /\ \A l : Agrees(m, l) \/ l = Req!Block => Agrees(fixed, l)
  <2> DEFINE new == [b EXCEPT !.args = eff(@)]
  <2>1. new.cmd = b.cmd /\ new.result = b.result
    BY <1>3 DEF Req!CommandBlock
  <2> HIDE DEF new
  <2>2. CASE b.cmd \in {"READ", "WRITE", "IOCTL", "IOCTLV"}
    <3>1. fixed = Req!Put(seen, Req!Block, new) BY <2>2 DEF new
    <3> HIDE DEF fixed
    <3>2. /\ IsMem(fixed) /\ fixed.ram = seen.ram /\ fixed.dirty = seen.dirty \cup {Req!Block}
          /\ \A l : Req!Seen(fixed, l) = IF l = Req!Block THEN new ELSE Req!Seen(seen, l)
          /\ \A l : Agrees(seen, l) => Agrees(fixed, l)
      BY <3>1, <1>5, PutOneFacts, ObjectFacts
    <3> QED BY <3>2, <2>1, <1>5
  <2>3. CASE b.cmd \notin {"READ", "WRITE", "IOCTL", "IOCTLV"}
    BY <2>3, <1>5
  <2> QED BY <2>2, <2>3
<1>8. call.cmd = "IOCTLV" => vectors = Req!Vector(call)
  <2> SUFFICES ASSUME call.cmd = "IOCTLV" PROVE vectors = Req!Vector(call)
    OBVIOUS
  <2>1. Req!Vectors \notin m.dirty /\ m.ram[Req!Vectors] = Req!Vector(call)
    BY <1>1 DEF ReqInv, VectorsOK
  <2>2. Agrees(m, Req!Vectors) BY <1>1, <1>2, ObjectFacts
  <2>3. Req!Seen(m, Req!Vectors) = Req!Vector(call) BY <2>1, <2>2 DEF Agrees, Req!Seen
  <2> QED BY <2>3, <1>5, ObjectFacts
<1> HIDE DEF fixed, vectors
<1>9. /\ IsMem(listed) /\ listed.ram = m.ram /\ listed.dirty \subseteq m.dirty \cup {Req!Block, Req!Vectors}
      /\ \A l : l \notin {Req!Block, Req!Vectors} => Req!Seen(listed, l) = Req!Seen(m, l)
      /\ Req!Seen(listed, Req!Block).cmd = b.cmd /\ Req!Seen(listed, Req!Block).result = b.result
      /\ \A l : Agrees(m, l) \/ l = Req!Block => Agrees(listed, l)
      /\ call.cmd = "IOCTLV" => Req!Seen(listed, Req!Vectors) = eff(vectors)
  <2>1. CASE b.cmd = "IOCTLV"
    <3>1. listed = Req!Put(fixed, Req!Vectors, eff(vectors)) BY <2>1
    <3> HIDE DEF listed, eff
    <3>2. /\ IsMem(listed) /\ listed.ram = fixed.ram /\ listed.dirty = fixed.dirty \cup {Req!Vectors}
          /\ \A l : Req!Seen(listed, l) = IF l = Req!Vectors THEN eff(vectors) ELSE Req!Seen(fixed, l)
          /\ \A l : Agrees(fixed, l) => Agrees(listed, l)
      BY <3>1, <1>7, PutOneFacts, ObjectFacts
    <3> QED BY <3>2, <1>7, ObjectFacts
  <2>2. CASE b.cmd # "IOCTLV"
    <3>1. listed = fixed BY <2>2
    <3> HIDE DEF listed
    <3> QED BY <3>1, <2>2, <1>4, <1>7
  <2> QED BY <2>1, <2>2
<1> HIDE DEF listed
<1>10. Req!Written(call) \subseteq out /\ out \subseteq Req!Lines(call)
  <2> DEFINE ls(i) == Req!LinesOf(call, i)
  <2>1. /\ DOMAIN Req!Vector(call) = DOMAIN call.args
        /\ \A i \in DOMAIN call.args : Req!Vector(call)[i].lines = ls(i)
    BY DEF Req!Vector, Req!Physical
  <2>2. /\ Req!Lines(call) = UNION {Req!ToSet(ls(i)) : i \in DOMAIN call.args}
        /\ Req!Written(call) = UNION {Req!ToSet(ls(i)) :
                                       i \in {j \in DOMAIN call.args : call.marks \/ j > call.ins}}
    BY DEF Req!Lines, Req!Written
  <2>3. AllFixed(call) BY <1>1 DEF ReqInv, CallOK
  <2> HIDE DEF ls
  <2>4. CASE call.cmd = "READ"
    <3>1. DOMAIN call.args = {1} BY <1>1, <2>4 DEF Req!CallsAssumption
    <3>2. b.args[1].lines = ls(1) BY <1>4, <2>1, <2>4, <3>1
    <3>3. out = Req!ToSet(ls(1)) BY <1>4, <2>4, <3>2 DEF Req!Fixed
    <3> QED BY <2>2, <3>1, <3>3
  <2>5. CASE call.cmd = "IOCTL"
    <3>1. DOMAIN call.args = {1, 2} BY <1>1, <2>5 DEF Req!CallsAssumption
    <3>2. b.args[1].lines = ls(1) /\ b.args[2].lines = ls(2) BY <1>4, <2>1, <2>5, <3>1
    <3>3. out = Req!ToSet(ls(1)) \cup (IF ls(1) # <<>> /\ ls(2) # <<>> /\ Head(ls(1)) = Head(ls(2))
                                       THEN {} ELSE Req!ToSet(ls(2)))
      BY <1>4, <2>5, <3>2 DEF Req!Fixed
    <3>4. ls(1) # <<>> /\ ls(2) # <<>> /\ Head(ls(1)) = Head(ls(2))
            => Req!ToSet(ls(2)) \subseteq Req!ToSet(ls(1))
      BY <2>3, <2>5 DEF AllFixed, ls
    <3>5. out = Req!ToSet(ls(1)) \cup Req!ToSet(ls(2)) BY <3>3, <3>4
    <3> QED BY <2>2, <3>1, <3>5
  <2>6. CASE call.cmd = "IOCTLV"
    <3>1. out = UNION {Req!ToSet(Req!Vector(call)[i].lines) : i \in DOMAIN Req!Vector(call)}
      BY <1>4, <1>8, <2>6 DEF Req!Fixed, Req!Buffers
    <3>2. out = UNION {Req!ToSet(ls(i)) : i \in DOMAIN call.args} BY <2>1, <3>1
    <3> QED BY <1>1, <2>2, <3>2
  <2>7. CASE call.cmd \notin {"READ", "IOCTL", "IOCTLV"}
    <3>1. out = {} BY <1>4, <2>7 DEF Req!Fixed
    <3>2. {j \in DOMAIN call.args : call.marks \/ j > call.ins} = {}
      <4>1. \/ call.args = <<>>
            \/ Len(call.args) = 1 /\ call.ins = 1 /\ ~call.marks
        BY <1>1, <2>7 DEF Req!CallsAssumption
      <4>2. call.args = <<>> => DOMAIN call.args = {} OBVIOUS
      <4> QED BY <1>1, <4>1, <4>2
    <3> QED BY <2>2, <3>1, <3>2
  <2> QED BY <2>4, <2>5, <2>6, <2>7
<1> HIDE DEF out
<1>11. /\ IsMem(m') /\ m'.ram = m.ram /\ m'.dirty = listed.dirty \ out
       /\ \A l : Req!Seen(m', l) = IF l \in out THEN m.ram[l] ELSE Req!Seen(listed, l)
       /\ \A l : Agrees(listed, l) \/ l \in out => Agrees(m', l)
  BY <1>6, <1>9, InvalidateFacts
<1>12. {Req!Block, Req!Vectors} \cap out = {} BY <1>1, <1>10
<1>13. MemOK'
  <2>1. \A l \in Req!Line : Agrees(m', l) BY <1>2, <1>9, <1>10, <1>11
  <2>2. Req!Lines(call) \cap m'.dirty = {} BY <1>1, <1>9, <1>11
  <2> QED BY <1>1, <1>11, <2>1, <2>2 DEF MemOK
<1>14. AnswerOK'
  <2>1. \A l \in Req!Written(call) : Req!Seen(m', l) = answer.lines[l]
    BY <1>1, <1>10, <1>11 DEF ReqInv, AnswerOK
  <2>2. call.cmd = "IOCTLV" =>
          Req!Seen(m', Req!Vectors) =
            [i \in DOMAIN call.args |-> Req!Effective(Req!Physical(Req!LinesOf(call, i)))]
    BY <1>8, <1>9, <1>11, <1>12 DEF Req!Vector
  <2>3. Req!Seen(m', Req!Block).result = answer.result /\ Req!Seen(m', Req!Block).cmd = call.cmd
    BY <1>4, <1>9, <1>11, <1>12
  <2> HIDE DEF eff
  <2> QED BY <1>1, <2>1, <2>2, <2>3 DEF ReqInv, AnswerOK
<1>15. CallOK' /\ BlockOK' /\ VectorsOK' /\ InputsOK'
  BY <1>1 DEF ReqInv, CallOK, InFlight, AllFixed, Req!Idle, BlockOK, VectorsOK, InputsOK
<1>16. ReqInv' BY <1>13, <1>14, <1>15 DEF ReqInv
<1>17. Req!Memory' = Req!Memory
  <2>1. ASSUME NEW u \in User \ Req!Written(call) PROVE Req!Seen(m', u) = Req!Seen(m, u)
    <3>1. u \in Req!Line \ {Req!Block, Req!Vectors} BY ObjectFacts
    <3>2. CASE u \in out
      <4>1. u \notin m.dirty /\ Agrees(m, u) BY <1>1, <1>2, <1>10, <3>1, <3>2
      <4> QED BY <3>2, <4>1, <1>11 DEF Agrees, Req!Seen
    <3>3. CASE u \notin out BY <3>1, <3>3, <1>9, <1>11
    <3> QED BY <3>2, <3>3
  <2> QED BY <1>1, <2>1 DEF Req!Memory, Req!Idle
<1> QED BY <1>1, <1>16, <1>17 DEF Promise, Req!Stage

LEMMA SyncStep ==
  ASSUME Req!CallsAssumption, ReqInv, Req!Sync
  PROVE  ReqInv' /\ Req!Promise!Sync
<1> USE InFlightFacts
<1>1. /\ InFlight /\ st = "answered" /\ st' = "synced" /\ UNCHANGED <<m, call, given, took>>
      /\ answer' = [result |-> Req!Seen(m, Req!Block).result,
                    lines |-> [l \in Req!Written(call) \cap Req!Reached(Req!Seen(m, Req!Block))
                               |-> Req!Seen(m, l)]]
  BY DEF Req!Sync, InFlight
<1>2. /\ answer = [result |-> answer.result, lines |-> answer.lines]
      /\ answer.lines \in [Req!Written(call) -> Values]
      /\ Req!Seen(m, Req!Block).result = answer.result
      /\ Req!Seen(m, Req!Block).cmd = call.cmd
      /\ \A l \in Req!Written(call) : Req!Seen(m, l) = answer.lines[l]
      /\ call.cmd = "IOCTLV" =>
            Req!Seen(m, Req!Vectors) =
              [i \in DOMAIN call.args |-> Req!Effective(Req!Physical(Req!LinesOf(call, i)))]
  BY <1>1 DEF ReqInv, AnswerOK
<1>3. Req!Written(call) \subseteq Req!Reached(Req!Seen(m, Req!Block))
  <2>1. CASE call.cmd # "IOCTLV"
    <3>1. Req!Reached(Req!Seen(m, Req!Block)) = Req!Line BY <1>2, <2>1 DEF Req!Reached
    <3> QED BY <1>1, <3>1
  <2>2. CASE call.cmd = "IOCTLV"
    <3> DEFINE ps == Req!Seen(m, Req!Vectors)
    <3>1. SUFFICES ASSUME NEW l \in Req!Written(call)
                   PROVE  \E i \in {j \in DOMAIN ps : ps[j].space = "effective"} :
                            l \in Req!ToSet(ps[i].lines)
      BY <1>1, <1>2, <2>2 DEF Req!Reached, Req!Pointed
    <3>2. PICK i \in DOMAIN call.args : l \in Req!ToSet(Req!LinesOf(call, i))
      BY DEF Req!Written
    <3>3. Req!LinesOf(call, i) # <<>> BY <3>2 DEF Req!ToSet
    <3>4. Req!Effective(Req!Physical(Req!LinesOf(call, i))) =
            [space |-> "effective", lines |-> Req!LinesOf(call, i)]
      BY <3>3 DEF Req!Effective, Req!Physical
    <3>5. DOMAIN ps = DOMAIN call.args /\ ps[i] = Req!Effective(Req!Physical(Req!LinesOf(call, i)))
      BY <1>2, <2>2
    <3> QED BY <3>2, <3>4, <3>5
  <2> QED BY <2>1, <2>2
<1>4. answer' = answer
  <2>1. Req!Written(call) \cap Req!Reached(Req!Seen(m, Req!Block)) = Req!Written(call) BY <1>3
  <2>2. [l \in Req!Written(call) |-> Req!Seen(m, l)] = answer.lines BY <1>2
  <2> QED BY <1>1, <1>2, <2>1, <2>2
<1>5. ReqInv'
  BY <1>1 DEF ReqInv, CallOK, MemOK, BlockOK, VectorsOK, InputsOK, AnswerOK, InFlight, Behind,
     Req!Idle
<1>6. Req!Memory' = [u \in User |-> IF u \in Req!Written(call) THEN answer.lines[u] ELSE Req!Memory[u]]
  BY <1>1, <1>2 DEF Req!Memory, Req!Idle
<1> QED BY <1>1, <1>4, <1>5, <1>6 DEF Req!Promise!Sync, Req!Stage

-----------------------------------------------------------------------------
LEMMA ReqInit == Req!CallsAssumption /\ Req!Init => ReqInv /\ Req!Promise!Init
<1> SUFFICES ASSUME Req!CallsAssumption, Req!Init PROVE ReqInv /\ Req!Promise!Init
  OBVIOUS
<1> DEFINE blank == [l \in Req!Object |-> <<>>]
<1>1. PICK ram \in [User -> Values] :
        m = [ram |-> Req!Override(blank, ram), cache |-> <<>>, dirty |-> {}]
  BY DEF Req!Init
<1>2. st = "none" /\ call = <<>> /\ given = <<>> /\ took = <<>> /\ answer = <<>>
  BY DEF Req!Init
<1>3. DOMAIN m.cache = {} /\ m.dirty = {} BY <1>1
<1>4. IsMap(blank) /\ IsMap(ram) /\ DOMAIN blank = Req!Object /\ DOMAIN ram = User
  BY DEF IsMap
<1> HIDE DEF blank
<1>5. /\ IsMap(m.ram) /\ DOMAIN m.ram = Req!Line
      /\ \A u \in User : m.ram[u] = ram[u]
  <2>1. /\ IsMap(Req!Override(blank, ram))
        /\ DOMAIN Req!Override(blank, ram) = Req!Object \cup User
        /\ \A u \in User : Req!Override(blank, ram)[u] = ram[u]
    BY <1>4 DEF Req!Override, IsMap
  <2>2. m.ram = Req!Override(blank, ram) BY <1>1
  <2>3. Req!Line = Req!Object \cup User BY DEF Req!Line
  <2> QED BY <2>1, <2>2, <2>3
<1>6. IsMem(m) BY <1>1, <1>3, <1>5 DEF IsMem, IsMap
<1>7. ReqInv
  BY <1>2, <1>3, <1>6 DEF ReqInv, CallOK, MemOK, BlockOK, VectorsOK, InputsOK, AnswerOK,
     InFlight, Behind, Agrees, Req!Idle
<1>8. Req!Memory \in [User -> Values]
  BY <1>2, <1>3, <1>5 DEF Req!Memory, Req!Idle, Req!Seen
<1> QED BY <1>2, <1>7, <1>8 DEF Req!Promise!Init, Req!Stage

LEMMA ReqNext ==
  Req!CallsAssumption /\ ReqInv /\ [Req!Next]_Req!vars => ReqInv' /\ [Req!Promise!Next]_Req!Promise!vars
<1> SUFFICES ASSUME Req!CallsAssumption, ReqInv, [Req!Next]_Req!vars
             PROVE  ReqInv' /\ (Req!Promise!Next \/ UNCHANGED Promise)
  BY DEF Promise, Req!Promise!vars
<1> USE DEF Req!Promise!Next
<1>1. ASSUME NEW c \in Calls, NEW copies \in [Req!Copies(c) -> Values], Req!Construct(c, copies)
      PROVE  ReqInv' /\ Req!Promise!Next
  BY <1>1, ConstructStep
<1>2. ASSUME NEW c \in Calls, Req!Refuse(c) PROVE ReqInv' /\ Req!Promise!Next
  BY <1>2, RefuseStep
<1>3. CASE Req!ipcAcrSend BY <1>3, SendStep
<1>4. CASE Req!IosTakes BY <1>4, TakeStep
<1>5. CASE Req!IosAnswers BY <1>5, AnswerStep
<1>6. CASE Req!handleReply BY <1>6, ReplyStep
<1>7. CASE Req!Sync BY <1>7, SyncStep
<1>8. ASSUME NEW u \in User, NEW v \in Values, Req!Store(u, v) PROVE ReqInv' /\ Req!Promise!Next
  BY <1>8, StoreStep
<1>9. ASSUME NEW l \in Req!Used, Req!Fetch(l) \/ Req!Evict(l) PROVE ReqInv' /\ UNCHANGED Promise
  BY <1>9, FetchStep
<1>10. CASE UNCHANGED Req!vars
  BY <1>10 DEF Req!vars, ReqInv, CallOK, MemOK, BlockOK, VectorsOK, InputsOK, AnswerOK,
     InFlight, Behind, AllFixed, Req!Idle, Promise, Req!Memory, Req!Stage
<1> QED BY <1>1, <1>2, <1>3, <1>4, <1>5, <1>6, <1>7, <1>8, <1>9, <1>10 DEF Req!Next

\* For any calls, buffers and values, and whatever goes through the cache, a
\* call of IOS acts on what the caller gave it, and the caller reads the answer
\* of IOS (Ipc.cpp:76-146, 240-398, Interface.hpp:66-325).
THEOREM CallsImplemented == Req!Spec => ImplementsIosCall
<1> USE MachineAssumption
<1>1. Req!Init => ReqInv BY ReqInit
<1>2. ReqInv /\ [Req!Next]_Req!vars => ReqInv' BY ReqNext
<1>3. Req!Spec => []ReqInv BY <1>1, <1>2, PTL DEF Req!Spec
<1>4. Req!Init => Req!Promise!Init BY ReqInit
<1>5. ReqInv /\ [Req!Next]_Req!vars => [Req!Promise!Next]_Req!Promise!vars BY ReqNext
<1> QED BY <1>3, <1>4, <1>5, PTL
        DEF Req!Spec, ImplementsIosCall, Req!ImplementsIosCall, Req!Promise!Spec

-----------------------------------------------------------------------------
(* The SD card *)

Cmds == [cmd : {"CMD7", "CMD55", "ACMD6", "data", "none", "reset", "status", "read", "write",
                "clock"}, address : {0, 1}]
Entries == Objects \X Cmds

CardTypes ==
  /\ line \in Seq(Entries)
  /\ unsynced \subseteq Objects
  /\ block \in [Objects -> [command : Cmds, result : {"OK", "ERROR"}]]
  /\ address \in {0, 1}
  /\ refused \in BOOLEAN /\ selected \in BOOLEAN

\* What IOS is still to answer: all of it of given objects, none of it a
\* transfer, with m_request nothing or Deselect only, and no other selection
\* without m_request behind it.
Within(l, those) == \A e \in ToSet(l) : e[1] \in those
NoTransfer(l) == \A e \in ToSet(l) : e[2] # Transfer
NoLast(l) == \A e \in ToSet(l) : e[1] # "m_request"
LastDeselects(l) == \A e \in ToSet(l) : e[1] = "m_request" => e[2] = Deselect
LastBehind(l) == \A i \in 1 .. Len(l) : l[i][1] # "m_request" /\ l[i][2].cmd = "CMD7"
                   => \E j \in 1 .. Len(l) : i < j /\ l[j][1] = "m_request"

\* What IOS has is not synced, and what a call made is, when it has returned.
UnsyncedOK ==
  /\ Within(line, unsynced)
  /\ "temporary" \in unsynced => pc \in {"read", "write", "available"}
  /\ pc \in {"idle", "previous", "select", "data", "gone"} => unsynced \subseteq {"m_request"}
  /\ pc = "available" => unsynced \subseteq {"m_request", "temporary"}

\* A transfer is alone at IOS, and so is the Select before it.
TransferOK ==
  /\ pc \in {"previous", "select", "data"} => address # 0
  /\ pc = "select" => \/ line = << <<"m_request", CMD7(address)>> >>
                      \/ line = <<>> /\ (block["m_request"].result = "OK" => selected)
  /\ pc = "data" => selected /\ line \in {<<>>, << <<"m_request", Transfer>> >>}
  /\ pc # "data" => NoTransfer(line)

\* Otherwise the last that IOS was asked with m_request, and the last of all
\* that selects or deselects, is Deselect, but for a transfer that was refused.
DeselectOK ==
  pc \notin {"select", "data", "halted"} =>
    /\ ~refused => LastDeselects(line)
    /\ ~refused /\ selected /\ NoLast(line)
         => block["m_request"] = [command |-> Deselect, result |-> "ERROR"]
    /\ LastBehind(line)

CardInv == CardTypes /\ UnsyncedOK /\ TransferOK /\ DeselectOK

LEMMA EmptyFacts ==
  /\ <<>> \in Seq(Entries) /\ NoTransfer(<<>>) /\ NoLast(<<>>) /\ LastDeselects(<<>>)
  /\ LastBehind(<<>>) /\ \A u : Within(<<>>, u)
BY DEF ToSet, Within, NoTransfer, NoLast, LastDeselects, LastBehind

LEMMA AppendFacts ==
  ASSUME NEW s \in Seq(Entries), NEW t \in Seq(Entries)
  PROVE  /\ s \o t \in Seq(Entries)
         /\ \A u : Within(s \o t, u) <=> Within(s, u) /\ Within(t, u)
         /\ NoTransfer(s \o t) <=> NoTransfer(s) /\ NoTransfer(t)
         /\ NoLast(s \o t) <=> NoLast(s) /\ NoLast(t)
         /\ LastDeselects(s \o t) <=> LastDeselects(s) /\ LastDeselects(t)
         /\ LastBehind(t) /\ (LastBehind(s) \/ ~NoLast(t)) => LastBehind(s \o t)
<1> DEFINE l == s \o t
<1>1. /\ l \in Seq(Entries) /\ Len(l) = Len(s) + Len(t) /\ Len(s) \in Nat /\ Len(t) \in Nat
      /\ \A i \in 1 .. Len(s) : l[i] = s[i]
      /\ \A i \in 1 .. Len(t) : l[Len(s) + i] = t[i]
  OBVIOUS
<1> HIDE DEF l
<1>2. \A i \in 1 .. Len(l) : (i \in 1 .. Len(s) /\ l[i] = s[i])
        \/ (i - Len(s) \in 1 .. Len(t) /\ l[i] = t[i - Len(s)])
  <2> SUFFICES ASSUME NEW i \in 1 .. Len(l), i \notin 1 .. Len(s)
               PROVE  i - Len(s) \in 1 .. Len(t) /\ l[i] = t[i - Len(s)]
    BY <1>1
  <2>1. i - Len(s) \in 1 .. Len(t) /\ Len(s) + (i - Len(s)) = i BY <1>1
  <2> QED BY <1>1, <2>1
<1>3. 1 .. Len(s) \subseteq 1 .. Len(l) /\ \A i \in 1 .. Len(t) : Len(s) + i \in 1 .. Len(l)
  BY <1>1
<1>4. ToSet(l) = ToSet(s) \cup ToSet(t)
  <2>1. \A q \in Seq(Entries) : ToSet(q) = {q[i] : i \in 1 .. Len(q)} BY DEF ToSet
  <2>2. \A i \in 1 .. Len(l) : l[i] \in ToSet(s) \cup ToSet(t) BY <1>2, <2>1
  <2>3. (\A i \in 1 .. Len(s) : s[i] \in ToSet(l)) /\ \A i \in 1 .. Len(t) : t[i] \in ToSet(l)
    <3>1. \A i \in 1 .. Len(s) : l[i] \in ToSet(l) BY <1>1, <1>3, <2>1
    <3>2. \A i \in 1 .. Len(t) : l[Len(s) + i] \in ToSet(l) BY <1>1, <1>3, <2>1
    <3> QED BY <1>1, <3>1, <3>2
  <2>4. ToSet(l) \subseteq ToSet(s) \cup ToSet(t) BY <1>1, <2>1, <2>2
  <2>5. ToSet(s) \subseteq ToSet(l) /\ ToSet(t) \subseteq ToSet(l) BY <2>1, <2>3
  <2> QED BY <2>4, <2>5
<1>8. ASSUME LastBehind(t), LastBehind(s) \/ ~NoLast(t) PROVE LastBehind(l)
  <2> SUFFICES ASSUME NEW i \in 1 .. Len(l), l[i][1] # "m_request", l[i][2].cmd = "CMD7"
               PROVE  \E j \in 1 .. Len(l) : i < j /\ l[j][1] = "m_request"
    BY DEF LastBehind
  <2>1. CASE i \in 1 .. Len(s) /\ l[i] = s[i] /\ LastBehind(s)
    BY <2>1, <1>1, <1>3 DEF LastBehind
  <2>2. CASE i \in 1 .. Len(s) /\ ~NoLast(t)
    <3>1. PICK k \in 1 .. Len(t) : t[k][1] = "m_request" BY <2>2 DEF NoLast, ToSet
    <3> QED BY <2>2, <3>1, <1>1, <1>3
  <2>3. CASE i - Len(s) \in 1 .. Len(t) /\ l[i] = t[i - Len(s)]
    <3>1. PICK k \in 1 .. Len(t) : i - Len(s) < k /\ t[k][1] = "m_request"
      BY <1>8, <2>3 DEF LastBehind
    <3>2. i < Len(s) + k BY <3>1, <1>1
    <3> QED BY <3>1, <3>2, <1>1, <1>3
  <2> QED BY <1>2, <1>8, <2>1, <2>2, <2>3
<1> QED BY <1>1, <1>4, <1>8 DEF l, Within, NoTransfer, NoLast, LastDeselects

LEMMA OneFacts ==
  ASSUME NEW r \in Objects, NEW c \in Cmds, NEW t, t = << <<r, c>> >>
  PROVE  /\ t \in Seq(Entries) /\ \A u : Within(t, u) <=> r \in u
         /\ NoTransfer(t) <=> c # Transfer
         /\ NoLast(t) <=> r # "m_request"
         /\ LastDeselects(t) <=> (r = "m_request" => c = Deselect)
         /\ r = "m_request" \/ c.cmd # "CMD7" => LastBehind(t)
<1>1. t \in Seq(Entries) /\ Len(t) = 1 /\ t[1] = <<r, c>> BY DEF Entries
<1>2. ToSet(t) = {<<r, c>>} BY <1>1 DEF ToSet
<1> QED BY <1>1, <1>2 DEF Within, NoTransfer, NoLast, LastDeselects, LastBehind

LEMMA CmdFacts ==
  /\ \A a \in {0, 1} : CMD7(a) \in Cmds /\ CMD7(a) # Transfer
  /\ {Transfer, Plain("reset"), Plain("status"), Plain("read"), Plain("write"), Plain("clock"),
      AppCommand, SetBusWidth} \subseteq {c \in Cmds : c.cmd # "CMD7"}
  /\ Deselect = CMD7(0) /\ SetBlockLength = CMD7(0) /\ Select = CMD7(address)
  /\ \A x \in {"reset", "status", "read", "write", "clock"} : Plain(x) # Transfer
  /\ AppCommand # Transfer /\ SetBusWidth # Transfer
BY DEF CMD7, Cmds, Transfer, Plain, AppCommand, SetBusWidth, Deselect, SetBlockLength, Select

LEMMA CardStart == CardInit => CardInv
<1> SUFFICES ASSUME CardInit PROVE CardInv OBVIOUS
<1>1. CardTypes
  <2>1. [command |-> Plain("none"), result |-> "OK"] \in [command : Cmds, result : {"OK", "ERROR"}]
    BY DEF Plain, Cmds
  <2>2. block \in [Objects -> [command : Cmds, result : {"OK", "ERROR"}]]
    BY <2>1 DEF CardInit
  <2>3. line \in Seq(Entries) /\ unsynced = {} BY DEF CardInit
  <2>4. address \in {0, 1} /\ refused \in BOOLEAN /\ selected \in BOOLEAN BY DEF CardInit
  <2> QED BY <2>2, <2>3, <2>4 DEF CardTypes
<1> QED BY <1>1, EmptyFacts DEF CardInit, CardInv, UnsyncedOK, TransferOK, DeselectOK

\* Nothing is left at IOS of a request that has synced.
LEMMA WaitedFacts ==
  ASSUME CardInv, NEW r \in Objects, Waits(r)
  PROVE  /\ Within(line, unsynced \ {r})
         /\ unsynced \subseteq {r} => line = <<>>
<1>1. line \in Seq(Entries) /\ Within(line, unsynced) BY DEF CardInv, CardTypes, UnsyncedOK
<1>2. \A e \in ToSet(line) : e[1] # r
  <2>1. CASE r \in unsynced BY <2>1 DEF Waits, ToSet
  <2>2. CASE r \notin unsynced BY <2>2, <1>1 DEF Within
  <2> QED BY <2>1, <2>2
<1>3. Within(line, unsynced \ {r}) BY <1>1, <1>2 DEF Within
<1>4. ASSUME unsynced \subseteq {r} PROVE line = <<>>
  <2>1. ToSet(line) = {} BY <1>3, <1>4 DEF Within
  <2>2. DOMAIN line = 1 .. Len(line) /\ Len(line) \in Nat BY <1>1
  <2>3. \A i \in 1 .. Len(line) : line[i] \in ToSet(line) BY <2>2 DEF ToSet
  <2>4. Len(line) = 0 BY <2>1, <2>2, <2>3
  <2> QED BY <1>1, <2>4
<1> QED BY <1>3, <1>4

Outside == pc \notin {"idle", "previous", "select", "data", "halted", "available"}
Alone(r) == r = "temporary" \/ "temporary" \notin unsynced

LEMMA SyncedStep ==
  ASSUME CardInv, NEW r \in Objects, NEW place, SyncAndSend(r, place, <<>>), Kept, address' \in {0, 1},
         Outside, Alone(r), place \notin {"idle", "previous", "select", "data", "available", "gone"}
  PROVE  CardInv'
<1>1. line' = line BY DEF SyncAndSend, CardInv, CardTypes
<1>2. unsynced' = unsynced \ {r} /\ pc' = place BY DEF SyncAndSend
<1>3. Within(line, unsynced \ {r}) BY WaitedFacts DEF SyncAndSend
<1>4. CardTypes' BY <1>1, <1>2 DEF CardInv, CardTypes, Kept
<1>5. UnsyncedOK' BY <1>1, <1>2, <1>3 DEF CardInv, UnsyncedOK, Alone
<1>6. TransferOK' BY <1>1, <1>2 DEF CardInv, TransferOK, Outside
<1>7. DeselectOK' BY <1>1, <1>2 DEF CardInv, DeselectOK, Kept, Outside
<1> QED BY <1>4, <1>5, <1>6, <1>7 DEF CardInv

LEMMA ReturnsStep ==
  ASSUME CardInv, NEW r \in Objects, Returns(r), Kept, address' = address, Outside, Alone(r)
  PROVE  CardInv'
<1>1. line' = line /\ unsynced' = unsynced \ {r} BY DEF Returns, Synced
<1>2. pc' \in {"idle", "halted"} /\ (pc' = "idle" => unsynced' \cap Locals = {})
  BY DEF Returns
<1>3. Within(line, unsynced \ {r}) BY WaitedFacts DEF Returns, Synced
<1>4. CardTypes' BY <1>1 DEF CardInv, CardTypes, Kept
<1>5. UnsyncedOK' BY <1>1, <1>2, <1>3 DEF CardInv, CardTypes, UnsyncedOK, Objects, Alone
<1>6. TransferOK' BY <1>1, <1>2 DEF CardInv, TransferOK, Outside
<1>7. DeselectOK' BY <1>1, <1>2 DEF CardInv, DeselectOK, Kept, Outside
<1> QED BY <1>4, <1>5, <1>6, <1>7 DEF CardInv

\* A request of the object "temporary" follows another one.
LEMMA FollowStep ==
  ASSUME CardInv, NEW r \in Objects, NEW place \in {"read", "write"},
         NEW c \in {Plain("read"), Plain("write")},
         SyncAndSend(r, place, << <<"temporary", c>> >>), Kept, address' = address, Outside
  PROVE  CardInv'
<1> DEFINE t == << <<"temporary", c>> >>
<1>1. c \in Cmds /\ c.cmd # "CMD7" /\ c # Transfer BY CmdFacts
<1>2. /\ t \in Seq(Entries) /\ (\A u : Within(t, u) <=> "temporary" \in u)
      /\ NoTransfer(t) /\ NoLast(t) /\ LastDeselects(t) /\ LastBehind(t)
  BY <1>1, OneFacts DEF Objects
<1>3. line' = line \o t /\ pc' = place BY DEF SyncAndSend
<1>4. unsynced' = (unsynced \ {r}) \cup {"temporary"} BY DEF SyncAndSend
<1>5. line \in Seq(Entries) BY DEF CardInv, CardTypes
<1> HIDE DEF t
<1>6. Within(line, unsynced \ {r}) BY WaitedFacts DEF SyncAndSend
<1>7. /\ line' \in Seq(Entries) /\ (\A u : Within(line', u) <=> Within(line, u) /\ "temporary" \in u)
      /\ NoTransfer(line') <=> NoTransfer(line)
      /\ NoLast(line') <=> NoLast(line)
      /\ LastDeselects(line') <=> LastDeselects(line)
      /\ LastBehind(line) => LastBehind(line')
  BY <1>2, <1>3, <1>5, AppendFacts
<1>8. CardTypes' BY <1>4, <1>7 DEF CardInv, CardTypes, Kept, Objects
<1>9. UnsyncedOK'
  <2>1. Within(line', unsynced') BY <1>4, <1>6, <1>7 DEF Within
  <2> QED BY <1>3, <2>1 DEF UnsyncedOK
<1>10. TransferOK' BY <1>3, <1>7 DEF CardInv, TransferOK, Outside
<1>11. DeselectOK' BY <1>3, <1>7 DEF CardInv, DeselectOK, Kept, Outside, Deselect, CMD7
<1> QED BY <1>8, <1>9, <1>10, <1>11 DEF CardInv

\* m_request is sent, alone, when the one before it has synced.
LEMMA QuietSend ==
  ASSUME CardInv, pc \in {"previous", "select", "data"}, NEW place, NEW c \in Cmds,
         SyncAndSend("m_request", place, << <<"m_request", c>> >>),
         address' = address, block' = block, selected' = selected, refused' \in BOOLEAN,
         \/ place = "idle" /\ (refused' \/ c = Deselect) /\ c # Transfer
         \/ place = "select" /\ c = CMD7(address)
         \/ place = "data" /\ selected /\ c = Transfer
  PROVE  CardInv'
<1> DEFINE t == << <<"m_request", c>> >>
<1>1. unsynced \subseteq {"m_request"} /\ address # 0 /\ address \in {0, 1}
  BY DEF CardInv, UnsyncedOK, TransferOK, CardTypes
<1>2. line = <<>> BY <1>1, WaitedFacts DEF SyncAndSend, Objects
<1>3. /\ t \in Seq(Entries) /\ (\A u : Within(t, u) <=> "m_request" \in u)
      /\ NoTransfer(t) <=> c # Transfer
      /\ ~NoLast(t) /\ LastBehind(t) /\ (LastDeselects(t) <=> c = Deselect)
  BY OneFacts DEF Objects
<1>4. line' = t /\ pc' = place BY <1>2, <1>3 DEF SyncAndSend
<1>5. unsynced' = {"m_request"}
  <2>1. DOMAIN t = {1} /\ t[1][1] = "m_request" OBVIOUS
  <2>2. {t[i][1] : i \in DOMAIN t} = {"m_request"} BY <2>1
  <2> QED BY <1>1, <2>2 DEF SyncAndSend
<1>6. CMD7(address) # Transfer BY <1>1, CmdFacts
<1>7. CardTypes' BY <1>3, <1>4, <1>5 DEF CardInv, CardTypes, Objects
<1>8. UnsyncedOK' BY <1>3, <1>4, <1>5 DEF UnsyncedOK
<1>9. TransferOK' BY <1>1, <1>3, <1>4, <1>6 DEF TransferOK, CMD7, Transfer
<1>10. DeselectOK' BY <1>3, <1>4 DEF DeselectOK, Deselect, CMD7
<1> QED BY <1>7, <1>8, <1>9, <1>10 DEF CardInv

LEMMA TransferSteps ==
  ASSUME CardInv
  PROVE  /\ \A count : DeviceBlockTransfer(count) => CardInv'
         /\ \A aligned \in BOOLEAN : SyncPrevious(aligned) => CardInv'
         /\ SyncSelect \/ SyncTransfer => CardInv'
<1> USE DEF CardInv
<1>0. address \in {0, 1} BY DEF CardTypes
<1>1. ASSUME NEW count, DeviceBlockTransfer(count) PROVE CardInv'
  BY <1>1 DEF DeviceBlockTransfer, CardTypes, UnsyncedOK, TransferOK, DeselectOK, Transfer, Deselect, CMD7
<1>2. ASSUME NEW aligned \in BOOLEAN, SyncPrevious(aligned) PROVE CardInv'
  <2>1. Select \in Cmds /\ Select = CMD7(address) /\ Select # Transfer BY <1>0, CmdFacts
  <2>2. refused' \in BOOLEAN BY <1>2 DEF SyncPrevious, CardTypes
  <2>3. CASE refused' BY <1>2, <2>1, <2>2, <2>3, QuietSend DEF SyncPrevious
  <2>4. CASE ~refused' BY <1>2, <2>1, <2>2, <2>4, QuietSend DEF SyncPrevious
  <2> QED BY <2>3, <2>4
<1>3. CASE SyncSelect
  <2>1. Deselect \in Cmds /\ Deselect # Transfer /\ Transfer \in Cmds BY CmdFacts
  <2>2. refused' \in BOOLEAN BY <1>3 DEF SyncSelect, Kept, CardTypes
  <2>3. CASE SelectFails BY <1>3, <2>1, <2>2, <2>3, QuietSend DEF SyncSelect, Kept
  <2>4. CASE ~SelectFails
    <3>1. unsynced \subseteq {"m_request"} /\ Waits("m_request")
      BY <1>3, <2>4 DEF SyncSelect, UnsyncedOK, SyncAndSend
    <3>2. line = <<>> BY <3>1, WaitedFacts DEF Objects
    <3>3. block["m_request"].result = "OK"
      BY <2>4 DEF SelectFails, Fails, CardTypes, Objects
    <3>4. selected BY <1>3, <3>2, <3>3 DEF SyncSelect, TransferOK
    <3> QED BY <1>3, <2>1, <2>2, <2>4, <3>4, QuietSend DEF SyncSelect, Kept
  <2> QED BY <2>3, <2>4
<1>4. CASE SyncTransfer
  <2>1. Deselect \in Cmds /\ Deselect # Transfer /\ Transfer \in Cmds BY CmdFacts
  <2>2. refused' \in BOOLEAN BY <1>4 DEF SyncTransfer, CardTypes
  <2>3. selected BY <1>4 DEF SyncTransfer, TransferOK
  <2>4. \/ SyncAndSend("m_request", "idle", << <<"m_request", Deselect>> >>)
        \/ SyncAndSend("m_request", "data", << <<"m_request", Transfer>> >>)
    BY <1>4 DEF SyncTransfer, DeselectLast
  <2> QED BY <1>4, <2>1, <2>2, <2>3, <2>4, QuietSend DEF SyncTransfer
<1> QED BY <1>1, <1>2, <1>3, <1>4

LEMMA LeastFacts ==
  ASSUME NEW s, s \subseteq 1 .. 6, s # {}
  PROVE  \E x \in s : \A y \in s : x <= y
<1>1. CASE 1 \in s BY <1>1
<1>2. CASE 1 \notin s /\ 2 \in s BY <1>2
<1>3. CASE s \cap {1, 2} = {} /\ 3 \in s BY <1>3
<1>4. CASE s \cap {1, 2, 3} = {} /\ 4 \in s BY <1>4
<1>5. CASE s \cap {1, 2, 3, 4} = {} /\ 5 \in s BY <1>5
<1>6. CASE s \cap {1, 2, 3, 4, 5} = {}
  <2>1. \A x \in s : x = 6 BY <1>6
  <2>2. PICK x \in s : TRUE OBVIOUS
  <2>3. \A y \in s : x <= y BY <2>1
  <2> QED BY <2>3
<1> QED BY <1>1, <1>2, <1>3, <1>4, <1>5, <1>6

\* What Device_Init sends at first.
LEMMA TwoFacts ==
  ASSUME NEW a \in Entries, NEW b \in Entries, NEW t, t = << a, b >>,
         \A x \in {a, b} : x[1] \notin {"temporary", "m_request"} /\ x[2].cmd \notin {"CMD7", "data"}
  PROVE  /\ t \in Seq(Entries) /\ Len(t) <= 6 /\ NoTransfer(t) /\ LastDeselects(t)
         /\ LastBehind(t) /\ Within(t, Objects \ {"temporary"})
<1>1. t \in Seq(Entries) /\ Len(t) = 2 /\ \A i \in 1 .. 2 : t[i] \in {a, b} OBVIOUS
<1>2. ToSet(t) = {a, b} BY DEF ToSet
<1>3. \A x \in {a, b} : x[1] \in Objects /\ x[2] # Transfer BY DEF Entries, Transfer, Plain
<1> QED BY <1>1, <1>2, <1>3 DEF NoTransfer, LastDeselects, LastBehind, Within

\* What is sent while nothing is waited for, up to a request that is not synced.
LEMMA CardSend ==
  ASSUME CardInv, NEW place, NEW sent \in Seq(Entries), Len(sent) <= 6, Send(place, sent),
         Kept, address' = address,
         NoTransfer(sent), LastDeselects(sent), LastBehind(sent),
         \/ /\ pc \in {"idle", "send"} /\ place \in {"reset", "clock"}
            /\ Within(sent, Objects \ {"temporary"})
         \/ pc = "idle" /\ place = "available" /\ Within(sent, {"temporary"})
  PROVE  CardInv'
<1> DEFINE stops == {i \in DOMAIN sent : sent[i][1] \in unsynced}
           made  == IF stops = {} THEN sent ELSE SubSeq(sent, 1, Min(stops) - 1)
<1>1. /\ line' = line \o made /\ unsynced' = unsynced \cup {made[i][1] : i \in DOMAIN made}
      /\ pc' = IF stops = {} THEN place ELSE "halted"
  BY DEF Send
<1>2. made \in Seq(Entries) /\ ToSet(made) \subseteq ToSet(sent)
  <2>1. CASE stops = {} BY <2>1
  <2>2. CASE stops # {}
    <3>1. DOMAIN sent = 1 .. Len(sent) /\ Len(sent) \in Nat OBVIOUS
    <3>2. stops \subseteq 1 .. 6 BY <3>1
    <3>6. \E x \in stops : \A y \in stops : x <= y BY <2>2, <3>2, LeastFacts
    <3>3. Min(stops) \in 1 .. Len(sent) BY <3>1, <3>6 DEF Min
    <3> DEFINE n == Min(stops) - 1
    <3>4. made = SubSeq(sent, 1, n) BY <2>2
    <3>7. n \in 0 .. Len(sent)
      <4> HIDE DEF stops
      <4> QED BY <3>1, <3>3
    <3> HIDE DEF n, stops, made
    <3>5. /\ made \in Seq(Entries) /\ DOMAIN made = 1 .. n
          /\ \A i \in 1 .. n : made[i] = sent[i]
      BY <3>4, <3>7
    <3> QED BY <3>1, <3>5, <3>7 DEF ToSet
  <2> QED BY <2>1, <2>2
<1>3. {made[i][1] : i \in DOMAIN made} = {e[1] : e \in ToSet(made)} BY DEF ToSet
<1>4. line \in Seq(Entries) BY DEF CardInv, CardTypes
<1> HIDE DEF made, stops
<1>5. /\ line' \in Seq(Entries) /\ \A u : Within(line', u) <=> Within(line, u) /\ Within(made, u)
      /\ NoTransfer(line') <=> NoTransfer(line) /\ NoTransfer(made)
  BY <1>1, <1>2, <1>4, AppendFacts
<1>6. NoTransfer(made) /\ \A u : Within(sent, u) => Within(made, u)
  BY <1>2 DEF NoTransfer, Within
<1>7. ToSet(made) \subseteq Entries BY <1>2 DEF ToSet
<1>8. CardTypes' BY <1>1, <1>3, <1>5, <1>7 DEF CardInv, CardTypes, Kept, Entries
<1>9. UnsyncedOK'
  <2>1. Within(line', unsynced')
    <3>1. Within(line, unsynced') BY <1>1 DEF Within, CardInv, UnsyncedOK
    <3>2. Within(made, unsynced') BY <1>1, <1>3 DEF Within
    <3> QED BY <1>5, <3>1, <3>2
  <2>2. \A u : Within(made, u) => unsynced' \subseteq unsynced \cup u
    BY <1>1, <1>3 DEF Within
  <2>3. CASE pc' = "halted" \/ place # "available"
    <3>1. pc' \notin {"idle", "previous", "select", "data", "gone", "available"}
      BY <1>1, <2>3
    <3>2. "temporary" \notin unsynced BY DEF CardInv, UnsyncedOK
    <3>3. CASE place # "available"
      <4>1. Within(made, Objects \ {"temporary"}) BY <1>6, <3>3
      <4>2. "temporary" \notin unsynced' BY <2>2, <3>2, <4>1
      <4> QED BY <2>1, <3>1, <4>2 DEF UnsyncedOK
    <3>4. CASE place = "available" /\ pc' = "halted"
      <4>1. Within(sent, {"temporary"}) BY <3>4
      <4>2. stops = {} BY <3>2, <4>1 DEF stops, Within, ToSet
      <4> QED BY <1>1, <3>4, <4>2
    <3> QED BY <2>3, <3>3, <3>4
  <2>4. CASE pc' = "available" /\ place = "available"
    <3>1. unsynced \subseteq {"m_request"} /\ Within(made, {"temporary"})
      BY <1>6, <2>4 DEF CardInv, UnsyncedOK
    <3>2. unsynced' \subseteq {"m_request", "temporary"} BY <2>2, <3>1
    <3> QED BY <2>1, <2>4, <3>2 DEF UnsyncedOK
  <2> QED BY <1>1, <2>3, <2>4
<1>10. TransferOK' BY <1>1, <1>5, <1>6 DEF CardInv, TransferOK
<1>11. CASE stops # {} BY <1>1, <1>8, <1>9, <1>10, <1>11 DEF CardInv, DeselectOK
<1>12. CASE stops = {}
  <2>1. made = sent BY <1>12 DEF made
  <2>2. /\ NoLast(line') <=> NoLast(line) /\ NoLast(sent)
        /\ LastDeselects(line') <=> LastDeselects(line) /\ LastDeselects(sent)
        /\ LastBehind(line) => LastBehind(line')
    BY <1>1, <1>4, <2>1, AppendFacts
  <2>3. DeselectOK' BY <2>2 DEF CardInv, DeselectOK, Kept, Deselect, CMD7
  <2> QED BY <1>8, <1>9, <1>10, <2>3 DEF CardInv
<1> QED BY <1>11, <1>12

LEMMA InitSteps ==
  ASSUME CardInv, \/ DeviceInit \/ SyncReset \/ SyncStatus \/ SyncRead \/ SyncWrite \/ SendCommands
  PROVE  CardInv'
<1>0. {"reset", "status", "clock", "cmd 1", "cmd 2", "cmd 3", "cmd 4", "m_request", "temporary"}
        \subseteq Objects
  BY DEF Objects, Locals
<1>1. CASE DeviceInit
  <2> DEFINE a == <<"reset", Plain("reset")>>
             b == <<"status", Plain("status")>>
             sent == << a, b >>
  <2>1. pc = "idle" /\ Send("reset", sent) /\ Kept /\ address' = address
    BY <1>1 DEF DeviceInit
  <2>2. a \in Entries /\ b \in Entries BY <1>0, CmdFacts DEF Entries
  <2>3. \A x \in {a, b} : x[1] \notin {"temporary", "m_request"} /\ x[2].cmd \notin {"CMD7", "data"}
    BY DEF Plain
  <2> HIDE DEF a, b
  <2>4. /\ sent \in Seq(Entries) /\ Len(sent) <= 6 /\ NoTransfer(sent) /\ LastDeselects(sent)
        /\ LastBehind(sent) /\ Within(sent, Objects \ {"temporary"})
    BY <2>2, <2>3, TwoFacts
  <2> HIDE DEF sent
  <2> QED BY <2>1, <2>4, CardSend
<1>2. CASE SyncReset
  <2>1. pc = "reset" /\ Outside /\ Alone("reset") /\ Kept
    BY <1>2 DEF SyncReset, Outside, Alone, CardInv, UnsyncedOK
  <2>2. CASE Returns("reset") /\ address' = address BY <1>0, <2>1, <2>2, ReturnsStep
  <2>3. CASE address' = 1 /\ SyncAndSend("reset", "status", <<>>) BY <1>0, <2>1, <2>3, SyncedStep
  <2> QED BY <1>2, <2>2, <2>3 DEF SyncReset
<1>3. CASE SyncStatus
  <2>1. Outside /\ Alone("status") /\ Kept /\ address' = address
    BY <1>3 DEF SyncStatus, Outside, Alone, CardInv, UnsyncedOK
  <2>2. CASE Returns("status") BY <1>0, <2>1, <2>2, ReturnsStep
  <2>3. CASE SyncAndSend("status", "read", << <<"temporary", Plain("read")>> >>)
    BY <1>0, <2>1, <2>3, FollowStep
  <2> QED BY <1>3, <2>2, <2>3 DEF SyncStatus
<1>4. CASE SyncRead
  <2>1. Outside /\ Alone("temporary") /\ Kept /\ address' = address
    BY <1>4 DEF SyncRead, Outside, Alone
  <2>2. CASE Returns("temporary") BY <1>0, <2>1, <2>2, ReturnsStep
  <2>3. CASE SyncAndSend("temporary", "write", << <<"temporary", Plain("write")>> >>)
    BY <1>0, <2>1, <2>3, FollowStep
  <2> QED BY <1>4, <2>2, <2>3 DEF SyncRead
<1>5. CASE SyncWrite
  <2>1. Outside /\ Alone("temporary") /\ Kept /\ address' = address /\ address \in {0, 1}
    BY <1>5 DEF SyncWrite, Outside, Alone, CardInv, CardTypes
  <2>2. CASE Returns("temporary") BY <1>0, <2>1, <2>2, ReturnsStep
  <2>3. CASE SyncAndSend("temporary", "send", <<>>) BY <1>0, <2>1, <2>3, SyncedStep
  <2> QED BY <1>5, <2>2, <2>3 DEF SyncWrite
<1>6. CASE SendCommands
  <2> DEFINE s1 == <<"clock", Plain("clock")>>
             s2 == <<"cmd 1", Select>>
             s3 == <<"cmd 2", SetBlockLength>>
             s4 == <<"cmd 3", AppCommand>>
             s5 == <<"cmd 4", SetBusWidth>>
             s6 == <<"m_request", Deselect>>
             sent == << s1, s2, s3, s4, s5, s6 >>
             all == {s1, s2, s3, s4, s5, s6}
  <2>1. pc = "send" /\ Send("clock", sent) /\ Kept /\ address' = address
    BY <1>6 DEF SendCommands
  <2>2. {Select, SetBlockLength, Deselect, Plain("clock"), AppCommand, SetBusWidth} \subseteq Cmds
    BY CmdFacts DEF CardInv, CardTypes
  <2>3. s1 \in Entries /\ s2 \in Entries /\ s3 \in Entries /\ s4 \in Entries /\ s5 \in Entries /\ s6 \in Entries
    <3>1. \A x \in Objects, y \in Cmds : <<x, y>> \in Entries BY DEF Entries
    <3> QED BY <1>0, <2>2, <3>1
  <2>4. /\ s1[1] \notin {"temporary", "m_request"} /\ s1[2].cmd # "data"
        /\ s2[1] \notin {"temporary", "m_request"} /\ s2[2].cmd # "data"
        /\ s3[1] \notin {"temporary", "m_request"} /\ s3[2].cmd # "data"
        /\ s4[1] \notin {"temporary", "m_request"} /\ s4[2].cmd # "data"
        /\ s5[1] \notin {"temporary", "m_request"} /\ s5[2].cmd # "data"
        /\ s6[1] = "m_request" /\ s6[2] = Deselect
    BY DEF Plain, Select, SetBlockLength, AppCommand, SetBusWidth, CMD7
  <2> HIDE DEF s1, s2, s3, s4, s5, s6
  <2>5. sent \in Seq(Entries) /\ Len(sent) = 6 BY <2>3
  <2>6. /\ sent[1] = s1 /\ sent[2] = s2 /\ sent[3] = s3 /\ sent[4] = s4 /\ sent[5] = s5 /\ sent[6] = s6
        /\ DOMAIN sent = {1, 2, 3, 4, 5, 6}
    BY <2>5
  <2> HIDE DEF sent
  <2>7. ToSet(sent) = all BY <2>6 DEF ToSet
  <2>8. \A x \in all : x[1] \in Objects \ {"temporary"} /\ x[2] # Transfer
                       /\ (x[1] = "m_request" => x[2] = Deselect)
    BY <2>3, <2>4 DEF Entries, Transfer, Plain, Deselect, CMD7
  <2> HIDE DEF all
  <2>9. LastBehind(sent)
    <3> SUFFICES ASSUME NEW i \in 1 .. Len(sent), sent[i][1] # "m_request"
                 PROVE  \E j \in 1 .. Len(sent) : i < j /\ sent[j][1] = "m_request"
      BY DEF LastBehind
    <3>1. i # 6 /\ sent[6][1] = "m_request" BY <2>4, <2>6
    <3>2. i < 6 /\ 6 \in 1 .. Len(sent) BY <2>5, <3>1
    <3> QED BY <3>1, <3>2
  <2>10. NoTransfer(sent) BY <2>7, <2>8 DEF NoTransfer
  <2>11. LastDeselects(sent) BY <2>7, <2>8 DEF LastDeselects
  <2>12. Within(sent, Objects \ {"temporary"}) BY <2>7, <2>8 DEF Within
  <2>13. Len(sent) <= 6 BY <2>5
  <2> QED BY <2>1, <2>5, <2>9, <2>10, <2>11, <2>12, <2>13, CardSend
<1> QED BY <1>1, <1>2, <1>3, <1>4, <1>5, <1>6

LEMMA CommandSteps ==
  ASSUME CardInv, NEW r \in {"clock", "cmd 1", "cmd 2", "cmd 3", "cmd 4"},
         NEW next \in {"cmd 1", "cmd 2", "cmd 3", "cmd 4", "idle"}, SyncCommands(r, next)
  PROVE  CardInv'
<1>1. r \in Objects BY DEF Objects, Locals
<1>2. pc = r /\ Outside /\ Alone(r) /\ Kept /\ address' = address /\ address \in {0, 1}
  BY DEF SyncCommands, Outside, Alone, CardInv, UnsyncedOK, CardTypes
<1>3. CASE Returns(r) BY <1>1, <1>2, <1>3, ReturnsStep
<1>4. CASE next # "idle" /\ SyncAndSend(r, next, <<>>) BY <1>1, <1>2, <1>4, SyncedStep
<1> QED BY <1>3, <1>4 DEF SyncCommands

LEMMA IdleSteps ==
  ASSUME CardInv, DeviceAvailable \/ SyncAvailable \/ ReserveBlockBuffer \/ Destroy
  PROVE  CardInv'
<1>0. "temporary" \in Objects /\ "m_request" \in Objects BY DEF Objects
<1>1. CASE DeviceAvailable
  <2> DEFINE sent == << <<"temporary", Plain("status")>> >>
  <2>1. Plain("status") \in Cmds /\ Plain("status").cmd # "CMD7" /\ Plain("status") # Transfer
    BY CmdFacts
  <2>2. /\ sent \in Seq(Entries) /\ Within(sent, {"temporary"}) /\ NoTransfer(sent)
        /\ LastDeselects(sent) /\ LastBehind(sent)
    BY <1>0, <2>1, OneFacts
  <2>3. Len(sent) <= 6 OBVIOUS
  <2>4. pc = "idle" /\ Send("available", sent) /\ Kept /\ address' = address
    BY <1>1 DEF DeviceAvailable
  <2> HIDE DEF sent
  <2> QED BY <2>2, <2>3, <2>4, CardSend
<1>2. CASE SyncAvailable
  <2>1. line' = line /\ unsynced' = unsynced \ {"temporary"} /\ pc' = "idle" /\ pc = "available"
    BY <1>2 DEF SyncAvailable, SyncAndSend, CardInv, CardTypes
  <2>2. Within(line, unsynced \ {"temporary"})
    BY <1>0, <1>2, WaitedFacts DEF SyncAvailable, SyncAndSend
  <2>3. Kept /\ address' = address BY <1>2 DEF SyncAvailable
  <2>4. CardTypes' BY <2>1, <2>3 DEF CardInv, CardTypes, Kept
  <2>5. UnsyncedOK' BY <2>1, <2>2 DEF CardInv, UnsyncedOK
  <2>6. TransferOK' BY <2>1, <2>3 DEF CardInv, TransferOK
  <2>7. DeselectOK' BY <2>1, <2>3 DEF CardInv, DeselectOK, Kept
  <2> QED BY <2>4, <2>5, <2>6, <2>7 DEF CardInv
<1>3. CASE ReserveBlockBuffer
  BY <1>3 DEF ReserveBlockBuffer, CardInv, CardTypes, UnsyncedOK, TransferOK, DeselectOK
<1>4. CASE Destroy
  <2>1. line' = line /\ unsynced' = unsynced \ {"m_request"} /\ pc' = "gone" /\ pc = "idle"
    BY <1>4 DEF Destroy, SyncAndSend, CardInv, CardTypes
  <2>2. Within(line, unsynced \ {"m_request"}) BY <1>0, <1>4, WaitedFacts DEF Destroy, SyncAndSend
  <2>3. Kept /\ address' = address BY <1>4 DEF Destroy
  <2>4. CardTypes' BY <2>1, <2>3 DEF CardInv, CardTypes, Kept
  <2>5. UnsyncedOK' BY <2>1, <2>2 DEF CardInv, UnsyncedOK
  <2>6. TransferOK' BY <2>1, <2>3 DEF CardInv, TransferOK
  <2>7. DeselectOK' BY <2>1, <2>3 DEF CardInv, DeselectOK, Kept
  <2> QED BY <2>4, <2>5, <2>6, <2>7 DEF CardInv
<1> QED BY <1>1, <1>2, <1>3, <1>4

LEMMA TailFacts ==
  ASSUME NEW s \in Seq(Entries), s # <<>>
  PROVE  /\ Tail(s) \in Seq(Entries) /\ Head(s) \in Entries
         /\ ToSet(s) = {Head(s)} \cup ToSet(Tail(s))
         /\ LastBehind(s) => /\ LastBehind(Tail(s))
                             /\ Head(s)[1] # "m_request" /\ Head(s)[2].cmd = "CMD7" => ~NoLast(Tail(s))
<1> DEFINE q == Tail(s)
<1>1. /\ q \in Seq(Entries) /\ Len(s) = Len(q) + 1 /\ Len(q) \in Nat
      /\ \A i \in 1 .. Len(q) : q[i] = s[i + 1] /\ i + 1 \in 1 .. Len(s)
      /\ Head(s) = s[1] /\ s[1] \in Entries /\ 1 \in 1 .. Len(s)
  OBVIOUS
<1> HIDE DEF q
<1>2. \A i \in 1 .. Len(s) : i = 1 \/ (i - 1 \in 1 .. Len(q) /\ q[i - 1] = s[i])
  <2> SUFFICES ASSUME NEW i \in 1 .. Len(s), i # 1 PROVE i - 1 \in 1 .. Len(q) /\ q[i - 1] = s[i]
    OBVIOUS
  <2>1. i - 1 \in 1 .. Len(q) /\ (i - 1) + 1 = i BY <1>1
  <2> QED BY <1>1, <2>1
<1>3. ToSet(s) = {Head(s)} \cup ToSet(q)
  <2>1. ToSet(s) = {s[i] : i \in 1 .. Len(s)} /\ ToSet(q) = {q[i] : i \in 1 .. Len(q)}
    <3>1. DOMAIN s = 1 .. Len(s) /\ DOMAIN q = 1 .. Len(q) BY <1>1
    <3> QED BY <3>1 DEF ToSet
  <2>2. \A i \in 1 .. Len(s) : s[i] \in {Head(s)} \cup ToSet(q) BY <1>1, <1>2, <2>1
  <2>3. \A i \in 1 .. Len(q) : q[i] \in ToSet(s) BY <1>1, <2>1
  <2>4. Head(s) \in ToSet(s) BY <1>1, <2>1
  <2>5. ToSet(s) \subseteq {Head(s)} \cup ToSet(q) BY <2>1, <2>2
  <2>6. ToSet(q) \subseteq ToSet(s) BY <2>1, <2>3
  <2> QED BY <2>4, <2>5, <2>6
<1>4. ASSUME LastBehind(s) PROVE LastBehind(q)
  <2> SUFFICES ASSUME NEW i \in 1 .. Len(q), q[i][1] # "m_request", q[i][2].cmd = "CMD7"
               PROVE  \E j \in 1 .. Len(q) : i < j /\ q[j][1] = "m_request"
    BY DEF LastBehind
  <2>1. PICK k \in 1 .. Len(s) : i + 1 < k /\ s[k][1] = "m_request"
    BY <1>1, <1>4 DEF LastBehind
  <2>2. k # 1 /\ i < k - 1 BY <1>1, <2>1
  <2> QED BY <1>2, <2>1, <2>2
<1>5. ASSUME LastBehind(s), Head(s)[1] # "m_request", Head(s)[2].cmd = "CMD7" PROVE ~NoLast(q)
  <2>1. PICK k \in 1 .. Len(s) : 1 < k /\ s[k][1] = "m_request" BY <1>1, <1>5 DEF LastBehind
  <2>2. k - 1 \in 1 .. Len(q) /\ q[k - 1][1] = "m_request" BY <1>2, <2>1
  <2>3. q[k - 1] \in ToSet(q) BY <1>1, <2>2 DEF ToSet
  <2> QED BY <2>2, <2>3 DEF NoLast
<1> QED BY <1>1, <1>3, <1>4, <1>5 DEF q

\* A transfer is asked for only of a card that is selected.
LEMMA CardAnswer ==
  ASSUME CardInv, Answer
  PROVE  CardInv' /\ (Head(line)[2] = Transfer => selected)
<1> DEFINE r == Head(line)[1]
           c == Head(line)[2]
<1>1. line \in Seq(Entries) /\ line # <<>> BY DEF Answer, CardInv, CardTypes
<1>2. /\ line' = Tail(line) /\ line' \in Seq(Entries) /\ r \in Objects /\ c \in Cmds
      /\ ToSet(line) = {Head(line)} \cup ToSet(line')
      /\ LastBehind(line) => LastBehind(line') /\ (r # "m_request" /\ c.cmd = "CMD7" => ~NoLast(line'))
  BY <1>1, TailFacts DEF Answer, Entries
<1>3. Head(line) \in ToSet(line) /\ ToSet(line') \subseteq ToSet(line) BY <1>2
<1>4. pc' = pc /\ unsynced' = unsynced /\ address' = address /\ refused' = refused
  BY DEF Answer
<1>5. PICK a \in {"OK", "ERROR"} :
        /\ block' = [block EXCEPT ![r] = [command |-> c, result |-> a]]
        /\ selected' = IF c.cmd = "CMD7" /\ a = "OK" THEN c.address # 0 ELSE selected
  BY DEF Answer
<1> HIDE DEF r, c
<1>6. CardTypes'
  <2>1. block' \in [Objects -> [command : Cmds, result : {"OK", "ERROR"}]]
    BY <1>2, <1>5 DEF CardInv, CardTypes
  <2>2. selected' \in BOOLEAN BY <1>5 DEF CardInv, CardTypes
  <2> QED BY <1>2, <1>4, <2>1, <2>2 DEF CardInv, CardTypes
<1>7. UnsyncedOK' BY <1>3, <1>4 DEF CardInv, UnsyncedOK, Within
<1>8. CASE pc = "select"
  <2>1. line = << <<"m_request", CMD7(address)>> >> /\ address # 0
    BY <1>1, <1>8 DEF CardInv, TransferOK
  <2>2. r = "m_request" /\ c = CMD7(address) /\ line' = <<>> BY <1>2, <2>1 DEF r, c
  <2>3. block'["m_request"].result = a
    BY <1>5, <2>2 DEF CardInv, CardTypes, Objects
  <2>4. a = "OK" => selected' BY <1>5, <2>1, <2>2 DEF CMD7
  <2>5. TransferOK' BY <1>4, <1>8, <2>1, <2>2, <2>3, <2>4, EmptyFacts DEF TransferOK
  <2>6. c # Transfer BY <2>2 DEF CMD7, Transfer, Plain
  <2> QED BY <1>4, <1>6, <1>7, <1>8, <2>5, <2>6 DEF CardInv, DeselectOK, c
<1>9. CASE pc = "data"
  <2>1. line = << <<"m_request", Transfer>> >> /\ selected /\ address # 0
    BY <1>1, <1>9 DEF CardInv, TransferOK
  <2>2. c = Transfer /\ line' = <<>> BY <1>2, <2>1 DEF c
  <2>3. selected' BY <1>5, <2>1, <2>2 DEF Transfer, Plain
  <2>4. TransferOK' BY <1>4, <1>9, <2>1, <2>2, <2>3 DEF TransferOK
  <2> QED BY <1>4, <1>6, <1>7, <1>9, <2>1, <2>4 DEF CardInv, DeselectOK
<1>10. CASE pc \notin {"select", "data"}
  <2>1. c # Transfer BY <1>3, <1>10 DEF CardInv, TransferOK, NoTransfer, c
  <2>2. TransferOK' BY <1>3, <1>4, <1>10 DEF CardInv, TransferOK, NoTransfer
  <2>3. CASE pc = "halted" BY <1>4, <1>6, <1>7, <2>1, <2>2, <2>3 DEF CardInv, DeselectOK, c
  <2>4. CASE pc # "halted"
    <3>1. (~refused => LastDeselects(line)) /\ LastBehind(line)
      BY <1>10, <2>4 DEF CardInv, DeselectOK
    <3>2. ~refused => LastDeselects(line') BY <1>3, <3>1 DEF LastDeselects
    <3>3. LastBehind(line') /\ (r # "m_request" /\ c.cmd = "CMD7" => ~NoLast(line'))
      BY <1>2, <3>1
    <3>4. ASSUME ~refused, selected', NoLast(line')
          PROVE  block'["m_request"] = [command |-> Deselect, result |-> "ERROR"]
      <4>1. CASE r = "m_request"
        <5>1. c = Deselect BY <1>3, <3>1, <3>4, <4>1 DEF LastDeselects, r, c
        <5>2. a = "ERROR" BY <1>5, <3>4, <5>1 DEF Deselect, CMD7
        <5> QED BY <1>5, <4>1, <5>1, <5>2 DEF CardInv, CardTypes, Objects
      <4>2. CASE r # "m_request"
        <5>1. selected BY <1>5, <3>3, <3>4, <4>2
        <5>2. NoLast(line) BY <1>2, <3>4, <4>2 DEF NoLast, r
        <5>3. block'["m_request"] = block["m_request"]
          BY <1>5, <4>2 DEF CardInv, CardTypes, Objects
        <5> QED BY <1>10, <2>4, <3>4, <5>1, <5>2, <5>3 DEF CardInv, DeselectOK
      <4> QED BY <4>1, <4>2
    <3>5. DeselectOK' BY <1>4, <3>2, <3>3, <3>4 DEF DeselectOK, Deselect, CMD7
    <3> QED BY <1>6, <1>7, <2>1, <2>2, <3>5 DEF CardInv, c
  <2> QED BY <2>3, <2>4
<1> QED BY <1>8, <1>9, <1>10

LEMMA CardStep ==
  CardInv /\ [CardNext]_cardVars =>
    /\ CardInv'
    /\ [Answer /\ Head(line)[2] = Transfer => selected]_cardVars
<1> SUFFICES ASSUME CardInv, [CardNext]_cardVars
             PROVE  CardInv' /\ (Answer /\ Head(line)[2] = Transfer => selected)
  OBVIOUS
<1>1. Answer /\ Head(line)[2] = Transfer => selected BY CardAnswer
<1>2. ASSUME UNCHANGED cardVars PROVE CardInv'
  <2>1. CardTypes' BY <1>2 DEF cardVars, CardInv, CardTypes
  <2>2. UnsyncedOK' BY <1>2 DEF cardVars, CardInv, UnsyncedOK
  <2>3. TransferOK' BY <1>2 DEF cardVars, CardInv, TransferOK
  <2>4. DeselectOK' BY <1>2 DEF cardVars, CardInv, DeselectOK
  <2> QED BY <2>1, <2>2, <2>3, <2>4 DEF CardInv
<1>3. DeviceInit \/ SyncReset \/ SyncStatus \/ SyncRead \/ SyncWrite \/ SendCommands => CardInv'
  BY InitSteps
<1>4. ASSUME \/ SyncCommands("clock", "cmd 1") \/ SyncCommands("cmd 1", "cmd 2")
             \/ SyncCommands("cmd 2", "cmd 3") \/ SyncCommands("cmd 3", "cmd 4")
             \/ SyncCommands("cmd 4", "idle")
      PROVE  CardInv'
  <2>1. PICK r \in {"clock", "cmd 1", "cmd 2", "cmd 3", "cmd 4"},
             next \in {"cmd 1", "cmd 2", "cmd 3", "cmd 4", "idle"} : SyncCommands(r, next)
    BY <1>4
  <2> QED BY <2>1, CommandSteps
<1>5. /\ \A count : DeviceBlockTransfer(count) => CardInv'
      /\ \A aligned \in BOOLEAN : SyncPrevious(aligned) => CardInv'
      /\ SyncSelect \/ SyncTransfer => CardInv'
  BY TransferSteps
<1>6. DeviceAvailable \/ SyncAvailable \/ ReserveBlockBuffer \/ Destroy => CardInv' BY IdleSteps
<1>7. Answer => CardInv' BY CardAnswer
<1> QED BY <1>1, <1>2, <1>3, <1>4, <1>5, <1>6, <1>7 DEF CardNext

\* What is in the line of IOS, and which requests have synced, at each place of
\* Device_Init and Device_BlockTransfer (Card.cpp:24-162).
THEOREM CardInvAlways == CardSpec => []CardInv
<1>1. CardInv /\ [CardNext]_cardVars => CardInv' BY CardStep
<1> QED BY CardStart, <1>1, PTL DEF CardSpec

\* For transfers of any length, a block of the card is transferred only while
\* the card is selected, whatever failed before (Card.cpp:90-146).
THEOREM CardSelectedForData == CardSpec => SelectedForData
<1>1. CardInv /\ [CardNext]_cardVars => [Answer /\ Head(line)[2] = Transfer => selected]_cardVars
  BY CardStep
<1> QED BY CardInvAlways, <1>1, PTL DEF CardSpec, SelectedForData

\* When a call has returned and IOS has answered all of it, the card is not
\* selected, unless it failed to be deselected or the transfer was refused
\* (Card.cpp:103-155).
THEOREM CardLeftDeselected == CardSpec => []LeavesDeselected
<1>1. CardInv => LeavesDeselected BY EmptyFacts DEF CardInv, DeselectOK, LeavesDeselected
<1> QED BY CardInvAlways, <1>1, PTL

-----------------------------------------------------------------------------
(* The parts *)

\* A behaviour of the machine is one of each of its parts.
LEMMA PartsApart == MachineSpec => Spec /\ Req!Spec /\ CardSpec
<1>1. MachineInit => Init /\ Req!Init /\ CardInit BY DEF MachineInit
<1>2. [MachineNext]_<<part, vars, Req!vars, cardVars>>
        => [Next]_vars /\ [Req!Next]_Req!vars /\ [CardNext]_cardVars
  BY DEF MachineNext, Req!vars
<1> QED BY <1>1, <1>2, PTL DEF MachineSpec, Spec, Req!Spec, CardSpec

\* In every behaviour of the machine, threads have registers of their own,
\* calls of IOS act on what the caller gave and give back what IOS answered,
\* and the card is selected for blocks and deselected after them.
THEOREM MachineImplements ==
  MachineSpec => ImplementsOwnRegisters /\ ImplementsIosCall /\ SelectedForData /\ []LeavesDeselected
BY PartsApart, RegistersOwn, CallsImplemented, CardSelectedForData, CardLeftDeselected
==============================================================================
