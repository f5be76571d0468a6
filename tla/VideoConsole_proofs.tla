------------------------ MODULE VideoConsole_proofs ------------------------
(* The lock of the console admits one processor at a time, for any numbers *)
(* of turns and any skew that SkewAssumption allows; and the rows of the   *)
(* two processors stay apart.                                              *)
EXTENDS VideoConsole, FiniteSetTheorems, TLAPS

\* The variables of the lock alone; the rest of the console is not read by it.
LockTypes ==
  /\ lock \subseteq Cpu
  /\ at \in [Cpu -> {"out", "read", "write", "in"}]
  /\ turn \in [Cpu -> Nat]
  /\ lag \in [Cpu -> Nat]

IInv == LockTypes /\ LockInv

\* The processors are two, and each is the other's other.
LEMMA TwoCpus ==
  /\ Cpu = {"ppc", "ios"}
  /\ Other("ppc") = "ios" /\ Other("ios") = "ppc"
  /\ Turns["ppc"] \in Nat \ {0, 1} /\ Turns["ios"] \in Nat \ {0, 1}
  /\ Skew["ppc"] = 1 /\ Skew["ios"] \in Nat /\ Skew["ios"] < Turns["ppc"]
  BY ConsoleAssumption, SkewAssumption DEF Cpu, Other

\* Init establishes the invariant: nobody is in lock() and no bit is set.
LEMMA InitInv == Init => IInv
  BY TwoCpus DEF Init, IInv, LockTypes, LockInv, WordOK, InOK, WriteOK, ReadOK,
                 Cpu, Locking

\* What the time that a step of the PowerPC takes does to the lags.
LEMMA PpcTime ==
  ASSUME LockTypes, InTime("ppc")
  PROVE  /\ lag' \in [Cpu -> Nat]
         /\ lag'["ppc"] = 0
         /\ lag'["ios"] = IF at["ios"] \in {"read", "write"}
                          THEN lag["ios"] + 1 ELSE 0
         /\ at["ios"] \in {"read", "write"} => lag["ios"] < Skew["ios"]
  BY TwoCpus DEF LockTypes, InTime, Locking, Cpu

\* The same for a step of IOS: one of them is all the PowerPC lets it take.
LEMMA IosTime ==
  ASSUME LockTypes, InTime("ios")
  PROVE  /\ lag' \in [Cpu -> Nat]
         /\ lag'["ios"] = 0
         /\ lag'["ppc"] = IF at["ppc"] \in {"read", "write"}
                          THEN lag["ppc"] + 1 ELSE 0
         /\ at["ppc"] \in {"read", "write"} => lag["ppc"] = 0
  BY TwoCpus DEF LockTypes, InTime, Locking, Cpu

\* What the invariant says of each of the two, and the ranges of the variables.
LEMMA EachCpu ==
  ASSUME IInv
  PROVE  /\ lock \in {{}, {"ppc"}, {"ios"}}
         /\ lock = {"ppc"} => at["ppc"] # "out" /\ turn["ppc"] > 0
         /\ lock = {"ios"} => at["ios"] # "out" /\ turn["ios"] > 0
         /\ lock = {} => /\ at["ppc"] \in {"read", "write"} => turn["ppc"] = 0
                         /\ at["ios"] \in {"read", "write"} => turn["ios"] = 0
         /\ at["ppc"] \in {"out", "read", "write", "in"}
         /\ at["ios"] \in {"out", "read", "write", "in"}
         /\ turn["ppc"] \in Nat /\ turn["ios"] \in Nat
         /\ lag["ppc"] \in Nat /\ lag["ios"] \in Nat
  BY TwoCpus DEF IInv, LockTypes, LockInv, WordOK, Locking

\* With IOS at its first write the PowerPC is not far.
LEMMA FirstWrite ==
  ASSUME IInv, at["ios"] = "write", turn["ios"] = 0, at["ppc"] = "write"
  PROVE  lock # {"ios"} /\ 2 * turn["ppc"] <= lag["ios"]
<1>1. lock # {"ios"} BY EachCpu
<1>2. CASE lock = {}
  <2>1. turn["ppc"] = 0
    BY <1>2, TwoCpus DEF IInv, LockInv, WordOK, Locking
  <2>2. lag["ios"] \in Nat BY EachCpu
  <2> QED BY <1>1, <2>1, <2>2
<1>3. CASE lock = {"ppc"}
  BY <1>1, <1>3, EachCpu DEF IInv, LockInv, WriteOK
<1> QED BY <1>1, <1>2, <1>3, EachCpu

\* A step of the PowerPC, by what it does to the lock.
LEMMA PpcSteps ==
  ASSUME IInv, StartPrint("ppc") \/ Step("ppc") PROVE IInv'
<1> USE TwoCpus, PpcTime, EachCpu
<1> USE DEF IInv, LockTypes, LockInv, WordOK, InOK, WriteOK, ReadOK, Locking, Goes
<1>1. CASE StartPrint("ppc")   BY <1>1 DEF StartPrint
<1>2. CASE LockRead("ppc")   BY <1>2 DEF LockRead
<1>3. CASE LockWrite("ppc")
  <2>1. LockTypes' BY <1>3 DEF LockWrite
  <2>2. /\ at["ppc"] = "write" /\ lock' = {"ppc"}
        /\ at'["ppc"] = IF turn["ppc"] + 1 < Turns["ppc"] THEN "read" ELSE "in"
        /\ at'["ios"] = at["ios"]
        /\ turn'["ppc"] = turn["ppc"] + 1 /\ turn'["ios"] = turn["ios"]
        /\ InTime("ppc")
    BY <1>3 DEF LockWrite
  <2>3. WordOK' BY <1>3 DEF LockWrite
  <2>4. at["ios"] # "in" BY <2>2
  <2>5. at["ios"] = "write" => at'["ppc"] = "read"
    <3> SUFFICES ASSUME at["ios"] = "write" PROVE at'["ppc"] = "read"
      BY <2>2
    <3>1. turn["ios"] = 0 BY <2>2
    <3>2. 2 * turn["ppc"] <= lag["ios"] BY <3>1, <2>2, FirstWrite
    <3>3. lag["ios"] < Skew["ios"] BY <2>2
    <3> QED BY <3>2, <3>3, <2>2
  <2>6. InOK' BY <2>2, <2>4, <2>5
  <2>7. WriteOK'
    <3> SUFFICES ASSUME at["ios"] = "write"
                 PROVE  /\ turn["ios"] = 0 /\ at'["ppc"] = "read"
                        /\ 2 * turn'["ppc"] <= lag'["ios"] + 1
      BY <2>2
    <3>1. turn["ios"] = 0 BY <2>2
    <3>2. 2 * turn["ppc"] <= lag["ios"] BY <3>1, <2>2, FirstWrite
    <3>3. lag'["ios"] = lag["ios"] + 1 BY <2>2
    <3> QED BY <3>1, <3>2, <3>3, <2>2, <2>5
  <2>8. ReadOK' BY <2>2
  <2> QED BY <2>1, <2>3, <2>6, <2>7, <2>8
<1>4. CASE PrintChar("ppc")   BY <1>4 DEF PrintChar
<1>5. CASE Unlock("ppc")   BY <1>5 DEF Unlock
<1> QED BY <1>1, <1>2, <1>3, <1>4, <1>5 DEF Step

\* A step of IOS.
LEMMA IosSteps ==
  ASSUME IInv, StartPrint("ios") \/ Step("ios") PROVE IInv'
<1> USE TwoCpus, IosTime, EachCpu
<1> USE DEF IInv, LockTypes, LockInv, WordOK, InOK, WriteOK, ReadOK, Locking, Goes
<1>1. CASE StartPrint("ios")   BY <1>1 DEF StartPrint
<1>2. CASE LockRead("ios")
  <2>1. LockTypes' BY <1>2 DEF LockRead
  <2>2. /\ at["ios"] = "read" /\ UNCHANGED lock
        /\ at'["ppc"] = at["ppc"] /\ turn'["ppc"] = turn["ppc"]
        /\ IF "ppc" \in lock THEN at'["ios"] = "read" /\ turn'["ios"] = 0
           ELSE at'["ios"] = "write" /\ turn'["ios"] = turn["ios"]
        /\ InTime("ios")
    BY <1>2 DEF LockRead
  <2>3. WordOK' BY <1>2 DEF LockRead
  <2>4. InOK' BY <2>2
  <2>5. WriteOK'
    <3> SUFFICES ASSUME at'["ios"] = "write"
                 PROVE  /\ lock # {"ppc"}
                        /\ turn["ios"] > 0 => /\ lock = {"ios"}
                                             /\ at["ppc"] \in {"out", "read"}
      BY <2>2
    <3>1. lock # {"ppc"} /\ turn'["ios"] = turn["ios"] BY <2>2
    <3>2. ASSUME turn["ios"] > 0
          PROVE  lock = {"ios"} /\ at["ppc"] \in {"out", "read"}
      <4>1. lock = {"ios"}
        <5>1. lock # {} BY <3>2, <2>2, EachCpu
        <5> QED BY <5>1, <3>1, EachCpu
      <4>2. at["ppc"] # "in" BY <4>1
      <4>3. at["ppc"] # "write" BY <4>1, <3>2, <2>2
      <4> QED BY <4>1, <4>2, <4>3
    <3> QED BY <3>1, <3>2
  <2>6. ReadOK' BY <2>2
  <2> QED BY <2>1, <2>3, <2>4, <2>5, <2>6
<1>3. CASE LockWrite("ios")
  <2>1. LockTypes' BY <1>3 DEF LockWrite
  <2>2. /\ at["ios"] = "write" /\ lock' = {"ios"}
        /\ at'["ios"] = IF turn["ios"] + 1 < Turns["ios"] THEN "read" ELSE "in"
        /\ at'["ppc"] = at["ppc"]
        /\ turn'["ios"] = turn["ios"] + 1 /\ turn'["ppc"] = turn["ppc"]
        /\ InTime("ios")
    BY <1>3 DEF LockWrite
  <2>3. WordOK' BY <1>3 DEF LockWrite
  <2>4. InOK' BY <2>2
  <2>5. WriteOK' BY <2>2
  <2>6. ReadOK'
    <3> SUFFICES ASSUME at["ppc"] = "write"
                 PROVE  /\ lag'["ppc"] = 1 /\ lag'["ios"] = 0
                        /\ 2 * turn["ppc"] <= Skew["ios"]
      BY <2>2
    <3>1. turn["ios"] = 0 BY <2>2
    <3>2. 2 * turn["ppc"] <= lag["ios"] BY <3>1, <2>2, FirstWrite
    <3>3. lag["ios"] <= Skew["ios"] OBVIOUS
    <3> QED BY <3>2, <3>3, <2>2
  <2> QED BY <2>1, <2>3, <2>4, <2>5, <2>6
<1>4. CASE PrintChar("ios")   BY <1>4 DEF PrintChar
<1>5. CASE Unlock("ios")   BY <1>5 DEF Unlock
<1> QED BY <1>1, <1>2, <1>3, <1>4, <1>5 DEF Step

\* No step of either processor breaks the invariant.
LEMMA StepInv == IInv /\ [Next]_vars => IInv'
<1> SUFFICES ASSUME IInv, [Next]_vars PROVE IInv'
  OBVIOUS
<1>1. CASE Next
  <2>1. PICK c \in Cpu : StartPrint(c) \/ Step(c) BY <1>1 DEF Next
  <2>2. c = "ppc" \/ c = "ios" BY TwoCpus
  <2> QED BY <2>1, <2>2, PpcSteps, IosSteps
<1>2. CASE UNCHANGED vars
  BY <1>2 DEF vars, IInv, LockTypes, LockInv, WordOK, InOK, WriteOK, ReadOK,
              Locking
<1> QED BY <1>1, <1>2

\* The bits of the word, the turns and the lags are at every moment what
\* LockInv says.
THEOREM ConsoleLockInv == Spec => []IInv
  BY InitInv, StepInv, PTL DEF Spec

\* The two processors are never in the console together.
THEOREM ConsoleExclusive == Spec => []OneInside
<1>1. IInv => OneInside
  BY DEF IInv, LockInv, InOK, OneInside
<1> QED BY <1>1, ConsoleLockInv, PTL

----------------------------------------------------------------------------
(* The rows of the screen.                                                 *)

\* The console as printChar sees it.
Console == [row : [Cpu -> Int], screen : [Screen -> SUBSET Cpu],
            line : [col : Int, newline : BOOLEAN]]

\* A processor has printed on no row below its own, its own row shows nothing
\* of the other, and the two are apart as soon as something can be printed.
RowsApart(s) ==
  /\ \A r \in Screen : \A c \in s.screen[r] : r <= s.row[c]
  /\ \A c \in Cpu : s.row[c] \in Screen => Other(c) \notin s.screen[s.row[c]]
  /\ s.row["ppc"] = s.row["ios"] => s.row["ppc"] < 0
  /\ \A r \in Screen : ~("ppc" \in s.screen[r] /\ "ios" \in s.screen[r])

Shown(l) == [row |-> row, screen |-> screen, line |-> l]

RowsInv ==
  /\ row \in [Cpu -> Int]
  /\ screen \in [Screen -> SUBSET Cpu]
  /\ line \in [Cpu -> [col : Int, newline : BOOLEAN]]
  /\ \A c \in Cpu : RowsApart(Shown(line[c]))

Good(s) == s \in Console /\ RowsApart(s)

\* A change of the line alone leaves the rows as they are.
LEMMA LineOnly ==
  ASSUME NEW s, Good(s), NEW l \in [col : Int, newline : BOOLEAN]
  PROVE  Good([s EXCEPT !.line = l])
<1>1. [s EXCEPT !.line = l] \in Console BY DEF Good, Console
<1>2. /\ [s EXCEPT !.line = l].row = s.row
      /\ [s EXCEPT !.line = l].screen = s.screen
  BY DEF Good, Console
<1> QED BY <1>1, <1>2 DEF Good, RowsApart

\* incrementRow takes a processor to a row below all that the two have shown.
LEMMA RowIncremented ==
  ASSUME NEW s, Good(s), NEW c \in Cpu
  PROVE  Good(incrementRow(s, c)) /\ incrementRow(s, c).line = s.line
<1> DEFINE t == incrementRow(s, c)
<1>0. Other(c) \in Cpu /\ Other(c) # c /\ \A d \in Cpu : d = c \/ d = Other(c)
  BY TwoCpus
<1>1. s.row[c] \in Int /\ s.row[Other(c)] \in Int
  BY <1>0 DEF Good, Console
<1>2. /\ t \in Console /\ t.screen = s.screen /\ t.line = s.line
      /\ t.row[Other(c)] = s.row[Other(c)]
      /\ t.row[c] > s.row[c] /\ t.row[c] > s.row[Other(c)]
  BY <1>0, <1>1 DEF Good, Console, incrementRow
<1>3. \A r \in Screen : \A d \in t.screen[r] : r <= t.row[d]
  <2> SUFFICES ASSUME NEW r \in Screen, NEW d \in t.screen[r]
               PROVE  r <= t.row[d]
    OBVIOUS
  <2>1. d \in Cpu BY <1>2 DEF Console
  <2>2. r <= s.row[d] BY <1>2 DEF Good, RowsApart
  <2>3. r \in Int BY ConsoleAssumption DEF Screen
  <2>4. t.row[d] \in Int BY <1>2, <2>1 DEF Console
  <2>5. s.row[d] <= t.row[d]
    BY <1>0, <1>1, <1>2, <2>1, <2>4
  <2>6. s.row[d] \in Int BY <2>1 DEF Good, Console
  <2> QED BY <2>2, <2>3, <2>4, <2>5, <2>6
<1>4. ASSUME NEW d \in Cpu, t.row[d] \in Screen
      PROVE  Other(d) \notin t.screen[t.row[d]]
  <2>1. CASE d = c
    BY <1>0, <1>1, <1>2, <1>4, <2>1 DEF Good, Console, RowsApart, Screen
  <2>2. CASE d = Other(c)
    BY <1>2, <1>4, <2>2 DEF Good, RowsApart
  <2> QED BY <1>0, <2>1, <2>2
<1>5. t.row["ppc"] # t.row["ios"]
  BY <1>1, <1>2, TwoCpus
<1>6. \A r \in Screen : ~("ppc" \in t.screen[r] /\ "ios" \in t.screen[r])
  BY <1>2 DEF Good, RowsApart
<1> QED BY <1>2, <1>3, <1>4, <1>5, <1>6 DEF Good, RowsApart

\* decrementRow moves both rows by as much as the picture moves up.
LEMMA ScrollKeeps ==
  ASSUME NEW s, Good(s), NEW c \in Cpu, s.row[c] >= 0
  PROVE  Good(Scrolled(s, c)) /\ Scrolled(s, c).row[c] \in Screen
<1> DEFINE n == s.row[c] - NumRows + 1
<1> DEFINE t == Scrolled(s, c)
<1>0. NumRows \in Nat /\ n \in Int /\ s.row \in [Cpu -> Int]
  BY ConsoleAssumption DEF Good, Console
<1>1. CASE n <= 0
  BY <1>0, <1>1 DEF Scrolled, Screen
<1>2. CASE ~(n <= 0)
  <2> DEFINE up == MoveUp(s.screen, n)
  <2> DEFINE rows == decrementRow(s.row, n)
  <2>a. up \in [Screen -> SUBSET Cpu]
    BY DEF Good, Console, MoveUp
  <2>b. rows \in [Cpu -> Int] /\ rows = [d \in Cpu |-> s.row[d] - n]
    BY <1>0 DEF decrementRow
  <2>c. t = [s EXCEPT !.row = rows, !.screen = up]
    BY <1>2 DEF Scrolled
  <2>1. /\ t \in Console
        /\ t.screen = MoveUp(s.screen, n)
        /\ t.row = [d \in Cpu |-> s.row[d] - n]
    <3> HIDE DEF up, rows
    <3>1. t \in Console /\ t.screen = up /\ t.row = rows
      BY <2>a, <2>b, <2>c DEF Good, Console
    <3> QED BY <3>1, <2>b DEF up
  <2>2. t.row[c] = NumRows - 1 BY <1>0, <2>1
  <2>3. \A r \in Screen, d \in Cpu :
          d \in t.screen[r] => r + n \in Screen /\ d \in s.screen[r + n]
    BY <2>1 DEF MoveUp
  <2>4. \A r \in Screen : \A d \in t.screen[r] : r <= t.row[d]
    <3> SUFFICES ASSUME NEW r \in Screen, NEW d \in t.screen[r]
                 PROVE  r <= t.row[d]
      OBVIOUS
    <3>1. d \in Cpu BY <2>1 DEF Console
    <3>2. r + n <= s.row[d] BY <2>3, <3>1 DEF Good, RowsApart
    <3> QED BY <3>1, <3>2, <2>1, <1>0 DEF Screen
  <2>5. ASSUME NEW d \in Cpu, t.row[d] \in Screen
        PROVE  Other(d) \notin t.screen[t.row[d]]
    <3>1. Other(d) \in Cpu BY TwoCpus
    <3>2. t.row[d] + n = s.row[d] BY <2>1, <1>0
    <3> QED BY <2>3, <2>5, <3>1, <3>2 DEF Good, RowsApart
  <2>6. t.row["ppc"] = t.row["ios"] => t.row["ppc"] < 0
    BY <2>1, <1>0, <1>2, TwoCpus DEF Good, RowsApart
  <2>7. \A r \in Screen : ~("ppc" \in t.screen[r] /\ "ios" \in t.screen[r])
    BY <2>3, TwoCpus DEF Good, RowsApart
  <2>8. t.row[c] \in Screen
    BY <2>2, ConsoleAssumption DEF Screen
  <2> QED BY <2>1, <2>4, <2>5, <2>6, <2>7, <2>8 DEF Good, RowsApart
<1> QED BY <1>1, <1>2

\* What is drawn is drawn on the own row.
LEMMA DrawKeeps ==
  ASSUME NEW s, Good(s), NEW c \in Cpu, s.row[c] \in Screen
  PROVE  Good(Drawn(s, c))
<1> DEFINE t == Drawn(s, c)
<1>0. Other(c) \in Cpu /\ Other(c) # c /\ \A d \in Cpu : d = c \/ d = Other(c)
  BY TwoCpus
<1>1. /\ t \in Console /\ t.row = s.row
      /\ t.screen = [s.screen EXCEPT ![s.row[c]] = @ \cup {c}]
  <2> DEFINE shows == [s.screen EXCEPT ![s.row[c]] = @ \cup {c}]
  <2> DEFINE l == [s.line EXCEPT !.col = @ + 1]
  <2>1. shows \in [Screen -> SUBSET Cpu] BY DEF Good, Console
  <2>2. l \in [col : Int, newline : BOOLEAN] BY DEF Good, Console
  <2>3. t = [s EXCEPT !.screen = shows, !.line = l] BY DEF Drawn
  <2> HIDE DEF shows, l
  <2>4. t \in Console /\ t.row = s.row /\ t.screen = shows
    BY <2>1, <2>2, <2>3 DEF Good, Console
  <2> QED BY <2>4 DEF shows
<1>2. \A r \in Screen : \A d \in t.screen[r] :
        d \in s.screen[r] \/ (r = s.row[c] /\ d = c)
  BY <1>1 DEF Good, Console
<1>3. \A r \in Screen : \A d \in t.screen[r] : r <= t.row[d]
  BY <1>1, <1>2 DEF Good, RowsApart, Screen
<1>4. ASSUME NEW d \in Cpu, t.row[d] \in Screen
      PROVE  Other(d) \notin t.screen[t.row[d]]
  <2>1. s.row[Other(c)] # s.row[c]
    BY TwoCpus DEF Good, RowsApart, Screen
  <2> QED BY <1>0, <1>1, <1>2, <1>4, <2>1 DEF Good, RowsApart
<1>5. t.row["ppc"] = t.row["ios"] => t.row["ppc"] < 0
  BY <1>1 DEF Good, RowsApart
<1>6. \A r \in Screen : ~("ppc" \in t.screen[r] /\ "ios" \in t.screen[r])
  <2>1. Other(c) \notin s.screen[s.row[c]] BY DEF Good, RowsApart
  <2> QED BY <1>2, <2>1, TwoCpus DEF Good, RowsApart
<1> QED BY <1>1, <1>3, <1>4, <1>5, <1>6 DEF Good, RowsApart

\* One character, whatever it is.
LEMMA CharKeeps ==
  ASSUME NEW s, Good(s), NEW c \in Cpu, NEW char
  PROVE  Good(printChar(s, c, char))
<1>1. Good(Newline(s, c))
  <2> DEFINE t == IF s.line.newline THEN incrementRow(s, c) ELSE s
  <2>1. Good(t) BY RowIncremented
  <2>2. [col |-> 0, newline |-> TRUE] \in [col : Int, newline : BOOLEAN]
    OBVIOUS
  <2> HIDE DEF t
  <2>3. Good([t EXCEPT !.line = [col |-> 0, newline |-> TRUE]])
    BY <2>1, <2>2, LineOnly
  <2> QED BY <2>3 DEF Newline, t
<1>2. Good([s EXCEPT !.line.col = 0])
  <2>1. [s EXCEPT !.line.col = 0] = [s EXCEPT !.line = [s.line EXCEPT !.col = 0]]
    OBVIOUS
  <2>2. [s.line EXCEPT !.col = 0] \in [col : Int, newline : BOOLEAN]
    BY DEF Good, Console
  <2> QED BY <2>1, <2>2, LineOnly
<1>3. Good(Started(s, c))
  <2> DEFINE t == incrementRow(s, c)
  <2>1. Good(t) BY RowIncremented
  <2>2. [t.line EXCEPT !.newline = FALSE] \in [col : Int, newline : BOOLEAN]
    BY <2>1 DEF Good, Console
  <2>3. Good([t EXCEPT !.line = [t.line EXCEPT !.newline = FALSE]])
    BY <2>1, <2>2, LineOnly
  <2> QED BY <2>3 DEF Started
<1>4. ASSUME NEW t, Good(t) PROVE Good(Tabbed(t, char))
  <2> DEFINE past == t.line.col + TabWidth
  <2> DEFINE stop == past - (past % TabWidth)
  <2>1. past \in Int /\ TabWidth \in Nat \ {0}
    BY <1>4, ConsoleAssumption DEF Good, Console
  <2>2. past % TabWidth \in Int BY <2>1
  <2>3. stop \in Int BY <2>1, <2>2
  <2> HIDE DEF stop
  <2>4. [t.line EXCEPT !.col = stop] \in [col : Int, newline : BOOLEAN]
    BY <1>4, <2>3 DEF Good, Console
  <2>5. Good([t EXCEPT !.line = [t.line EXCEPT !.col = stop]])
    BY <1>4, <2>4, LineOnly
  <2> QED BY <1>4, <2>5 DEF Tabbed, stop
<1>5. ASSUME NEW t, Good(t) PROVE Good(Wrapped(t, c))
  <2> DEFINE u == incrementRow(t, c)
  <2>1. Good(u) BY <1>5, RowIncremented
  <2>2. [u.line EXCEPT !.col = 0] \in [col : Int, newline : BOOLEAN]
    BY <2>1 DEF Good, Console
  <2>3. Good([u EXCEPT !.line = [u.line EXCEPT !.col = 0]])
    BY <2>1, <2>2, LineOnly
  <2> QED BY <1>5, <2>3 DEF Wrapped
<1>6. Good(Glyph(s, c, char))
  <2> DEFINE t == Wrapped(Tabbed(Started(s, c), char), c)
  <2>1. Good(t) BY <1>3, <1>4, <1>5
  <2> HIDE DEF t
  <2>2. CASE t.row[c] < 0 BY <2>1, <2>2 DEF Glyph, t
  <2>3. CASE ~(t.row[c] < 0)
    <3>1. t.row[c] >= 0 BY <2>1, <2>3 DEF Good, Console
    <3>2. Good(Drawn(Scrolled(t, c), c))
      BY <2>1, <3>1, ScrollKeeps, DrawKeeps
    <3> QED BY <2>3, <3>2 DEF Glyph, t
  <2> QED BY <2>2, <2>3
<1> QED BY <1>1, <1>2, <1>6 DEF printChar

\* Nothing is on the screen before the first character.
LEMMA InitRows == Init => RowsInv
  BY TwoCpus DEF Init, RowsInv, RowsApart, Shown, Screen

\* RowsApart speaks of the rows and the screen, not of the line.
LEMMA AnyLine ==
  ASSUME NEW s, NEW t, s.row = t.row, s.screen = t.screen, RowsApart(s)
  PROVE  RowsApart(t)
  BY DEF RowsApart

\* The steps of the lock move no row, and a character keeps them apart.
LEMMA StepRows == RowsInv /\ [Next]_vars => RowsInv'
<1> SUFFICES ASSUME RowsInv, [Next]_vars PROVE RowsInv'
  OBVIOUS
<1>1. ASSUME UNCHANGED <<row, screen, line>> PROVE RowsInv'
  BY <1>1 DEF RowsInv, RowsApart, Shown
<1>2. ASSUME NEW c \in Cpu, PrintChar(c) PROVE RowsInv'
  <2> DEFINE s == Shown(line[c])
  <2> DEFINE t == printChar(s, c, Head(text[c]))
  <2>1. Good(s) BY DEF RowsInv, Good, Console, Shown
  <2>2. Good(t) BY <2>1, CharKeeps
  <2>3. row' = t.row /\ screen' = t.screen /\ line' = [line EXCEPT ![c] = t.line]
    BY <1>2 DEF PrintChar, Shown
  <2> HIDE DEF t
  <2>4. /\ t.row \in [Cpu -> Int] /\ t.screen \in [Screen -> SUBSET Cpu]
        /\ t.line \in [col : Int, newline : BOOLEAN]
    BY <2>2 DEF Good, Console
  <2>5. line' \in [Cpu -> [col : Int, newline : BOOLEAN]]
    BY <2>3, <2>4 DEF RowsInv
  <2>6. \A d \in Cpu : RowsApart(Shown(line[d])')
    BY <2>2, <2>3, AnyLine DEF Good, Shown
  <2> QED BY <2>3, <2>4, <2>5, <2>6 DEF RowsInv
<1>3. CASE Next
  <2>1. PICK c \in Cpu : StartPrint(c) \/ Step(c) BY <1>3 DEF Next
  <2>2. PrintChar(c) \/ UNCHANGED <<row, screen, line>>
    BY <2>1 DEF StartPrint, Step, LockRead, LockWrite, Unlock, shown
  <2> QED BY <1>1, <1>2, <2>2
<1>4. CASE UNCHANGED vars
  BY <1>1, <1>4 DEF vars
<1> QED BY <1>3, <1>4

\* A row of the screen shows the text of one processor only, for a screen of
\* any size, any texts and any tab stops.
THEOREM ConsoleRowsOwned == Spec => []RowsOwned
<1>1. RowsInv => RowsOwned
  <2> SUFFICES ASSUME RowsInv, NEW r \in Screen
               PROVE  Cardinality(screen[r]) <= 1
    BY DEF RowsOwned
  <2>1. screen[r] \subseteq Cpu BY DEF RowsInv
  <2>2. ~("ppc" \in screen[r] /\ "ios" \in screen[r])
    BY TwoCpus DEF RowsInv, RowsApart, Shown
  <2>3. screen[r] = {} \/ screen[r] = {"ppc"} \/ screen[r] = {"ios"}
    BY <2>1, <2>2 DEF Cpu
  <2>4. /\ Cardinality({}) = 0
        /\ Cardinality({"ppc"}) = 1 /\ Cardinality({"ios"}) = 1
    BY FS_EmptySet, FS_Singleton
  <2> QED BY <2>3, <2>4
<1> QED BY <1>1, InitRows, StepRows, PTL DEF Spec

=============================================================================
