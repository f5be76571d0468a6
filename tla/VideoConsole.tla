---------------------------- MODULE VideoConsole ----------------------------
(***************************************************************************)
(* The console of log/VideoConsole.cpp, which two processors share: the    *)
(* PowerPC and the ARM that runs IOS each hold an instance, and the Share  *)
(* block, a lock word and a row for each, lies in memory both can reach.   *)
(*                                                                         *)
(* The word is read in one step and written in another; nothing makes the  *)
(* two atomic.  What stands in for that is time: a processor goes in after *)
(* Turns[c] turns in which it did not see the bit of the other.  Skew[c]   *)
(* bounds the steps that the other takes between two steps of c in lock(). *)
(*                                                                         *)
(* Behind the lock a character is one step.  Nothing there is read by the  *)
(* lock, so that OneInside is not touched by it, and with OneInside no     *)
(* step of the other can fall inside.                                      *)
(***************************************************************************)
EXTENDS Integers, Sequences, FiniteSets

CONSTANTS
  Turns,      \* the turns of lock(): 8 on IOS, 16 on the PowerPC
  Skew,       \* steps of the other between two steps of a processor
  NumRows, NumCols, TabWidth,
  Texts,      \* what is printed: sequences of Char
  MaxPrints   \* bound on the calls of Print, for each processor

Cpu  == {"ppc", "ios"}
Char == {"newline", "return", "tab", "glyph"}
Other(c) == IF c = "ppc" THEN "ios" ELSE "ppc"

ASSUME ConsoleAssumption ==
  /\ Turns \in [Cpu -> Nat \ {0, 1}]
  /\ Skew \in [Cpu -> Nat]
  /\ NumRows \in Nat \ {0} /\ NumCols \in Nat \ {0} /\ TabWidth \in Nat \ {0}
  /\ Texts \subseteq Seq(Char)
  /\ MaxPrints \in Nat

\* How much slower a processor may be for the lock to exclude.  The PowerPC
\* has three times the clock of the ARM: at most one step of IOS falls between
\* two of its own.
ASSUME SkewAssumption ==
  /\ Skew["ppc"] = 1
  /\ Skew["ios"] < Turns["ppc"]

VARIABLES
  lock,     \* the bits that are set in the word
  at, turn, \* where each processor is in Print; i of lock()
  lag,      \* steps of the other since this one's last, in lock()
  row,      \* ppc_row, ios_row
  screen,   \* history variable: whose glyphs each row shows
  line,     \* m_col and m_newline of each instance
  text,     \* what is left to print
  prints

shown == <<row, screen, line, text>>
vars  == <<lock, at, turn, lag, prints, row, screen, line, text>>

Screen == 0 .. NumRows   \* the row below the last is never printed on

Init ==
  /\ lock = {}
  /\ at = [c \in Cpu |-> "out"] /\ turn = [c \in Cpu |-> 0]
  /\ lag = [c \in Cpu |-> 0]
  /\ row = [c \in Cpu |-> -1]
  /\ screen = [r \in Screen |-> {}]
  /\ line = [c \in Cpu |-> [col |-> 0, newline |-> FALSE]]
  /\ text = [c \in Cpu |-> <<>>]
  /\ prints = [c \in Cpu |-> 0]

----------------------------------------------------------------------------
(* The lock. *)

Locking(c) == at[c] \in {"read", "write"}

\* c may take a step: the other one is not held up in lock() beyond its Skew.
InTime(c) ==
  /\ Locking(Other(c)) => lag[Other(c)] < Skew[Other(c)]
  /\ lag' = [d \in Cpu |-> IF d # c /\ Locking(d) THEN lag[d] + 1 ELSE 0]

Goes(c, place) == at' = [at EXCEPT ![c] = place]

StartPrint(c) ==
  /\ at[c] = "out" /\ prints[c] < MaxPrints /\ InTime(c)
  /\ \E s \in Texts : text' = [text EXCEPT ![c] = s]
  /\ prints' = [prints EXCEPT ![c] = @ + 1]
  /\ turn' = [turn EXCEPT ![c] = 0] /\ Goes(c, "read")
  /\ UNCHANGED <<lock, row, screen, line>>

\* The word is read, and with the other's bit in it the turns start again.
LockRead(c) ==
  /\ at[c] = "read" /\ InTime(c)
  /\ IF Other(c) \in lock
     THEN turn' = [turn EXCEPT ![c] = 0] /\ UNCHANGED at
     ELSE Goes(c, "write") /\ UNCHANGED turn
  /\ UNCHANGED <<lock, prints, shown>>

\* Mutant of LockWrite: the word is written once and not looked at again.
LockWriteOnce(c) ==
  /\ at[c] = "write" /\ InTime(c)
  /\ lock' = {c} /\ turn' = [turn EXCEPT ![c] = Turns[c]] /\ Goes(c, "in")
  /\ UNCHANGED <<prints, shown>>

\* The word is written with what was read and the own bit: the own bit alone.
LockWrite(c) ==
  /\ at[c] = "write" /\ InTime(c)
  /\ lock' = {c}
  /\ turn' = [turn EXCEPT ![c] = @ + 1]
  /\ Goes(c, IF turn[c] + 1 < Turns[c] THEN "read" ELSE "in")
  /\ UNCHANGED <<prints, shown>>

\* Mutant of Unlock: the word is left as it is.
UnlockKeeps(c) ==
  /\ at[c] = "in" /\ text[c] = <<>> /\ InTime(c)
  /\ Goes(c, "out")
  /\ UNCHANGED <<lock, turn, prints, shown>>

Unlock(c) ==
  /\ at[c] = "in" /\ text[c] = <<>> /\ InTime(c)
  /\ lock' = {} /\ Goes(c, "out")
  /\ UNCHANGED <<turn, prints, shown>>

----------------------------------------------------------------------------
(* printChar, on a record with the rows, the screen, and the line of c.    *)

\* Mutant of incrementRow: a row is moved only when it is above the other.
IncrementRowOntoOther(s, c) ==
  LET next == s.row[c] + 1
  IN  [s EXCEPT !.row[c] = IF next < s.row[Other(c)]
                           THEN s.row[Other(c)] + 1 ELSE next]

\* The own row goes on, and below the row of the other.
incrementRow(s, c) ==
  LET next == s.row[c] + 1
      below == s.row[Other(c)] + 1
  IN  [s EXCEPT !.row[c] = IF next < below THEN below ELSE next]

Newline(s, c) ==
  LET t == IF s.line.newline THEN incrementRow(s, c) ELSE s
  IN  [t EXCEPT !.line = [col |-> 0, newline |-> TRUE]]

\* A line that was ended begins, and one that is full goes on in the next row.
Started(s, c) ==
  IF s.line.newline
  THEN [incrementRow(s, c) EXCEPT !.line.newline = FALSE] ELSE s
Tabbed(s, char) ==
  LET past == s.line.col + TabWidth
  IN  IF char = "tab" THEN [s EXCEPT !.line.col = past - (past % TabWidth)] ELSE s
Wrapped(s, c) ==
  IF s.line.col >= NumCols
  THEN [incrementRow(s, c) EXCEPT !.line.col = 0] ELSE s

MoveUp(shows, n) ==
  [r \in Screen |-> IF r + n \in Screen THEN shows[r + n] ELSE {}]
decrementRow(rows, n) == [c \in Cpu |-> rows[c] - n]

\* Both rows move up with the picture until the own one is on the screen.
Scrolled(s, c) ==
  LET n == s.row[c] - NumRows + 1
  IN  IF n <= 0 THEN s ELSE [s EXCEPT !.row = decrementRow(@, n),
                                      !.screen = MoveUp(@, n)]

Drawn(s, c) ==
  [s EXCEPT !.screen[s.row[c]] = @ \cup {c}, !.line.col = @ + 1]

Glyph(s, c, char) ==
  LET t == Wrapped(Tabbed(Started(s, c), char), c)
  IN  IF t.row[c] < 0 THEN t ELSE Drawn(Scrolled(t, c), c)

printChar(s, c, char) ==
  CASE char = "newline" -> Newline(s, c)
    [] char = "return"  -> [s EXCEPT !.line.col = 0]
    [] OTHER            -> Glyph(s, c, char)

PrintChar(c) ==
  /\ at[c] = "in" /\ text[c] # <<>> /\ InTime(c)
  /\ LET s == printChar([row |-> row, screen |-> screen, line |-> line[c]],
                        c, Head(text[c]))
     IN  /\ row' = s.row /\ screen' = s.screen
         /\ line' = [line EXCEPT ![c] = s.line]
  /\ text' = [text EXCEPT ![c] = Tail(@)]
  /\ UNCHANGED <<lock, at, turn, prints>>

----------------------------------------------------------------------------
Step(c) == LockRead(c) \/ LockWrite(c) \/ PrintChar(c) \/ Unlock(c)
Next == \E c \in Cpu : StartPrint(c) \/ Step(c)

Spec == Init /\ [][Next]_vars

\* Both processors go on executing.
FairSpec == Spec /\ \A c \in Cpu : WF_vars(Step(c))

----------------------------------------------------------------------------
\* The two processors are not in the console together ("Lock console from
\* other instance", VideoConsole.cpp:126).  It takes what SkewAssumption says;
\* two processors that run at the same pace both get in.
OneInside == ~(at["ppc"] = "in" /\ at["ios"] = "in")

\* A row of the screen shows the text of one processor only, whatever lines
\* end, wrap, begin or scroll between: incrementRow keeps the rows apart, and
\* decrementRow moves both.
RowsOwned == \A r \in Screen : Cardinality(screen[r]) <= 1

\* A processor that waits for the lock gets it and comes back from Print: the
\* turns of the two do not undo each other for ever, and no bit is left set.
\* (One that prints without end may keep the other out; MaxPrints stops it.)
PrintEnds == \A c \in Cpu : at[c] = "read" ~> at[c] = "out"

----------------------------------------------------------------------------
\* The invariant behind OneInside.  A bit that is set belongs to a processor
\* with a turn behind it; turns do not outlive the bit unless the other has
\* just overwritten it; and how far the PowerPC can have come by then is
\* bounded by the steps that IOS let it take.
WordOK ==
  /\ lock \in {{}, {"ppc"}, {"ios"}}
  /\ \A c \in Cpu : /\ c \in lock => at[c] # "out" /\ turn[c] > 0
                    /\ lock = {} /\ Locking(c) => turn[c] = 0
  /\ lag["ppc"] <= Skew["ppc"] /\ lag["ios"] <= Skew["ios"]

InOK ==
  /\ at["ppc"] = "in" => lock = {"ppc"} /\ at["ios"] \in {"out", "read"}
  /\ at["ios"] = "in" =>
       /\ lock = {"ios"} /\ at["ppc"] \in {"out", "read"}
       /\ at["ppc"] = "read" /\ turn["ppc"] > 0 => lag["ppc"] = 1

\* IOS read a word without the PowerPC's bit and has not written its own yet.
WriteOK == at["ios"] = "write" =>
  IF turn["ios"] > 0 THEN lock = {"ios"} /\ at["ppc"] \in {"out", "read"}
  ELSE lock = {"ppc"} =>
         2 * turn["ppc"] <= lag["ios"] + (IF at["ppc"] = "read" THEN 1 ELSE 0)

\* IOS has written its bit and has not looked again.
ReadOK == at["ios"] = "read" /\ turn["ios"] > 0 =>
  IF lock = {"ios"}
  THEN at["ppc"] = "write" =>
         lag["ppc"] = 1 /\ lag["ios"] = 0 /\ 2 * turn["ppc"] <= Skew["ios"]
  ELSE /\ at["ppc"] = "read"  => 2 * turn["ppc"] <= Skew["ios"] + lag["ios"] + 1
       /\ at["ppc"] = "write" => 2 * turn["ppc"] <= Skew["ios"] + lag["ios"]
       /\ at["ppc"] = "in"    => lag["ios"] >= Skew["ios"]

LockInv == WordOK /\ InOK /\ WriteOK /\ ReadOK

=============================================================================
