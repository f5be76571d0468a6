------------------------------- MODULE MCMachine -------------------------------
(* What is asked of IOS, with two lines of the caller's.                     *)
EXTENDS Machine

\* How a call is asked, which does not depend on what calls there are.
Ask == INSTANCE IosRequest WITH Calls <- {}

u1 == <<"user", 1>>
u2 == <<"user", 2>>
TheUser == {u1, u2}
one == Ask!Own(<<u1>>)
both == Ask!Own(<<u1, u2>>)

\* A device that writes to its inputs.
Marks(c) == [c EXCEPT !.marks = TRUE]

TheCalls ==
  {Ask!Open(both), Ask!Unaligned(Ask!Open(both)), Ask!IOS_Open(TRUE), Ask!IOS_Open(FALSE),
   Ask!Waiting(Ask!Close), Ask!Read(both), Ask!Ioctl(both, one), Marks(Ask!Ioctl(one, both)),
   Ask!Ioctlv(<<>>, <<Ask!Alloc(1), Ask!Alloc(1)>>),
   Ask!CreateMultipleFiles(<<one>>, Ask!Own(<<u2>>))}
  \cup Ask!OfNand(one) \cup Ask!OfFile(one) \cup Ask!HcReg
  \cup Ask!Requests(Ask!GetAttr, {Ask!Immediate, Ask!NoData, one})
  \cup {Marks(Ask!Typed(Ask!BufCommand, <<Ask!Immediate, data, Ask!Immediate>>)) :
          data \in {one, Ask!NoData}}

\* Lines that a call does not use take no part in it.
Apart == ~Req!Idle => DOMAIN m.cache \cap User \subseteq Req!Lines(call)

\* The last call is nothing to the next one.
View ==
  <<part, vars, cardVars,
    IF Req!Idle THEN <<[l \in User |-> m.ram[l]], [l \in User \cap DOMAIN m.cache |-> m.cache[l]],
                       m.dirty \cap User>>
    ELSE <<m, st, call, given, took, answer>> >>
=============================================================================
