--------------------------- MODULE MCVideoConsole ---------------------------
(* Lines that end, begin, wrap and scroll, on a screen of two rows and two *)
(* columns.  The turns are those of the code and the skew the largest that *)
(* SkewAssumption allows; any others are a matter of the theorem.          *)
EXTENDS VideoConsole

CONSTANTS PpcTurns, IosTurns, IosSkew

TheTurns == [c \in Cpu |-> IF c = "ppc" THEN PpcTurns ELSE IosTurns]
TheSkew  == [c \in Cpu |-> IF c = "ppc" THEN 1 ELSE IosSkew]
TheTexts == {<<>>, <<"newline">>, <<"glyph", "newline">>,
             <<"return", "tab", "glyph">>}
=============================================================================
