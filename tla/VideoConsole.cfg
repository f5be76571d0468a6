SPECIFICATION FairSpec
CONSTANTS
  PpcTurns = 16
  IosTurns = 8
  IosSkew = 15
  Turns <- TheTurns
  Skew <- TheSkew
  NumRows = 2
  NumCols = 2
  TabWidth = 2
  Texts <- TheTexts
  MaxPrints = 2
INVARIANTS OneInside RowsOwned
PROPERTY PrintEnds
CHECK_DEADLOCK FALSE
