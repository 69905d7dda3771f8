SPECIFICATION FairSpec
CONSTANTS
  a = a  b = b  NoResponse = NoResponse
  Break = Break
  Letters <- TwoLetters
  Pieces <- ThreePieces
  Clis <- AllClis
  MinChars = 4
  MaxLength = 4
  MaxText = 7
INVARIANTS
  TypeOK
  AnswerShownUnlessExcused
  ShownInOrder
PROPERTIES
  ShownOnlyGrows
  CompletedEnds
CHECK_DEADLOCK FALSE
