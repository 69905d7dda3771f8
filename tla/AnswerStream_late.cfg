SPECIFICATION Spec
CONSTANTS
  a = a  b = b  NoResponse = NoResponse
  Break = Break
  Letters <- TwoLetters
  Pieces <- OneLetter
  Clis <- CodexOnly
  MinChars = 2
  MaxLength = 3
  MaxText = 2
INVARIANTS
  AnswerIsShown
CHECK_DEADLOCK FALSE
