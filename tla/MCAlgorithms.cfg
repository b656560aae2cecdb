\* The sign-in cipher as it is: a run of it goes through 64 rounds and ends.
SPECIFICATION MCSpec
CONSTANTS
  Jobs = {"tea", "blowfish", "operand"}
  Starts <- MCStarts
  Keys <- MCKeys
  Sums <- MCSums
  BRounds = 4
  Words <- MCWords
  BitXor <- MCBitXor
  PInit <- MCPInit
  SInit <- MCSInit
  Submitted <- MCSubmitted
  Texts <- MCTexts
  MaxLayers = 3
  Regs = {1, 2, 3}
  Numbers = {2, 3, 18}
  Marks = {"+", "-", "*", "/", "(", ")", "~", "|", "&", "<<"}
  Kind <- MCKind
  Width = 8
  ScaleWidth = 4
  MaxTokens = 6
INVARIANTS
  Restored
  CopiesAgree
  InputIsRight
  TextComesBack
  Denotes
CHECK_DEADLOCK FALSE
