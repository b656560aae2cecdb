\* Requests overlap, as a second click on the page or a second user makes them.
SPECIFICATION Spec
CONSTANTS
  Requests = {r1, r2}
  x1 = x1
  x2 = x2
  x3 = x3
  Texts <- MCTexts
  Name <- MCName
  Types = {ta, tb}
  Partial = Partial
  MaxCount = 2
  Forms <- GoodForms
  Overlap = TRUE
SYMMETRY Alike
INVARIANTS
  LabelledByNumber
  LeftByFailure
  
CHECK_DEADLOCK FALSE
