\* Requests come one after the other; any form the page can send.
SPECIFICATION Spec
CONSTANTS
  Requests = {r1, r2}
  x1 = x1
  x2 = x2
  x3 = x3
  Texts <- MCTexts
  Name <- MCName
  Types = {ta, tb}
  Partial = Partial
  MaxCount = 2
  Forms <- MCForms
  Overlap = FALSE
SYMMETRY Alike
INVARIANTS
  LabelledByRequest
  TrainedMeansLearned
PROPERTY
  ErrorsHaveCause
CHECK_DEADLOCK FALSE
