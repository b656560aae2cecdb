\* Two clicks on a page with at most two upload points.
SPECIFICATION MCPSpec
CONSTANTS
  Requests = {r1, r2}
  Texts = {x1}
  Name <- MCName
  Types = {tm, ta}
  ModelType = tm
  Partial = Partial
  MaxCount = 3
  MaxRows = 2
  Points <- MCPoints
  Forms <- NoForms
  Overlap = TRUE
SYMMETRY Alike
INVARIANTS
  PostsArePaired
  OnlyClearedPagesTrain
CHECK_DEADLOCK FALSE
