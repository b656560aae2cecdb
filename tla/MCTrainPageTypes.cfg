\* Which type a file is posted with (script.js:78, 83).
SPECIFICATION MCPSpec
CONSTANTS
  Requests = {r1, r2}
  Texts = {x1}
  Name <- MCName
  Types = {tm, ta}
  ModelType = tm
  Partial = Partial
  MaxCount = 3
  MaxRows = 2
  Points <- MCPoints
  Forms <- NoForms
  Overlap = TRUE
SYMMETRY Alike
INVARIANTS
  TypesAreTheirs
CHECK_DEADLOCK FALSE
