SPECIFICATION MCSpec
CONSTANTS
  Jobs = {"layout", "conditionals", "map"}
  Labels = {"a", "b"}
  Base = 4
  Programs <- MCPrograms
  MaxMacros = 2
  MaxDepth = 3
  Keys <- MCKeys
  Hash <- MCHash
  InitSizes = {0, 1, 2, 4, 8}
  None = None
CHECK_DEADLOCK FALSE
INVARIANTS
  OffsetsAreSums
  ShortJumpsReach
  JumpsLand
  SkipsExactly
  ProbesEnd
PROPERTIES
  IsAKeySet
  LayoutEnds
