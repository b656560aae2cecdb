SPECIFICATION MCSpec
CONSTANTS
  Jobs = {"layout"}
  Labels = {"a", "b"}
  Base = 4
  Programs <- MCResolved
  MaxMacros = 2
  MaxDepth = 3
  Keys <- MCKeys
  Hash <- MCHash
  InitSizes = {0}
  None = None
CHECK_DEADLOCK FALSE
INVARIANTS
  ResolvedJumpsLand
