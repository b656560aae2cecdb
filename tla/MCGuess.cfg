\* Eight numbers and three chances, as 1024 and ten (checkin.c:18, 20); the
\* free player types one word more than there are chances.
SPECIFICATION MCSpec
CONSTANTS
  Max = 8
  Chances = 3
  Guesses <- MCGuesses
  Junk = Junk
  RoundUp = FALSE
  Reach <- MCReach
  MaxTyped = 4
INVARIANTS
  RepliesInOrder
  ResultIsDeserved
  BisectionLosesToOne
PROPERTIES
  GameEnds
CHECK_DEADLOCK FALSE
