SPECIFICATION FairSpec
CONSTANTS
    Clients = {c1, c2}
    NoClient = NoClient
    Null = Null
    Block <- MCBlock
    Enc <- MCEnc
    Dec <- MCDec
    Flip <- MCFlip
    Answer <- MCAnswer
    Zero <- MCZero
    FlagText <- MCFlag
    NoFlagText <- MCNoFlag
    Typable <- MCTypable
    MayDie = {c1}
    MaxShort = 0
    CloseLingers = TRUE
CHECK_DEADLOCK FALSE
PROPERTIES
    EveryClientEnds EveryConnectedClientIsTold
