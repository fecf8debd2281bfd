SPECIFICATION InspectSpec
CONSTANTS
    Limits <- MCLimits
    Chunks <- MCChunks
    MaxSize = 7
    ContentTypes <- MCContentTypes
INVARIANTS
    KeepsExactPrefix
    HeldIsBounded
    TextIsLoggedWhole
CHECK_DEADLOCK FALSE
