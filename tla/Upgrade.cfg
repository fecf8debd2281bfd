SPECIFICATION FairSpec
CONSTANT MaxSent <- MCMaxSent
INVARIANT NothingLostOrReordered
PROPERTIES
    CopiersEnd
    CloseEndsTunnel
CHECK_DEADLOCK FALSE
