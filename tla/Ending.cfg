SPECIFICATION FairSpec
CONSTANTS
    RulePrefixes <- MCRulePrefixes
    InitialRules <- TwoRules
    InitialSeq = 2
    Uploads = {}
    Requests = {"post", "ping"}
    Path <- MCPath
    Headers <- MCHeaders
    WithBody <- MCWithBody
    Preflights <- MCPreflights
    Calls = {"delete2"}
    Op <- MCOp
    Target <- MCTarget
    Payload <- MCPayload
CHECK_DEADLOCK FALSE
PROPERTIES
    DisconnectEndsHandler
    LogPhaseEnds
    KeepsLogPromise
