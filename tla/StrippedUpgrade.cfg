SPECIFICATION Spec
CONSTANTS
    RulePrefixes <- MCRulePrefixes
    InitialRules <- OneRule
    InitialSeq = 1
    Uploads = {}
    Requests = {"ws"}
    Path <- MCPath
    Headers <- MCHeaders
    WithBody <- MCWithBody
    Preflights <- MCPreflights
    Calls = {}
    Op <- MCOp
    Target <- MCTarget
    Payload <- MCPayload
CHECK_DEADLOCK FALSE
INVARIANT UpgradeReachesUpstream
