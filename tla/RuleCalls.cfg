SPECIFICATION Spec
CONSTANTS
    RulePrefixes <- MCRulePrefixes
    InitialRules <- OneRule
    InitialSeq = 1
    Uploads = {}
    Requests = {}
    Path <- MCPath
    Headers <- MCHeaders
    WithBody <- MCWithBody
    Preflights <- MCPreflights
    Calls = {"create", "put", "grab", "delete", "delete2", "turnoff", "turnon"}
    Op <- MCOp
    Target <- MCTarget
    Payload <- MCPayload
CHECK_DEADLOCK FALSE
INVARIANTS
    RulesHaveKeys
    FailedCreateLeavesNoRule
PROPERTY NoResurrection
