SPECIFICATION Spec
CONSTANTS
    RulePrefixes <- MCRulePrefixes
    InitialRules <- OneRule
    InitialSeq = 1
    Uploads = {}
    Requests = {}
    Path <- MCPath
    Headers <- MCHeaders
    WithBody <- MCWithBody
    Preflights <- MCPreflights
    Calls = {"turnoff", "edit"}
    Op <- MCOp
    Target <- MCTarget
    Payload <- MCPayload
CHECK_DEADLOCK FALSE
PROPERTY EnabledOnlyOnRequest
