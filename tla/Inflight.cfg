SPECIFICATION Spec
CONSTANTS
    RulePrefixes <- MCRulePrefixes
    InitialRules <- OneRule
    InitialSeq = 1
    Uploads = {one, two}
    Requests = {one, two}
    Path <- MCPath
    Headers <- MCHeaders
    WithBody <- MCWithBody
    Preflights <- MCPreflights
    Calls = {"delete", "create"}
    Op <- MCOp
    Target <- MCTarget
    Payload <- MCPayload
SYMMETRY Alike
CHECK_DEADLOCK FALSE
INVARIANTS
    TypeOK
    NeverMisattributed
    LossIsExplained
    FailureIsExplained
