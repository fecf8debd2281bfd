SPECIFICATION FairSpec
CONSTANTS
    Rules = {r1}
    Limits = {0, 262144, 5}
    LegacyLimit = 262144
    Exchanges = {x1, x2}
    RetentionDays = 1
    Instants <- MCInstants
INVARIANTS
    TypeOK
    UserLimitsSurvive
    NoLegacyLimitServed
    RowsLastTheirDays
    OldRowsAreGone
PROPERTIES
    StopSparesExchanges
    StopCompletes
    KeepsLogPromise
