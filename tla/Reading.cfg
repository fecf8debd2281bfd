SPECIFICATION FairSpec
CONSTANTS
    Exchanges = {"a", "b", "c"}
    Started <- MCStarted
    RuleOf <- MCRuleOf
    Rules = {1}
    Category <- MCCategory
    Filters <- MCFilters
    DefaultLimit = 1
    MaxLimit = 2
    InFlight <- MCInFlight
    Limits = {0, 9}
    ConsoleLimit = 2
    Slots = {1, 2}
    Kinds = {"request", "response"}
    MaxOpens = 2
    Tokens = {"current", "former"}
    RequiredToken = "current"
    CallSlots = {1, 2}
CHECK_DEADLOCK FALSE
INVARIANTS
    TypeOK
    FirstPageIsNewest
    TimesHoldToTheSecond
    PagingMissesNothing
    PagingRepeatsNothing
    TotalAgrees
    ShownBodyIsOfShownLog
    WrongTokenIsShut
    RightTokenIsShutByOldAnswers
PROPERTY AutoRefreshHeals
