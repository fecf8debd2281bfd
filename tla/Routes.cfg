SPECIFICATION Spec
CONSTANTS
    Chars <- MCChars
    RuleLists <- MCRuleLists
    Paths <- MCPaths
    Locations <- MCLocations
INVARIANTS
    RoutesBySegments
    StaysUnderTarget
PROPERTY RedirectLeadsBack
CHECK_DEADLOCK FALSE
