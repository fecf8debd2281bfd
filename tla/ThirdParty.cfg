SPECIFICATION Spec
CONSTANTS
    Chars <- MCChars
    RuleLists <- OneRuleLists
    Paths <- MCPaths
    Locations <- MCLocations
CHECK_DEADLOCK FALSE
INVARIANT ThirdPartiesUntouched
