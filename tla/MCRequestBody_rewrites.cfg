SPECIFICATION Spec
CONSTANTS
    Requests <- MCForms
    Pins <- MCPins
    SelectorOf <- MCSelectorOf
    RealName <- MCRealName
    UseModelName <- MCUseModelName
    Filters <- MCNoFilters
    Exposed = {}
INVARIANT ReplacementsHold
CHECK_DEADLOCK FALSE
