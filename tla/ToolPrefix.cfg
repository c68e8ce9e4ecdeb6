\* Discovery registers the tools of the server under a prefix.
SPECIFICATION Spec
CONSTANTS
    Target <- MCTarget
    AttemptLimits = {1, 2}
    LocalTools <- MCLocalTools
    ServedTools <- MCServedTools
    Prefix <- McpPrefix
    Roster <- MCRoster
    FallbackRoster <- MCFallbackRoster
    Strangers = {"legal"}
    MaxNominations = 2
    TurnBudget <- MCTurnBudget
    UnknownTool <- MCUnknownTool
INVARIANT DiscoveredToolsAnswer
CHECK_DEADLOCK FALSE
