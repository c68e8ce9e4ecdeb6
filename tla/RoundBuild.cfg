\* A round built by either topology, with one or two attempts per route.
SPECIFICATION FairSpec
CONSTANTS
    Target <- MCTarget
    AttemptLimits = {1, 2}
    LocalTools <- MCLocalTools
    ServedTools <- MCServedTools
    Prefix <- NoPrefix
    Roster <- MCRoster
    FallbackRoster <- MCFallbackRoster
    Strangers = {"legal"}
    MaxNominations = 2
    TurnBudget <- MCTurnBudget
    UnknownTool <- MCUnknownTool
INVARIANTS
    TypeOK
    FallbackNeedsADisaster
    NobodyIsSkipped
    DiscoveredToolsAnswer
PROPERTIES
    RerouteLasts
    KeepsContract
    BuildEnds
CHECK_DEADLOCK FALSE
