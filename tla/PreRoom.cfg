SPECIFICATION Spec
CONSTANTS
    PlannerModes = {"primary", "fallback_only", "primary_with_fallback"}
    Supplier = {"acme"}
    Model = {"mini"}
    MaxPicks = 2
    OwnConstraints = {1, 6}
    Mentions = {0, 5}
    StopWords = {"a", "an", "and", "are", "as", "at", "be", "before", "by", "can", "counts", "current",
                 "do", "does", "for", "how", "in", "is", "it", "known", "must", "of", "on", "or",
                 "out", "remain", "room", "should", "start", "the", "this", "to", "value", "what",
                 "which"}
    Questions = {{"which", "provider"}, {"timeout", "guardrails"}}
INVARIANTS
    TypeOK
    StubOnlyWithConsent
    OnlyABadAnswerCloses
    OnlyTheExecutorBlocks
    MeetingAgreesOnQuestions
    RiskHasASeat
