SPECIFICATION Spec
CONSTANTS
    PlannerModes = {"primary_with_fallback"}
    Supplier = {"acme"}
    Model = {"mini"}
    MaxPicks = 1
    OwnConstraints = {1}
    Mentions = {0}
    StopWords = {"a", "an", "and", "are", "as", "at", "be", "before", "by", "can", "counts", "current",
                 "do", "does", "for", "how", "in", "is", "it", "known", "must", "of", "on", "or",
                 "out", "remain", "room", "should", "start", "the", "this", "to", "value", "what",
                 "which"}
    Questions = {{"which", "technical", "constraint"}}
INVARIANTS
    RequiredInputsAreAsked
