\* Streaming of a single round while the operator writes: live text, build
\* writes, messages and an override or a shutdown at every suspension point.
SPECIFICATION Spec
CONSTANTS
    s1 = s1
    s2 = s2
    Specialists <- MCSpecialists
    OpeningRoster <- MCRoster
    MaxRounds = 1
    MaxChunks = 2
    MaxHuman = 1
    MaxBuildWrites = 1
INVARIANTS
    LiveTextIsTheSpeakers
PROPERTIES
    OverrideAnswerIsFinal
CHECK_DEADLOCK FALSE
