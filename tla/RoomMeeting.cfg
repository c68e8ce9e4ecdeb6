\* Two rounds with messages of one chunk, with a message of the operator, an
\* override, a shutdown or a failure at any suspension point.
SPECIFICATION FairSpec
CONSTANTS
    s1 = s1
    s2 = s2
    Specialists <- MCSpecialists
    OpeningRoster <- MCRoster
    MaxRounds = 2
    MaxChunks = 1
    MaxHuman = 1
    MaxBuildWrites = 0
INVARIANTS
    TypeOK
    NothingFollowsMeetingEnded
    EndFollowsItsCause
    RoundsRunInSequence
    SpeakersJoinedFirst
    RolesJoinOnce
PROPERTIES
    MeetingEnds
    OverrideIsAnswered
    ImplementsLifecycle
CHECK_DEADLOCK FALSE
