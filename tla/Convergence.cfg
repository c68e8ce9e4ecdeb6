\* Four rounds of one speaker or two: questions, proposals, advice and
\* messages that change the phase, the signals and the outcome.
SPECIFICATION Spec
CONSTANTS
    Words = {w1, w2}
    Confidences = {900}
    MaxTurns = 2
    Questions = {q1, q2}
    Answered = {}
    QuestionLimit = 1
    BriefLimit = 1
    Candidates = {c1}
    Counts = {4}
    Conclusions = {"follow_up_required", "candidate_ready"}
    AdvisedPhases = {"", "explore"}
    AdvisedActions = {""}
    Topology = "host_led"
    MaxRounds = 4
INVARIANTS
    TypeOK
    ThresholdIsOutOfReach
    RaisedQuestionBlocksDecide
    ProposalSettlesThePhase
    AdviceLastsOneRound
    RepeatedFollowUpEnds
PROPERTIES
    NoQuestionIsDisplaced
CHECK_DEADLOCK FALSE
