----------------------------- MODULE Convergence ------------------------------
(***************************************************************************)
(* How a meeting comes to its end: the round build of RoundOrchestrator    *)
(* (orchestration/round_orchestrator.py) with the phase, the signals, the  *)
(* consensus check and the end signal it computes (room_executor.py,       *)
(* mas/hybrid.py), and the projection that feeds a round's results to the  *)
(* next one.                                                               *)
(*                                                                         *)
(* A round is one step.  A message that arrives while a round is built or  *)
(* emitted changes nothing in it that this module keeps (phase, focus and  *)
(* routing signals are read when the build begins) and is one that arrives *)
(* after it.  Signals are in thousandths, the score in hundred-thousandths; *)
(* the code's floats are taken as exact.                                   *)
(***************************************************************************)
EXTENDS Claims

CONSTANTS
    Words,          \* the words claims are made of
    Confidences,    \* the confidences specialists state, in thousandths
    MaxTurns,       \* most specialists of a round
    Questions,      \* questions that may be raised
    Answered,       \* those the planning context answers
    QuestionLimit,  \* most questions a round leaves open, 6 in the code
    BriefLimit,     \* most questions a brief asks, 5 in the code
    Candidates,     \* decisions that may be proposed
    Counts,         \* numbers of points a synthesis lists as agreed, or not
    Conclusions,    \* conclusion types the synthesis uses
    AdvisedPhases,  \* phases it recommends, "" for no advice
    AdvisedActions, \* actions it recommends, "" for no advice
    Topology,       \* which executor builds the rounds
    MaxRounds       \* RoomControlConfig.max_rounds

Phases == {"explore", "debate", "synthesize", "decide"}
Actions == {"speak", "handoff", "check_consensus", "end_meeting", "noop"}
ConclusionTypes ==
    {"candidate_ready", "follow_up_required", "blocked", "human_decision_needed"}

ASSUME SignalAssumption ==
    /\ Confidences \subseteq 0..1000
    /\ Counts \subseteq 0..6
    /\ MaxTurns \in Nat \ {0}
    /\ MaxRounds \in Nat \ {0}
ASSUME InputAssumption ==
    /\ IsFiniteSet(Words)
    /\ Answered \subseteq Questions
    /\ IsFiniteSet(Questions)
    /\ QuestionLimit \in Nat \ {0}
    /\ BriefLimit \in 0..QuestionLimit
    /\ "" \notin Candidates
    /\ Conclusions \subseteq ConclusionTypes
    /\ AdvisedPhases \subseteq Phases \cup {""}
    /\ AdvisedActions \subseteq Actions \cup {""}
    /\ Topology \in {"host_led", "supervisor_led"}

VARIABLES
    round,       \* index of the next round
    depth,       \* entries of the transcript, up to the depth no rule looks past
    heard,       \* snapshot.last_human_message is set
    candidate,   \* snapshot.candidate_decision, "" for none
    conclusion,  \* snapshot.conclusion_type, "" before the first summary
    questions,   \* snapshot.open_questions
    consensus,   \* support and disagreement of snapshot.consensus
    advice,      \* snapshot.recommended_next_phase and _action
    last,        \* signals and stall counter of the last round
    history,     \* phase, questions and outcome of each round
    ended        \* why the meeting ended, "" while it runs

vars == <<round, depth, heard, candidate, conclusion, questions, consensus,
          advice, last, history, ended>>

-----------------------------------------------------------------------------
(* Inputs of a round.                                                      *)

Turn == [claim : SUBSET Words, confidence : Confidences]
Measurements ==
    {Measure(turns) : turns \in UNION {[1..n -> Turn] : n \in 1..MaxTurns}}

\* A synthesis that _parse_synthesis_output accepts; says is its
\* should_end_meeting, "absent" when it leaves it out.
SynthesisOutput ==
    {out \in [agreement : Counts, disagreement : Counts, open : SUBSET Questions,
              candidate : Candidates, conclusion : Conclusions,
              says : {"end", "go on", "absent"},
              phase : AdvisedPhases, action : AdvisedActions] :
        out.agreement > 0 \/ out.disagreement > 0 \/ out.open # {}}

\* _coerce_should_end_meeting.
ShouldEndMeeting(out) ==
    \/ out.says = "end"
    \/ /\ out.says = "absent"
       /\ \/ out.conclusion \in {"blocked", "human_decision_needed"}
          \/ out.conclusion = "candidate_ready" /\ out.disagreement = 0 /\ out.open = {}

-----------------------------------------------------------------------------
(* Planning the round.                                                     *)

\* The questions _visible_open_questions lists.
Visible == questions \ Answered

\* phase_for_round, and the mutant in which an operator message comes before
\* the candidate.
Undecided == Visible # {} \/ consensus.disagreement > 350
MessageReopens ==
    IF round = 1 /\ depth = 0 THEN "explore"
    ELSE IF heard THEN "debate"
    ELSE IF candidate # "" THEN IF Undecided THEN "synthesize" ELSE "decide"
    ELSE IF depth >= 4 \/ consensus.support >= 700 THEN "synthesize"
    ELSE "debate"
PhaseByRule ==
    IF round = 1 /\ depth = 0 THEN "explore"
    ELSE IF candidate # "" THEN IF Undecided THEN "synthesize" ELSE "decide"
    ELSE IF heard THEN "debate"
    ELSE IF depth >= 4 \/ consensus.support >= 700 THEN "synthesize"
    ELSE "debate"
Phase == IF advice.phase # "" THEN advice.phase ELSE PhaseByRule

\* signals_for_round, on the fields read below; the others only pick a model.
RoutingDisagreement ==
    LET asked == Cardinality(Visible)
        prior == IF depth > 0 THEN consensus.disagreement ELSE 580
        talked == Max({180, prior - Min({100, 15 * depth})})
        proposed == IF candidate # "" THEN Max({150, talked - 50}) ELSE talked
        open == IF asked > 0 THEN Min({900, proposed + Min({100, 15 * asked})})
                ELSE proposed
    IN IF heard THEN Max({160, open - 30}) ELSE open
RoutingRisk == Min({320, 80 + 30 * Cardinality(Visible)})
RoutingStall == IF candidate # "" /\ round > 1 THEN 1 ELSE 0

\* HybridCoordinationStrategy.next_action, after the advice of the synthesis.
ActionByRule(phase) ==
    IF RoutingStall >= 2 \/ phase \in {"synthesize", "decide"} THEN "check_consensus"
    ELSE IF RoutingDisagreement >= 500 THEN "handoff" ELSE "speak"
Coordination(phase) ==
    IF advice.action # "" THEN advice.action ELSE ActionByRule(phase)

-----------------------------------------------------------------------------
(* Evaluating it.                                                          *)

\* _dedupe_strings: a list goes on with more questions until the limit.  The
\* order of the new ones is not kept, so that any may be cut.
Filled(listed, more) ==
    LET new == more \ listed
        free == QuestionLimit - Cardinality(listed)
    IN {listed \cup some :
           some \in {s \in SUBSET new : Cardinality(s) = Min({free, Cardinality(new)})}}

\* What open_questions of the round may be: those still visible, then the
\* agenda's, then the synthesis' own.  Only a host's agenda is filtered.  The
\* mutants forget the questions of earlier rounds, and list them last.
ThisRoundsQuestions(agenda, out) ==
    UNION {Filled(first, out.open \ Answered) : first \in Filled({}, agenda)}
NewestFirst(agenda, out) ==
    UNION {Filled(first, Visible) : first \in Filled({}, agenda \cup (out.open \ Answered))}
OpenQuestions(agenda, out) ==
    UNION {Filled(first, out.open \ Answered) :
              first \in UNION {Filled(visible, agenda) : visible \in Filled({}, Visible)}}
AgendaQuestions ==
    IF Topology = "host_led" THEN SUBSET (Questions \ Answered) ELSE SUBSET Questions
LeftOpen(out) == UNION {OpenQuestions(agenda, out) : agenda \in AgendaQuestions}

\* signals_after_round with the measurements of the round, and the mutant
\* that does not clamp them.
Unclamped(m, out, open) ==
    LET boost == Min({120, 30 * out.agreement}) IN
    [support |-> m.mean + boost + 40,
     confidence |-> m.mean - 30 * Cardinality(open) + 20,
     risk |-> RoutingRisk + 15 * Cardinality(open),
     margin |-> m.margin + boost \div 2,
     disagreement |-> m.disagreement + 40 * out.disagreement - boost]
SignalsAfterRound(m, out, open) ==
    LET penalty == Min({120, 30 * Cardinality(open)})
        boost == Min({120, 30 * out.agreement})
        adjustment == Min({160, 40 * out.disagreement})
    IN [support |-> Min({970, m.mean + boost + 40}),
        confidence |-> Max({300, Min({970, m.mean - penalty + 20})}),
        risk |-> Min({350, RoutingRisk + penalty \div 2}),
        margin |-> Min({240, m.margin + boost \div 2}),
        disagreement |-> Max({150, Min({950, m.disagreement + adjustment - boost})})]

\* HybridConsensusStrategy.evaluate.
Score(s) == 50 * s.support + 35 * s.confidence - 15 * s.risk
ThresholdReached(s) ==
    Score(s) >= 75000 /\ s.margin >= 120 /\ s.disagreement <= 350

\* rounds_without_progress of signals_after_round.
Stall(out) == IF candidate = out.candidate /\ round > 1 THEN 1 ELSE 0

\* _is_stable_follow_up_outcome, and the mutant that counts rounds from zero.
FollowUpFromThirdRound(out) ==
    /\ round > 2
    /\ out.conclusion = "follow_up_required"
    /\ conclusion = "follow_up_required"
    /\ candidate = out.candidate
StableFollowUp(out) ==
    /\ round > 1
    /\ out.conclusion = "follow_up_required"
    /\ conclusion = "follow_up_required"
    /\ candidate = out.candidate

\* resolve_round_end_signal, then the round budget of the runtime.
EndOf(out, signals) ==
    IF ThresholdReached(signals) THEN "consensus"
    ELSE IF ShouldEndMeeting(out) THEN "synthesis"
    ELSE IF StableFollowUp(out) THEN "follow_up"
    ELSE IF round = MaxRounds THEN "budget"
    ELSE ""

-----------------------------------------------------------------------------
\* No rule tells transcripts of this length and longer ones apart.
DepthCap == 7
Grown(entries) == Min({DepthCap, depth + entries})

\* The advice a summary leaves, and the mutant that keeps an old one.
AdviceKept(out) ==
    [phase |-> IF out.phase = "" THEN advice.phase ELSE out.phase,
     action |-> out.action]
AdviceOf(out) == [phase |-> out.phase, action |-> out.action]

NoRound ==
    [signals |-> [support |-> 0, confidence |-> 0, risk |-> 0, margin |-> 0,
                  disagreement |-> 1000],
     stall |-> 0]

Init ==
    /\ round = 1
    /\ depth = 0
    /\ heard = FALSE
    /\ candidate = ""
    /\ conclusion = ""
    /\ questions \in {q \in SUBSET Questions : Cardinality(q) <= BriefLimit}
    /\ consensus = [support |-> 0, disagreement |-> 1000]
    /\ advice = [phase |-> "", action |-> ""]
    /\ last = NoRound
    /\ history = <<>>
    /\ ended = ""

HumanMessage ==
    /\ ended = ""
    /\ heard' = TRUE
    /\ depth' = Grown(1)
    /\ UNCHANGED <<round, candidate, conclusion, questions, consensus, advice,
                   last, history, ended>>

\* A round is planned, spoken, evaluated and projected.  Its transcript has
\* the host, the speakers, a handoff, and challenges of all but the first.
Round(m, out, open, challenges) ==
    /\ ended = ""
    /\ LET signals == SignalsAfterRound(m, out, open)
           handoff == IF Coordination(Phase) = "handoff" THEN 1 ELSE 0
       IN
        /\ ended' = EndOf(out, signals)
        /\ last' = [signals |-> signals, stall |-> Stall(out)]
        /\ history' = Append(history,
              [phase |-> Phase, advised |-> advice.phase # "",
               advises |-> out.phase # "", open |-> open,
               candidate |-> out.candidate, conclusion |-> out.conclusion])
        /\ questions' = open
        /\ consensus' = [support |-> signals.support,
                         disagreement |-> signals.disagreement]
        /\ depth' = Grown(1 + m.speakers + handoff + challenges)
    /\ round' = IF ended' = "" THEN round + 1 ELSE round
    /\ candidate' = out.candidate
    /\ conclusion' = out.conclusion
    /\ advice' = AdviceOf(out)
    /\ UNCHANGED heard

Next ==
    \/ HumanMessage
    \/ \E out \in SynthesisOutput :
          \E open \in LeftOpen(out), m \in Measurements :
             \E challenges \in 0..(m.speakers - 1) : Round(m, out, open, challenges)

Spec == Init /\ [][Next]_vars

-----------------------------------------------------------------------------
(* Properties.                                                             *)

Signals ==
    [support : 0..970, confidence : {0} \cup 300..970, risk : 0..350,
     margin : 0..240, disagreement : 150..1000]
Consensuses == [support : 0..970, disagreement : 150..1000]
Advices == [phase : AdvisedPhases \cup {""}, action : AdvisedActions \cup {""}]
Ends == {"", "consensus", "synthesis", "follow_up", "budget"}

\* Every variable, and every signal, is in its range.
TypeOK ==
    /\ round \in 1..MaxRounds
    /\ depth \in 0..DepthCap
    /\ heard \in BOOLEAN
    /\ candidate \in Candidates \cup {""}
    /\ conclusion \in Conclusions \cup {""}
    /\ questions \subseteq Questions /\ Cardinality(questions) <= QuestionLimit
    /\ consensus \in Consensuses
    /\ advice \in Advices
    /\ last.signals \in Signals /\ last.stall \in {0, 1}
    /\ Len(history) \in 0..MaxRounds
    /\ ended \in Ends

\* No round that measured its claims reaches the consensus threshold: the
\* margin of a single cluster is too small, and of several the disagreement
\* too large, whatever the synthesis adds.  A meeting ends by the word of the
\* synthesis, by a repeated follow-up or by the budget.
ThresholdIsOutOfReach == ~ThresholdReached(last.signals) /\ ended # "consensus"

\* A question once raised stays open: unless the synthesis advises it, no
\* later round is planned to decide.
RaisedQuestionBlocksDecide ==
    \A i, j \in DOMAIN history :
        i < j /\ history[i].open \ Answered # {} /\ ~history[j].advised
            => history[j].phase # "decide"

\* A question that is not answered keeps its place in the list however many
\* new ones a round raises: the limit cuts new questions only.
NoQuestionIsDisplaced == [][Visible \subseteq questions']_vars

\* Once a round has proposed a decision the rules keep converging on it, and
\* no message of the operator takes the meeting back to debate.
ProposalSettlesThePhase ==
    \A j \in 2..Len(history) :
        ~history[j].advised => history[j].phase \in {"synthesize", "decide"}

\* The phase a synthesis advises is that of the next round and of no later
\* one: a round is advised exactly when the round before it advises.
AdviceLastsOneRound ==
    \A j \in DOMAIN history :
        history[j].advised <=> j > 1 /\ history[j - 1].advises

\* Two rounds in a row that conclude with the same follow-up are the last.
RepeatedFollowUpEnds ==
    \A i \in 1..(Len(history) - 1) :
        /\ history[i].conclusion = "follow_up_required"
        /\ history[i + 1].conclusion = "follow_up_required"
        /\ history[i].candidate = history[i + 1].candidate
        => i + 1 = Len(history) /\ ended # ""

=============================================================================
