--------------------------- MODULE RoundBuildProofs ---------------------------
(***************************************************************************)
(* Theorems of RoundBuild about the calls under its agents, the tools they *)
(* find, the turns they are given and the contract of a build, for every   *)
(* roster, budget, number of attempts and targets.                         *)
(***************************************************************************)
EXTENDS RoundBuild, ListingProofs

-----------------------------------------------------------------------------
(* Routing.                                                                *)

\* The larger of two numbers.
LEMMA LargerOfTwo ==
    ASSUME NEW m \in Nat, NEW n \in Nat
    PROVE  /\ Larger(m, n) \in Nat
           /\ Larger(m, n) >= m
           /\ Larger(m, n) = m \/ Larger(m, n) = n
BY DEF Larger

\* What a failure makes of the signals, field by field.
LEMMA AfterFailureFields ==
    ASSUME NEW s \in Signals, NEW error, limit \in Nat
    PROVE  /\ AfterFailure(s, error) \in Signals
           /\ AfterFailure(s, error).strained = s.strained
           /\ s.unreachable => AfterFailure(s, error).unreachable
           /\ AfterFailure(s, error).unreachable /\ ~s.unreachable
                => error \in {"network", "server_error"}
           /\ AfterFailure(s, error).timeouts >= s.timeouts
           /\ AfterFailure(s, error).timeouts # s.timeouts
                => error = "timeout" /\ AfterFailure(s, error).timeouts = limit
           /\ AfterFailure(s, error).limited >= s.limited
           /\ AfterFailure(s, error).limited # s.limited
                => error = "rate_limited" /\ AfterFailure(s, error).limited = limit
<1> DEFINE after == AfterFailure(s, error)
<1>1. s.timeouts \in Nat /\ s.limited \in Nat
    BY DEF Signals
<1>2. CASE error = "timeout"
    <2>1. after = [s EXCEPT !.timeouts = Larger(s.timeouts, limit)]
        BY <1>2 DEF AfterFailure
    <2> QED BY <1>1, <1>2, <2>1, LargerOfTwo DEF Signals
<1>3. CASE error = "rate_limited"
    <2>1. after = [s EXCEPT !.limited = Larger(s.limited, limit)]
        BY <1>3 DEF AfterFailure
    <2> QED BY <1>1, <1>3, <2>1, LargerOfTwo DEF Signals
<1>4. CASE error \in {"network", "server_error"}
    <2>1. after = [s EXCEPT !.unreachable = TRUE]
        BY <1>4 DEF AfterFailure
    <2>2. after.unreachable = TRUE /\ after.timeouts = s.timeouts
          /\ after.limited = s.limited /\ after.strained = s.strained
        BY <2>1 DEF Signals
    <2>3. after \in Signals
        BY <2>1 DEF Signals
    <2> QED BY <1>1, <1>4, <2>2, <2>3
<1>5. CASE error \notin {"timeout", "rate_limited", "network", "server_error"}
    <2>1. after = s
        BY <1>5 DEF AfterFailure
    <2> QED BY <1>1, <2>1
<1> QED BY <1>2, <1>3, <1>4, <1>5

\* A disaster stays one through further failures.
LEMMA DisasterLasts ==
    ASSUME NEW s \in Signals, NEW error, limit \in Nat, Disaster(s)
    PROVE  Disaster(AfterFailure(s, error))
<1> DEFINE after == AfterFailure(s, error)
<1>1. /\ after \in Signals
      /\ s.unreachable => after.unreachable
      /\ after.timeouts >= s.timeouts
      /\ after.limited >= s.limited
    BY AfterFailureFields
<1>2. s.timeouts \in Nat /\ s.limited \in Nat /\ after.timeouts \in Nat /\ after.limited \in Nat
    BY <1>1 DEF Signals
<1>3. CASE s.unreachable
    BY <1>1, <1>3 DEF Disaster
<1>4. CASE s.timeouts >= 2
    BY <1>1, <1>2, <1>4 DEF Disaster, MaxTimeouts
<1>5. CASE s.limited >= 2
    BY <1>1, <1>2, <1>5 DEF Disaster, MaxRateLimits
<1> QED BY <1>3, <1>4, <1>5 DEF Disaster, MaxTimeouts, MaxRateLimits

\* Only a disaster changes the route, as strain is what it was.
LEMMA OnlyDisasterReroutes ==
    ASSUME NEW s \in Signals, NEW error, limit \in Nat,
           Route(AfterFailure(s, error)) # Route(s)
    PROVE  ~Disaster(s) /\ Disaster(AfterFailure(s, error))
<1>1. AfterFailure(s, error).strained = s.strained
    BY AfterFailureFields
<1>2. Disaster(s) => Disaster(AfterFailure(s, error))
    BY DisasterLasts
<1> QED BY <1>1, <1>2 DEF Route, Tier

\* Signals that tell of no failure.
Clean(s) == ~s.unreachable /\ s.timeouts = 0 /\ s.limited = 0

\* The errors that explain a fallback: an outage, or a time-out or a rate
\* limit of a call with at least as many attempts as the policy counts.
Explains(error) ==
    \/ error \in {"network", "server_error"}
    \/ error = "timeout" /\ limit >= MaxTimeouts
    \/ error = "rate_limited" /\ limit >= MaxRateLimits

\* A first disaster has its explanation in the failure that made it.
LEMMA FirstDisasterExplained ==
    ASSUME NEW s \in Signals, NEW error, limit \in Nat, Clean(s),
           Disaster(AfterFailure(s, error))
    PROVE  Explains(error)
<1> DEFINE after == AfterFailure(s, error)
<1>1. /\ after.unreachable /\ ~s.unreachable => error \in {"network", "server_error"}
      /\ after.timeouts # s.timeouts => error = "timeout" /\ after.timeouts = limit
      /\ after.limited # s.limited => error = "rate_limited" /\ after.limited = limit
    BY AfterFailureFields
<1>2. after.unreachable \/ after.timeouts >= 2 \/ after.limited >= 2
    BY DEF Disaster, MaxTimeouts, MaxRateLimits
<1> HIDE DEF after
<1>3. CASE after.unreachable
    BY <1>1, <1>3 DEF Clean, Explains
<1>4. CASE after.timeouts >= 2
    BY <1>1, <1>4 DEF Clean, Explains, MaxTimeouts
<1>5. CASE after.limited >= 2
    BY <1>1, <1>5 DEF Clean, Explains, MaxRateLimits
<1> QED BY <1>2, <1>3, <1>4, <1>5

-----------------------------------------------------------------------------
(* The invariant of the calls.                                             *)

\* The route is the one the signals select; they tell of nothing before the
\* first reroute and of an explained disaster from then on.
CallsExplained ==
    /\ route = Route(sig)
    /\ reroutes = 0 => Clean(sig)
    /\ reroutes > 0 => Disaster(sig) /\ Explains(cause)

\* While an agent works there is an attempt left.
AttemptLeft == Working => tries < limit

CInv == CallTypeOK /\ CallsExplained /\ AttemptLeft

\* An attempt limit is a positive number.
LEMMA LimitIsPositive ==
    ASSUME CallTypeOK
    PROVE  limit \in Nat /\ limit >= 1
BY LimitsAssumption DEF CallTypeOK

\* Tiers and routes.
LEMMA RouteIsATarget ==
    ASSUME NEW s
    PROVE  Tier(s) \in Tiers /\ Route(s) \in {Target[t] : t \in Tiers}
BY DEF Tier, Route, Tiers

\* No call is given more attempts than the limit.
LEMMA PatienceWithinLimit ==
    ASSUME CallTypeOK
    PROVE  Patience \in Nat /\ Patience >= 1 /\ Patience <= limit
BY LimitIsPositive DEF Patience, FallbackAttempts

\* A build begins with clean signals and their route.
LEMMA CallsBegin == Init => CInv
<1> SUFFICES ASSUME Init PROVE CInv
    OBVIOUS
<1>1. PICK strained \in BOOLEAN : sig = SignalsForRound(strained)
                                  /\ route = Route(SignalsForRound(strained))
    BY DEF Init
<1>2. limit \in AttemptLimits /\ tries = 0 /\ rerouted = FALSE /\ reroutes = 0 /\ cause = "none"
    BY DEF Init
<1>3. limit \in Nat /\ limit >= 1
    BY <1>2, LimitsAssumption
<1>4. sig \in Signals /\ Clean(sig)
    BY <1>1 DEF SignalsForRound, Signals, Clean
<1>5. route = Route(sig) /\ route \in {Target[t] : t \in Tiers}
    BY <1>1, RouteIsATarget
<1>6. CallTypeOK
    <2>1. tries \in 0..limit /\ reroutes \in Nat
        BY <1>2, <1>3
    <2> QED BY <1>2, <1>4, <1>5, <2>1, Zenon DEF CallTypeOK
<1>7. CallsExplained
    BY <1>2, <1>4, <1>5 DEF CallsExplained
<1>8. AttemptLeft
    BY <1>2, <1>3 DEF AttemptLeft
<1> QED BY <1>6, <1>7, <1>8 DEF CInv

\* What a step does to the calls: an answer, nothing, or a failed attempt.
LEMMA CallSteps ==
    ASSUME Next
    PROVE  \/ Answered
           \/ UNCHANGED callVars /\ (Working' => Working)
           \/ /\ Working
              /\ \E error : TryAgain(error, Patience) \/ Reroute(error)
           \/ /\ Working
              /\ \E error : GiveUp(error, Patience)
              /\ ~Working'
<1>1. CASE Cancel
    BY <1>1 DEF Cancel, Working
<1>2. CASE ToolsChange
    BY <1>2 DEF ToolsChange, buildVars, Working
<1>3. ASSUME NEW error, AttemptFails(error)
      PROVE  \/ Working /\ (TryAgain(error, Patience) \/ Reroute(error))
             \/ Working /\ GiveUp(error, Patience) /\ ~Working'
    BY <1>3 DEF AttemptFails, Raise, Working
<1>4. ASSUME AgentStep, \A error : ~AttemptFails(error)
      PROVE  Answered
    BY <1>4 DEF AgentStep, HostSelects, SupervisorSelects, Emit, Think, CallTool,
       Synthesize, AnswerUnparseable, RefuseAnswer
<1> QED BY <1>1, <1>2, <1>3, <1>4 DEF Next

\* An answer, and a step that leaves the calls alone, keep the invariant.
LEMMA QuietKeeps ==
    ASSUME CInv, Answered \/ (UNCHANGED callVars /\ (Working' => Working))
    PROVE  CInv'
<1>1. limit' = limit /\ sig' = sig /\ route' = route /\ reroutes' = reroutes /\ cause' = cause
    BY DEF Answered, callVars
<1>2. CallsExplained'
    <2>1. Route(sig)' = Route(sig)
        BY <1>1 DEF Route, Tier, Disaster
    <2> QED
        BY <1>1, <2>1 DEF CInv, CallsExplained, Clean, Disaster, Explains
<1>3. limit \in Nat /\ limit >= 1
    BY LimitIsPositive DEF CInv
<1>4. CASE Answered
    <2>1. tries' = 0 /\ rerouted' = FALSE
        BY <1>4 DEF Answered
    <2>2. CallTypeOK'
        <3>1. tries' \in 0..limit
            BY <1>3, <2>1
        <3> QED BY <1>1, <2>1, <3>1, Zenon DEF CInv, CallTypeOK
    <2>3. AttemptLeft'
        BY <1>1, <1>3, <2>1 DEF AttemptLeft
    <2> QED BY <1>2, <2>2, <2>3 DEF CInv
<1>5. CASE UNCHANGED callVars /\ (Working' => Working)
    <2>1. tries' = tries /\ rerouted' = rerouted
        BY <1>5 DEF callVars
    <2>2. CallTypeOK'
        BY <1>1, <2>1 DEF CInv, CallTypeOK
    <2>3. AttemptLeft'
        BY <1>1, <1>5, <2>1 DEF CInv, AttemptLeft
    <2> QED BY <1>2, <2>2, <2>3 DEF CInv
<1> QED BY <1>4, <1>5

\* So does another attempt on the same route.
LEMMA TryAgainKeeps ==
    ASSUME CInv, NEW error, TryAgain(error, Patience)
    PROVE  CInv'
<1>1. UNCHANGED <<limit, sig, route, rerouted, reroutes, cause>>
      /\ tries' = tries + 1 /\ tries + 1 < Patience
    BY DEF TryAgain
<1>2. limit \in Nat /\ Patience \in Nat /\ Patience <= limit /\ tries \in Nat
    BY LimitIsPositive, PatienceWithinLimit DEF CInv, CallTypeOK
<1>3. tries' \in 0..limit /\ tries' < limit
    BY <1>1, <1>2
<1>4. Route(sig)' = Route(sig)
    BY <1>1 DEF Route, Tier, Disaster
<1> QED
    BY <1>1, <1>3, <1>4 DEF CInv, CallTypeOK, CallsExplained, AttemptLeft, Clean,
       Disaster, Explains

\* A reroute is the first one of the round, and its error explains it.
LEMMA RerouteKeeps ==
    ASSUME CInv, NEW error, Reroute(error)
    PROVE  CInv' /\ reroutes = 0
<1> DEFINE after == AfterFailure(sig, error)
<1>1. /\ sig' = after /\ route' = Route(after) /\ tries' = 0 /\ rerouted' = TRUE
      /\ reroutes' = reroutes + 1 /\ cause' = error /\ limit' = limit
      /\ error \in Transient /\ Route(after) # route
    BY DEF Reroute
<1>2. limit \in Nat /\ limit >= 1 /\ sig \in Signals /\ reroutes \in Nat /\ route = Route(sig)
    BY LimitIsPositive DEF CInv, CallTypeOK, CallsExplained
<1>3. ~Disaster(sig) /\ Disaster(after)
    BY <1>1, <1>2, OnlyDisasterReroutes
<1>4. reroutes = 0 /\ Clean(sig)
    BY <1>2, <1>3 DEF CInv, CallsExplained
<1>5. Explains(error)
    BY <1>2, <1>3, <1>4, FirstDisasterExplained
<1>6. after \in Signals
    BY <1>2, AfterFailureFields
<1> HIDE DEF after
<1>7. CallsExplained'
    <2>1. Route(sig)' = Route(after) /\ (Disaster(sig)' <=> Disaster(after))
        BY <1>1 DEF Route, Tier, Disaster
    <2>2. Explains(cause)'
        BY <1>1, <1>5 DEF Explains
    <2>3. reroutes' = 1
        BY <1>1, <1>4
    <2> QED BY <1>1, <1>3, <2>1, <2>2, <2>3 DEF CallsExplained
<1>8. CallTypeOK'
    BY <1>1, <1>2, <1>6, RouteIsATarget DEF CallTypeOK, CInv
<1> QED BY <1>1, <1>2, <1>4, <1>7, <1>8 DEF CInv, AttemptLeft

\* A call that is given up ends the build.
LEMMA GiveUpKeeps ==
    ASSUME CInv, Working, NEW error, GiveUp(error, Patience), ~Working'
    PROVE  CInv'
<1>1. UNCHANGED <<limit, sig, route, rerouted, reroutes, cause>> /\ tries' = tries + 1
    BY DEF GiveUp
<1>2. tries < limit /\ limit \in Nat /\ tries \in Nat
    BY LimitIsPositive DEF CInv, CallTypeOK, AttemptLeft
<1>3. tries' \in 0..limit
    BY <1>1, <1>2
<1>4. Route(sig)' = Route(sig)
    BY <1>1 DEF Route, Tier, Disaster
<1> QED
    BY <1>1, <1>3, <1>4 DEF CInv, CallTypeOK, CallsExplained, AttemptLeft, Clean,
       Disaster, Explains

\* No step breaks the invariant of the calls.
LEMMA CallsStep == CInv /\ [Next]_vars => CInv'
<1> SUFFICES ASSUME CInv, [Next]_vars PROVE CInv'
    OBVIOUS
<1>1. CASE UNCHANGED vars
    BY <1>1, QuietKeeps DEF vars, buildVars, Working
<1>2. CASE Next
    BY <1>2, CallSteps, QuietKeeps, TryAgainKeeps, RerouteKeeps, GiveUpKeeps
<1> QED BY <1>1, <1>2

\* The invariant of every behaviour.
LEMMA CallsInvariance == Spec => []CInv
BY CallsBegin, CallsStep, PTL DEF Spec

-----------------------------------------------------------------------------
(* Theorems of the calls.                                                  *)

\* Routes, signals and counters keep their kinds, and no route is tried more
\* often than MODEL_REQUEST_MAX_ATTEMPTS says.
THEOREM CallsTyped == Spec => []CallTypeOK
<1>1. CInv => CallTypeOK
    BY DEF CInv
<1> QED BY <1>1, CallsInvariance, PTL

\* The fallback target is used for an outage, or for as many time-outs or
\* rate limits as the policy asks for, and for nothing else.
THEOREM FallbackExplained == Spec => []FallbackNeedsADisaster
<1>1. CInv => FallbackNeedsADisaster
    <2> SUFFICES ASSUME CInv, \A t \in Tiers \ {"fallback"} : Target[t] # Target["fallback"],
                        route = Target["fallback"]
                 PROVE  Explains(cause)
        BY DEF FallbackNeedsADisaster, Explains
    <2>1. Target[Tier(sig)] = Target["fallback"]
        BY DEF CInv, CallsExplained, Route
    <2>2. Tier(sig) = "fallback"
        BY <2>1, RouteIsATarget
    <2>3. Disaster(sig)
        BY <2>2 DEF Tier
    <2>4. sig \in Signals /\ reroutes \in Nat
        BY DEF CInv, CallTypeOK
    <2>5. ~Clean(sig)
        BY <2>3, <2>4 DEF Clean, Disaster, MaxTimeouts, MaxRateLimits
    <2>6. reroutes > 0
        BY <2>4, <2>5 DEF CInv, CallsExplained
    <2> QED BY <2>6 DEF CInv, CallsExplained
<1> QED BY <1>1, CallsInvariance, PTL

\* A round that has left a dead route never goes back to it, whichever agent
\* calls next.
THEOREM DeadRoutesStayDead == Spec => RerouteLasts
<1>1. ASSUME CInv, [Next]_vars, CInv', reroutes > 0
      PROVE  route' = route /\ Disaster(sig')
    <2>1. Disaster(sig) /\ reroutes # 0 /\ sig \in Signals
        BY <1>1 DEF CInv, CallsExplained, CallTypeOK
    <2>2. UNCHANGED <<sig, route>>
        <3>1. CASE UNCHANGED vars
            BY <3>1 DEF vars, callVars
        <3>2. CASE Next
            <4>1. \A error : ~Reroute(error)
                BY <1>1, <2>1, RerouteKeeps
            <4> QED
                BY <3>2, <4>1, CallSteps DEF Answered, callVars, TryAgain, GiveUp
        <3> QED BY <1>1, <3>1, <3>2
    <2> QED BY <2>1, <2>2
<1>2. CInv /\ [Next]_vars /\ CInv' => [reroutes > 0 => route' = route /\ Disaster(sig')]_vars
    BY <1>1
<1> QED BY <1>2, CallsInvariance, PTL DEF Spec, RerouteLasts

-----------------------------------------------------------------------------
(* Tools.                                                                  *)

\* What is registered answers to its name, and no healthy tool has failed.
ToolsInv ==
    /\ refused = FALSE
    /\ \A name \in DOMAIN registry : Reaches(registry[name])

\* Discovery without a prefix registers tools their server knows by name.
LEMMA DiscoveryReaches ==
    ASSUME Prefix = <<>>, ServedTools \subseteq Seq(STRING), NEW name \in ServedTools
    PROVE  Prefix \o name = name /\ Reaches(Adapter(Prefix \o name))
BY DEF Reaches, Adapter, Served

\* A change of the registry keeps every registered tool within reach.
LEMMA RegistryKeeps ==
    ASSUME Prefix = <<>>, ServedTools \subseteq Seq(STRING), ToolsInv, RegistryChanges
    PROVE  ToolsInv'
<1>1. ASSUME NEW new \in LocalTools, Register(new) PROVE ToolsInv'
    <2>1. Reaches(Local(new))
        BY DEF Reaches, Local
    <2> QED BY <1>1, <2>1 DEF Register, ToolsInv, Reaches
<1>2. ASSUME NEW old \in Names, Unregister(old) PROVE ToolsInv'
    BY <1>2 DEF Unregister, ToolsInv, Reaches
<1>3. CASE RegisterMcpTools
    <2> DEFINE found == {Prefix \o name : name \in ServedTools} \ DOMAIN registry
    <2>1. \A n \in found : Reaches(Adapter(n))
        BY DiscoveryReaches
    <2>2. registry' = [n \in DOMAIN registry \cup found |->
                          IF n \in found THEN Adapter(n) ELSE registry[n]]
          /\ refused' = refused
        BY <1>3 DEF RegisterMcpTools
    <2> HIDE DEF found
    <2> QED BY <2>1, <2>2 DEF ToolsInv, Reaches
<1> QED BY <1>1, <1>2, <1>3 DEF RegistryChanges

\* A tool found without a prefix answers whenever its server does, however
\* the registry changes meanwhile (register_mcp_tools, ToolRegistry.dispatch).
THEOREM UnprefixedToolsAnswer ==
    ASSUME Prefix = <<>>, ServedTools \subseteq Seq(STRING)
    PROVE  Spec => []DiscoveredToolsAnswer
<1>1. Init => ToolsInv
    BY DEF Init, ToolsInv
<1>2. ToolsInv /\ [Next]_vars => ToolsInv'
    <2> SUFFICES ASSUME ToolsInv, [Next]_vars PROVE ToolsInv'
        OBVIOUS
    <2>1. ASSUME UNCHANGED <<registry, refused>> PROVE ToolsInv'
        BY <2>1 DEF ToolsInv, Reaches
    <2>2. CASE ToolsChange
        BY <2>2, RegistryKeeps DEF ToolsChange
    <2>3. ASSUME NEW name, NEW outcome, CallTool(name, outcome) PROVE ToolsInv'
        <3>1. name \in DOMAIN registry /\ outcome = "result" => Dispatch(name, outcome)
            BY DEF ToolsInv, Dispatch
        <3>2. UNCHANGED registry /\ refused' = FALSE
            BY <2>3, <3>1 DEF CallTool, ToolsInv
        <3> QED BY <3>2 DEF ToolsInv, Reaches
    <2>4. CASE Cancel
        BY <2>1, <2>4 DEF Cancel
    <2>5. CASE UNCHANGED vars
        BY <2>1, <2>5 DEF vars
    <2>6. ASSUME AgentStep, \A name, outcome : ~CallTool(name, outcome)
          PROVE  ToolsInv'
        BY <2>1, <2>6 DEF AgentStep, HostSelects, SupervisorSelects, Emit, Think,
           Synthesize, AnswerUnparseable, AttemptFails
    <2> QED BY <2>2, <2>3, <2>4, <2>5, <2>6 DEF Next
<1>3. ToolsInv => DiscoveredToolsAnswer
    BY DEF ToolsInv, DiscoveredToolsAnswer
<1> QED BY <1>1, <1>2, <1>3, PTL DEF Spec

-----------------------------------------------------------------------------
(* The speaker plan.                                                       *)

\* Planned roles, each once.
Lineup(s) == s \in Seq(PlannedRoles) /\ Once(s)

\* The entries of an answer are sorted by a strict total order of their
\* places, whatever orders the model gave them.
LEMMA ByOrderIsTotal ==
    ASSUME NEW slots \in Seq(Slots), NEW P \in SUBSET (1..Len(slots))
    PROVE  StrictTotal(P, ByOrder(slots))
<1>1. DOMAIN slots = 1..Len(slots) /\ Len(slots) \in Nat
    OBVIOUS
<1>2. \A i \in P : i \in DOMAIN slots /\ i \in Nat /\ slots[i].order \in Nat
    <2>1. \A i \in P : i \in DOMAIN slots /\ i \in Nat /\ slots[i] \in Slots
        BY <1>1
    <2> QED BY <2>1 DEF Slots
<1>3. \A i, j \in P : <<i, j>> \in ByOrder(slots) <=>
          slots[i].order < slots[j].order \/ (slots[i].order = slots[j].order /\ i < j)
    BY <1>2 DEF ByOrder
<1> DEFINE o == [i \in P |-> slots[i].order]
<1>4. \A i \in P : o[i] \in Nat /\ o[i] = slots[i].order
    BY <1>2
<1>5. \A i, j \in P : <<i, j>> \in ByOrder(slots) <=> o[i] < o[j] \/ (o[i] = o[j] /\ i < j)
    BY <1>3, <1>4
<1> HIDE DEF o
<1>6. \A i \in P : ~(o[i] < o[i] \/ (o[i] = o[i] /\ i < i))
    BY <1>2, <1>4
<1>7. \A i, j \in P : i # j => \/ o[i] < o[j] \/ (o[i] = o[j] /\ i < j)
                               \/ o[j] < o[i] \/ (o[j] = o[i] /\ j < i)
    BY <1>2, <1>4
<1>8. \A i, j, k \in P : /\ o[i] < o[j] \/ (o[i] = o[j] /\ i < j)
                         /\ o[j] < o[k] \/ (o[j] = o[k] /\ j < k)
                         => o[i] < o[k] \/ (o[i] = o[k] /\ i < k)
    BY <1>2, <1>4
<1> QED BY <1>5, <1>6, <1>7, <1>8 DEF StrictTotal

\* The agents of a list of entries.
LEMMA AgentsOf ==
    ASSUME NEW slots \in Seq(Slots)
    PROVE  /\ Agents(slots) \in Seq(PlannedRoles \cup Strangers)
           /\ DOMAIN Agents(slots) = DOMAIN slots
           /\ Len(Agents(slots)) = Len(slots)
           /\ \A i \in DOMAIN slots : Agents(slots)[i] = slots[i].agent
<1>1. \A i \in DOMAIN slots : slots[i].agent \in PlannedRoles \cup Strangers
    <2>1. \A i \in DOMAIN slots : slots[i] \in Slots
        OBVIOUS
    <2> QED BY <2>1 DEF Slots
<1> QED BY <1>1 DEF Agents

\* What a model may answer is a list of entries.
LEMMA AnswersAreLists ==
    ASSUME NEW answer \in Answers, MaxNominations \in Nat
    PROVE  answer \in Seq(Slots)
BY DEF Answers

\* parse_host_agenda lets only planned roles through, each once.
LEMMA HostNamesALineup ==
    ASSUME NEW turns \in Seq(Slots), HostPlanIsValid(turns)
    PROVE  Lineup(Agents(turns)) /\ Agents(turns) # <<>>
<1>1. /\ Agents(turns) \in Seq(PlannedRoles \cup Strangers)
      /\ DOMAIN Agents(turns) = DOMAIN turns
      /\ Len(Agents(turns)) = Len(turns)
      /\ \A i \in DOMAIN turns : Agents(turns)[i] = turns[i].agent
    BY AgentsOf
<1>2. /\ Len(turns) >= 1
      /\ \A i \in DOMAIN Agents(turns) : Agents(turns)[i] \in PlannedRoles
      /\ \A i, j \in DOMAIN turns : turns[i].agent = turns[j].agent => i = j
    BY DEF HostPlanIsValid, ToSet
<1> DEFINE a == Agents(turns)
<1> HIDE DEF a
<1>3. a \in Seq(PlannedRoles)
    BY <1>1, <1>2 DEF a
<1>4. Once(a)
    BY <1>1, <1>2 DEF Once, a
<1>5. a # <<>>
    BY <1>1, <1>2 DEF a
<1> QED BY <1>3, <1>4, <1>5 DEF Lineup, a

\* parse_supervisor_plan keeps planned roles, each once.
LEMMA SupervisorKeepsALineup ==
    ASSUME NEW answer \in Seq(Slots)
    PROVE  /\ SupervisorSlots(answer) \in Seq(Slots)
           /\ \A i \in DOMAIN SupervisorSlots(answer) :
                 SupervisorSlots(answer)[i].agent \in PlannedRoles
           /\ \A i, j \in DOMAIN SupervisorSlots(answer) :
                 SupervisorSlots(answer)[i].agent = SupervisorSlots(answer)[j].agent => i = j
<1> DEFINE F == Firsts(Agents(answer))
           P == {i \in F : answer[i].agent \in PlannedRoles}
           R == ByOrder(answer)
           slots == SortedBy(answer, P, R)
           o == Listed(P, R)
           c == Cardinality(P)
<1>1. /\ Agents(answer) \in Seq(PlannedRoles \cup Strangers)
      /\ Len(Agents(answer)) = Len(answer)
      /\ DOMAIN answer = 1..Len(answer)
      /\ \A i \in DOMAIN answer : Agents(answer)[i] = answer[i].agent
    BY AgentsOf
<1>2. /\ F \in SUBSET (1..Len(answer)) /\ IsFiniteSet(F)
      /\ \A i, j \in F : Agents(answer)[i] = Agents(answer)[j] => i = j
    BY <1>1, FirstPlaces
<1>3. /\ P \in SUBSET (1..Len(answer)) /\ IsFiniteSet(P)
      /\ P \in SUBSET DOMAIN answer
    BY <1>1, <1>2, FS_Subset
<1>4. \A i, j \in P : answer[i].agent = answer[j].agent => i = j
    BY <1>1, <1>2
<1>5. \A i \in P : answer[i].agent \in PlannedRoles
    OBVIOUS
<1>6. StrictTotal(P, R)
    BY <1>3, ByOrderIsTotal
<1> HIDE DEF P, R, F
<1>7. o \in [1..c -> P] /\ Lists(o, P, R)
    BY <1>3, <1>6, ListedLists
<1>8. slots \in Seq(Slots) /\ DOMAIN slots = 1..c
    BY <1>3, <1>6, SortedType
<1>9. \A k \in 1..c : slots[k] = answer[o[k]] /\ o[k] \in P
    BY <1>7 DEF SortedBy
<1> HIDE DEF slots, c, o
<1>10. ASSUME NEW i \in 1..c, NEW j \in 1..c, slots[i].agent = slots[j].agent
       PROVE  i = j
    <2>1. o[i] = o[j]
        BY <1>4, <1>9, <1>10
    <2> QED BY <1>3, <1>6, <1>7, <2>1, ListedOnce DEF c
<1>11. \A i \in 1..c : slots[i].agent \in PlannedRoles
    BY <1>5, <1>9
<1>12. SupervisorSlots(answer) = slots
    BY DEF SupervisorSlots, slots, P, R, F
<1> QED BY <1>8, <1>10, <1>11, <1>12

\* The turns it wants run are a lineup.
LEMMA SupervisorNamesALineup ==
    ASSUME NEW answer \in Seq(Slots)
    PROVE  Lineup(RunnableTurns(SupervisorSlots(answer)))
<1> DEFINE s == SupervisorSlots(answer)
           P == {i \in DOMAIN s : s[i].run}
           p == Picked(s, P)
           c == Cardinality(P)
           o == InOrder(P)
<1>1. /\ s \in Seq(Slots)
      /\ \A i \in DOMAIN s : s[i].agent \in PlannedRoles
      /\ \A i, j \in DOMAIN s : s[i].agent = s[j].agent => i = j
    BY SupervisorKeepsALineup
<1>2. RunnableTurns(s) = Agents(p)
    BY DEF RunnableTurns
<1> HIDE DEF s
<1>3. DOMAIN s = 1..Len(s) /\ Len(s) \in Nat
    BY <1>1
<1>4. P \in SUBSET Nat /\ P \in SUBSET DOMAIN s /\ IsFiniteSet(P)
    BY <1>1, PlacesAreFinite
<1> HIDE DEF P
<1>5. \A k \in 1..c : o[k] \in P /\ p[k] = s[o[k]]
    <2>1. o \in [1..c -> P]
        BY <1>4, InOrderIncreases DEF Increasing
    <2> HIDE DEF c
    <2>2. \A k \in 1..c : p[k] = s[o[k]]
        BY DEF Picked, SortedBy, InOrder, c
    <2> HIDE DEF o, p
    <2> QED BY <2>1, <2>2
<1>6. p \in Seq(Slots) /\ DOMAIN p = 1..c
    BY <1>1, <1>4, PickedType
<1>7. \A k \in DOMAIN p : p[k].agent \in PlannedRoles
    BY <1>1, <1>4, <1>5, <1>6
<1>8. /\ Agents(p) \in Seq(PlannedRoles \cup Strangers)
      /\ DOMAIN Agents(p) = DOMAIN p
      /\ \A i \in DOMAIN p : Agents(p)[i] = p[i].agent
    BY <1>6, AgentsOf
<1> HIDE DEF p, o, c
<1>9. ASSUME NEW i \in DOMAIN p, NEW j \in DOMAIN p, p[i].agent = p[j].agent
      PROVE  i = j
    <2>1. i \in 1..c /\ j \in 1..c
        BY <1>6
    <2>2. s[o[i]].agent = s[o[j]].agent /\ o[i] \in DOMAIN s /\ o[j] \in DOMAIN s
        BY <1>4, <1>5, <1>9, <2>1
    <2>3. o[i] = o[j]
        BY <1>1, <2>2
    <2> QED BY <1>4, <2>1, <2>3, InOrderOnce DEF c, o
<1>10. Once(Agents(p))
    BY <1>8, <1>9 DEF Once
<1>11. Agents(p) \in Seq(PlannedRoles)
    <2>1. \A i \in DOMAIN Agents(p) : Agents(p)[i] \in PlannedRoles
        BY <1>7, <1>8
    <2> HIDE DEF Agents
    <2> QED BY <1>8, <2>1
<1> QED BY <1>2, <1>10, <1>11 DEF Lineup, s

\* Pairing specialists with turns by position loses nobody: the whole lineup
\* is assigned, in its order (resolve_turn_specialists, plan_speakers).
LEMMA NobodyIsLost ==
    ASSUME NEW s, Lineup(s), s # <<>>
    PROVE  Assigned(s) = s
<1>1. s \in Seq(PlannedRoles) /\ Once(s) /\ DOMAIN s # {}
    <2>1. s \in Seq(PlannedRoles) /\ Once(s)
        BY DEF Lineup
    <2>2. DOMAIN s = 1..Len(s) /\ Len(s) \in Nat
        BY <2>1, LenProperties
    <2>3. Len(s) # 0
        BY <2>1, EmptySeq
    <2>4. 1 \in DOMAIN s
        BY <2>2, <2>3
    <2> QED BY <2>1, <2>4
<1>2. {i \in Firsts(s) : s[i] \in PlannedRoles} = DOMAIN s
    <2>1. Firsts(s) = DOMAIN s
        BY <1>1, AllFirst
    <2>2. \A i \in DOMAIN s : s[i] \in PlannedRoles
        BY <1>1
    <2> QED BY <2>1, <2>2
<1>3. Picked(s, DOMAIN s) = s
    BY <1>1, PickedAll
<1>4. ResolveTurnSpecialists(s) = s
    BY <1>1, <1>2, <1>3 DEF ResolveTurnSpecialists
<1>5. {i \in DOMAIN s \cap DOMAIN s : s[i] = s[i]} = DOMAIN s
    OBVIOUS
<1> QED BY <1>3, <1>4, <1>5 DEF Assigned

-----------------------------------------------------------------------------
(* The turns of a round.                                                   *)

Stages == {"selecting", "speaking", "summing", "returned", "failed", "cancelled"}
Keys == {"latest_host_agenda", "host.agenda", "last_self_agenda",
         "latest_supervisor_plan", "supervisor.plan",
         "latest_claim", "specialist.claim", "last_self_claim",
         "latest_synthesis", "synthesis.summary", "last_self_synthesis"}
Authors == PlannedRoles \cup {"host", "supervisor", "synthesis"}
Written ==
    {Write(key, about) : key \in Keys, about \in Authors}
    \cup {ToolEvent(type, role) :
              type \in {"agent.tool_call", "agent.tool_result"}, role \in PlannedRoles}

\* The lineup is what the plan named; the turns taken are counted exactly,
\* and the one at work has an iteration left.
TurnsInv ==
    /\ stage \in Stages
    /\ Lineup(order)
    /\ named = order
    /\ spoken \in 0..Len(order)
    /\ stage = "selecting" => spoken = 0 /\ step = 1
    /\ stage = "speaking" => spoken < Len(order) /\ step \in 1..TurnBudget[Speaker]
    /\ stage \in {"summing", "returned"} => order # <<>> /\ spoken = Len(order)
    /\ journal \in Seq(Written)

\* The agent at work has a role, and a budget of at least one iteration.
LEMMA SpeakerIsPlanned ==
    ASSUME Lineup(order), spoken \in 0..Len(order), spoken < Len(order)
    PROVE  /\ Speaker \in PlannedRoles
           /\ TurnBudget[Speaker] \in Nat
           /\ 1 <= TurnBudget[Speaker]
           /\ spoken \in Nat /\ Len(order) \in Nat
<1>1. order \in Seq(PlannedRoles) /\ Len(order) \in Nat
    BY DEF Lineup
<1>2. spoken + 1 \in 1..Len(order)
    BY <1>1
<1>3. Speaker \in PlannedRoles
    BY <1>1, <1>2 DEF Speaker
<1> QED BY <1>1, <1>3, BudgetAssumption

\* What the agents journal.
LEMMA WritesAreWritten ==
    /\ AgendaWrites \in Seq(Written)
    /\ PlanWrites \in Seq(Written)
    /\ SynthesisWrites \in Seq(Written)
    /\ \A role \in PlannedRoles :
          /\ ClaimWrites(role) \in Seq(Written)
          /\ <<ToolEvent("agent.tool_call", role), ToolEvent("agent.tool_result", role)>>
                \in Seq(Written)
<1>1. /\ \A key \in Keys, about \in Authors : Write(key, about) \in Written
      /\ \A type \in {"agent.tool_call", "agent.tool_result"}, role \in PlannedRoles :
            ToolEvent(type, role) \in Written
    BY DEF Written
<1>2. /\ {"host", "supervisor", "synthesis"} \subseteq Authors
      /\ PlannedRoles \subseteq Authors
    BY DEF Authors
<1>3. AgendaWrites \in Seq(Written)
    <2>1. /\ Write("latest_host_agenda", "host") \in Written
          /\ Write("host.agenda", "host") \in Written
          /\ Write("last_self_agenda", "host") \in Written
        BY <1>1, <1>2 DEF Keys
    <2> QED BY <2>1 DEF AgendaWrites
<1>4. PlanWrites \in Seq(Written)
    <2>1. /\ Write("latest_supervisor_plan", "supervisor") \in Written
          /\ Write("supervisor.plan", "supervisor") \in Written
        BY <1>1, <1>2 DEF Keys
    <2> QED BY <2>1 DEF PlanWrites
<1>5. SynthesisWrites \in Seq(Written)
    <2>1. /\ Write("latest_synthesis", "synthesis") \in Written
          /\ Write("synthesis.summary", "synthesis") \in Written
          /\ Write("last_self_synthesis", "synthesis") \in Written
        BY <1>1, <1>2 DEF Keys
    <2> QED BY <2>1 DEF SynthesisWrites
<1>6. ASSUME NEW role \in PlannedRoles PROVE ClaimWrites(role) \in Seq(Written)
    <2>1. /\ Write("latest_claim", role) \in Written
          /\ Write("specialist.claim", role) \in Written
          /\ Write("last_self_claim", role) \in Written
        BY <1>1, <1>2 DEF Keys
    <2> QED BY <2>1 DEF ClaimWrites
<1>7. ASSUME NEW role \in PlannedRoles
      PROVE  <<ToolEvent("agent.tool_call", role), ToolEvent("agent.tool_result", role)>>
                \in Seq(Written)
    <2>1. /\ ToolEvent("agent.tool_call", role) \in Written
          /\ ToolEvent("agent.tool_result", role) \in Written
        BY <1>1
    <2> QED BY <2>1
<1> QED BY <1>3, <1>4, <1>5, <1>6, <1>7

\* The journal grows by what is appended.
LEMMA JournalGrows ==
    ASSUME NEW j \in Seq(Written), NEW es \in Seq(Written)
    PROVE  /\ j \o es \in Seq(Written)
           /\ Len(j \o es) \in Nat /\ Len(j \o es) >= Len(j)
OBVIOUS

\* The plan opens the round with everybody it named.
LEMMA PlanKeeps ==
    ASSUME TurnsInv, stage = "selecting", NEW lineup, Lineup(lineup), lineup # <<>>,
           named' = lineup, order' = Assigned(lineup), stage' = "speaking",
           UNCHANGED <<spoken, step>>, NEW es \in Seq(Written), journal' = journal \o es
    PROVE  TurnsInv'
<1>1. order' = lineup
    BY NobodyIsLost
<1>2. /\ spoken = 0 /\ step = 1 /\ journal \in Seq(Written)
      /\ lineup \in Seq(PlannedRoles)
    BY DEF TurnsInv, Lineup
<1>3. Len(lineup) \in Nat /\ Len(lineup) > 0
    BY <1>2
<1>4. lineup[1] \in PlannedRoles
    BY <1>2, <1>3
<1>5. Speaker' = lineup[1]
    BY <1>1, <1>2 DEF Speaker
<1>6. step' \in 1..TurnBudget[Speaker]'
    BY <1>2, <1>4, <1>5, BudgetAssumption
<1>7. journal' \in Seq(Written)
    BY <1>2, JournalGrows
<1>8. spoken' = 0 /\ spoken' \in 0..Len(order)' /\ spoken' < Len(order)'
    BY <1>1, <1>2, <1>3
<1> QED BY <1>1, <1>6, <1>7, <1>8 DEF TurnsInv, Stages, Lineup, Once

\* The host selects.
LEMMA HostSelectsKeeps ==
    ASSUME TurnsInv, NEW answer \in Answers, HostSelects(answer)
    PROVE  TurnsInv'
<1>1. answer \in Seq(Slots)
    BY AnswersAreLists, NominationsAssumption
<1>2. ASSUME stage' = "failed", UNCHANGED <<named, order, spoken, step, journal>>
      PROVE  TurnsInv'
    BY <1>2 DEF TurnsInv, Stages, Lineup, Once
<1>3. ASSUME HostPlanIsValid(answer), named' = Agents(answer),
             order' = Assigned(Agents(answer)), stage' = "speaking",
             journal' = journal \o AgendaWrites, UNCHANGED <<spoken, step>>
      PROVE  TurnsInv'
    <2>1. Lineup(Agents(answer)) /\ Agents(answer) # <<>>
        BY <1>1, <1>3, HostNamesALineup
    <2>2. stage = "selecting" /\ AgendaWrites \in Seq(Written)
        BY WritesAreWritten DEF HostSelects
    <2> QED BY <1>3, <2>1, <2>2, PlanKeeps
<1> QED BY <1>2, <1>3 DEF HostSelects, RefuseAnswer, Raise, planVars, turnVars

\* The supervisor selects.
LEMMA SupervisorSelectsKeeps ==
    ASSUME TurnsInv, NEW answer \in Answers, SupervisorSelects(answer)
    PROVE  TurnsInv'
<1> DEFINE runnable == RunnableTurns(SupervisorSlots(answer))
<1>1. Lineup(runnable)
    BY AnswersAreLists, NominationsAssumption, SupervisorNamesALineup
<1> HIDE DEF runnable
<1>2. ASSUME stage' = "failed", UNCHANGED <<named, order, spoken, step>>,
             journal' \in Seq(Written)
      PROVE  TurnsInv'
    BY <1>2 DEF TurnsInv, Stages, Lineup, Once
<1>3. stage = "selecting" /\ PlanWrites \in Seq(Written) /\ journal \in Seq(Written)
    BY WritesAreWritten DEF SupervisorSelects, TurnsInv
<1>4. journal \o PlanWrites \in Seq(Written)
    BY <1>3, JournalGrows
<1>5. ASSUME runnable # <<>>, named' = runnable, order' = Assigned(runnable),
             stage' = "speaking", journal' = journal \o PlanWrites,
             UNCHANGED <<spoken, step>>
      PROVE  TurnsInv'
    BY <1>1, <1>3, <1>5, PlanKeeps
<1>6. \/ stage' = "failed" /\ UNCHANGED <<named, order, spoken, step, journal>>
      \/ stage' = "failed" /\ UNCHANGED <<named, order, spoken, step>>
         /\ journal' = journal \o PlanWrites
      \/ runnable # <<>> /\ named' = runnable /\ order' = Assigned(runnable)
         /\ stage' = "speaking" /\ journal' = journal \o PlanWrites
         /\ UNCHANGED <<spoken, step>>
    BY DEF SupervisorSelects, RefuseAnswer, Raise, planVars, turnVars, runnable
<1> QED BY <1>2, <1>3, <1>4, <1>5, <1>6

\* A turn ends with a claim.
LEMMA EmitKeeps ==
    ASSUME TurnsInv, Emit
    PROVE  TurnsInv'
<1>1. /\ Lineup(order) /\ spoken \in 0..Len(order) /\ spoken < Len(order)
      /\ named = order /\ journal \in Seq(Written)
    BY DEF TurnsInv, Emit
<1>2. /\ Speaker \in PlannedRoles /\ spoken \in Nat /\ Len(order) \in Nat
    BY <1>1, SpeakerIsPlanned
<1>3. /\ journal' = journal \o ClaimWrites(Speaker) /\ spoken' = spoken + 1 /\ step' = 1
      /\ stage' = AfterTurn /\ order' = order /\ named' = named
    BY DEF Emit, planVars
<1>4. ClaimWrites(Speaker) \in Seq(Written)
    BY <1>2, WritesAreWritten
<1>5. journal' \in Seq(Written)
    BY <1>1, <1>3, <1>4, JournalGrows
<1>6. Lineup(order)' /\ named' = order' /\ Len(order)' = Len(order)
    BY <1>1, <1>3 DEF Lineup, Once
<1>7. spoken' \in 0..Len(order) /\ order # <<>>
    BY <1>1, <1>2, <1>3
<1>8. CASE spoken + 1 = Len(order)
    <2>1. stage' = "summing"
        BY <1>3, <1>8 DEF AfterTurn
    <2> QED BY <1>3, <1>5, <1>6, <1>7, <1>8, <2>1 DEF TurnsInv, Stages
<1>9. CASE spoken + 1 # Len(order)
    <2>1. stage' = "speaking" /\ spoken' < Len(order)
        BY <1>1, <1>2, <1>3, <1>9 DEF AfterTurn
    <2>2. step' \in 1..TurnBudget[Speaker]'
        <3>1. TurnBudget[Speaker]' \in Nat /\ 1 <= TurnBudget[Speaker]'
            <4>1. spoken' + 1 \in 1..Len(order)
                BY <1>2, <1>3, <2>1
            <4>2. order[spoken' + 1] \in PlannedRoles
                BY <1>1, <4>1 DEF Lineup
            <4>3. Speaker' = order[spoken' + 1]
                BY <1>3 DEF Speaker
            <4> QED BY <4>2, <4>3, BudgetAssumption
        <3> QED BY <1>3, <3>1
    <2> QED BY <1>5, <1>6, <1>7, <2>1, <2>2 DEF TurnsInv, Stages
<1> QED BY <1>8, <1>9

\* An iteration leaves the turn with another, or ends the build.
LEMMA IterationKeeps ==
    ASSUME TurnsInv, stage = "speaking", NEW entry, UseIteration(entry),
           UNCHANGED <<named, order>>, journal' \in Seq(Written)
    PROVE  TurnsInv'
<1>1. /\ Lineup(order) /\ spoken \in 0..Len(order) /\ spoken < Len(order)
      /\ named = order /\ step \in 1..TurnBudget[Speaker]
    BY DEF TurnsInv
<1>2. TurnBudget[Speaker] \in Nat /\ step \in Nat
    BY <1>1, SpeakerIsPlanned
<1>3. /\ spoken' = spoken /\ Speaker' = Speaker
      /\ Lineup(order)' /\ named' = order' /\ Len(order)' = Len(order)
    BY <1>1 DEF UseIteration, Speaker, Lineup, Once
<1>4. CASE step < TurnBudget[Speaker]
    <2>1. step' = step + 1 /\ stage' = "speaking"
        BY <1>4 DEF UseIteration
    <2>2. step' \in 1..TurnBudget[Speaker]
        BY <1>1, <1>2, <1>4, <2>1
    <2> QED BY <1>1, <1>3, <2>1, <2>2 DEF TurnsInv, Stages
<1>5. CASE ~(step < TurnBudget[Speaker])
    <2>1. stage' = "failed"
        BY <1>5 DEF UseIteration, Raise
    <2> QED BY <1>1, <1>3, <2>1 DEF TurnsInv, Stages
<1> QED BY <1>4, <1>5

\* A build that stops, or goes on without a step of its own, keeps its turns.
LEMMA StopKeeps ==
    ASSUME TurnsInv, UNCHANGED <<named, order, spoken, step, journal>>,
           stage' \in {stage, "failed", "cancelled"}
    PROVE  TurnsInv'
<1>1. Speaker' = Speaker /\ Lineup(order)' = Lineup(order)
    BY DEF Speaker, Lineup, Once
<1>2. CASE stage' = stage
    BY <1>1, <1>2 DEF TurnsInv
<1>3. CASE stage' # stage
    <2>1. stage' \in {"failed", "cancelled"}
        BY <1>3
    <2> QED BY <1>1, <2>1 DEF TurnsInv, Stages
<1> QED BY <1>2, <1>3

\* No step breaks the invariant of the turns.
LEMMA TurnsStep == TurnsInv /\ [Next]_vars => TurnsInv'
<1> SUFFICES ASSUME TurnsInv, [Next]_vars PROVE TurnsInv'
    OBVIOUS
<1>1. ASSUME NEW answer \in Answers, HostSelects(answer) \/ SupervisorSelects(answer)
      PROVE  TurnsInv'
    BY <1>1, HostSelectsKeeps, SupervisorSelectsKeeps
<1>2. CASE Emit
    BY <1>2, EmitKeeps
<1>3. CASE Think
    <2>1. journal' \in Seq(Written)
        BY <1>3 DEF Think, TurnsInv
    <2> QED BY <1>3, <2>1, IterationKeeps DEF Think, planVars
<1>4. ASSUME NEW name, NEW outcome, CallTool(name, outcome)
      PROVE  TurnsInv'
    <2> DEFINE es == <<ToolEvent("agent.tool_call", Speaker),
                       ToolEvent("agent.tool_result", Speaker)>>
    <2>1. Lineup(order) /\ spoken \in 0..Len(order) /\ spoken < Len(order)
        BY <1>4 DEF TurnsInv, CallTool
    <2>2. es \in Seq(Written)
        BY <2>1, SpeakerIsPlanned, WritesAreWritten
    <2>3. journal' = journal \o es
        BY <1>4 DEF CallTool
    <2> HIDE DEF es
    <2>4. journal' \in Seq(Written)
        BY <2>2, <2>3, JournalGrows DEF TurnsInv
    <2> QED BY <1>4, <2>4, IterationKeeps DEF CallTool, planVars
<1>5. CASE Synthesize
    <2>1. /\ stage = "summing" /\ stage' = "returned"
          /\ journal' = journal \o SynthesisWrites
          /\ UNCHANGED <<named, order, spoken, step>>
        BY <1>5 DEF Synthesize, planVars, turnVars
    <2>2. journal' \in Seq(Written)
        BY <2>1, WritesAreWritten, JournalGrows DEF TurnsInv
    <2> QED BY <2>1, <2>2 DEF TurnsInv, Stages, Lineup, Once
<1>6. CASE AnswerUnparseable
    BY <1>6, StopKeeps DEF AnswerUnparseable, RefuseAnswer, Raise, planVars, turnVars
<1>7. ASSUME NEW error, AttemptFails(error) PROVE TurnsInv'
    BY <1>7, StopKeeps DEF AttemptFails, Raise, planVars, turnVars
<1>8. CASE Cancel
    BY <1>8, StopKeeps DEF Cancel, planVars, turnVars
<1>9. CASE ToolsChange
    BY <1>9, StopKeeps DEF ToolsChange, buildVars, planVars, turnVars
<1>10. CASE UNCHANGED vars
    BY <1>10, StopKeeps DEF vars, buildVars, planVars, turnVars
<1> QED BY <1>1, <1>2, <1>3, <1>4, <1>5, <1>6, <1>7, <1>8, <1>9, <1>10 DEF Next, AgentStep

\* A build begins with nobody named.
LEMMA TurnsBegin == Init => TurnsInv
<1> SUFFICES ASSUME Init PROVE TurnsInv
    OBVIOUS
<1>1. /\ stage = "selecting" /\ named = <<>> /\ order = <<>> /\ spoken = 0 /\ step = 1
      /\ journal = <<>>
    BY DEF Init
<1>2. order \in Seq(PlannedRoles) /\ Len(order) = 0 /\ journal \in Seq(Written)
    BY <1>1
<1>3. Once(order)
    BY <1>1 DEF Once
<1> QED BY <1>1, <1>2, <1>3 DEF TurnsInv, Lineup, Stages

\* The invariant of every behaviour.
LEMMA TurnsInvariance == Spec => []TurnsInv
BY TurnsBegin, TurnsStep, PTL DEF Spec

\* Every variable of a build keeps its kind: in particular no specialist is
\* given more iterations than its turn_budget, and no turn has a speaker
\* beyond the lineup.
THEOREM BuildTyped == Spec => []TypeOK
<1>1. TurnsInv /\ CallTypeOK => TypeOK
    <2> SUFFICES ASSUME TurnsInv, CallTypeOK PROVE TypeOK
        OBVIOUS
    <2>1. ToSet(order) \subseteq PlannedRoles
        BY DEF TurnsInv, Lineup, ToSet
    <2> QED BY <2>1 DEF TurnsInv, TypeOK, Stages
<1> QED BY <1>1, TurnsInvariance, CallsTyped, PTL

\* Whatever a model answers, and however the strategies pair its answer with
\* the roster, the round is led by exactly the planned agents the plan names,
\* in its order, and returned only after all of them have spoken.
THEOREM EverybodyNamedSpeaks == Spec => []NobodyIsSkipped
<1>1. TurnsInv => NobodyIsSkipped
    <2> SUFFICES ASSUME TurnsInv PROVE NobodyIsSkipped
        OBVIOUS
    <2>1. stage = "returned" => spoken = Len(named) /\ spoken > 0
        BY DEF TurnsInv, Lineup
    <2> QED BY <2>1 DEF TurnsInv, NobodyIsSkipped
<1> QED BY <1>1, TurnsInvariance, PTL

-----------------------------------------------------------------------------
(* The contract with the drive task.                                       *)

\* Every step appends to the journal, if anything.
LEMMA BuildAppends ==
    ASSUME TurnsInv, Next
    PROVE  Len(journal') \in Nat /\ Len(journal') >= Len(journal)
<1> DEFINE es == <<ToolEvent("agent.tool_call", Speaker),
                   ToolEvent("agent.tool_result", Speaker)>>
<1>1. journal \in Seq(Written)
    BY DEF TurnsInv
<1>2. stage = "speaking" =>
          ClaimWrites(Speaker) \in Seq(Written) /\ es \in Seq(Written)
    BY SpeakerIsPlanned, WritesAreWritten DEF TurnsInv
<1>3. \/ journal' = journal
      \/ journal' = journal \o AgendaWrites
      \/ journal' = journal \o PlanWrites
      \/ journal' = journal \o SynthesisWrites
      \/ stage = "speaking" /\ journal' = journal \o ClaimWrites(Speaker)
      \/ stage = "speaking" /\ journal' = journal \o es
    BY DEF Next, AgentStep, HostSelects, SupervisorSelects, Emit, Think, CallTool,
       Synthesize, AnswerUnparseable, AttemptFails, Cancel, ToolsChange, buildVars
<1> HIDE DEF es
<1>4. PICK new \in Seq(Written) : journal' = journal \/ journal' = journal \o new
    <2>1. /\ AgendaWrites \in Seq(Written) /\ PlanWrites \in Seq(Written)
          /\ SynthesisWrites \in Seq(Written)
        BY WritesAreWritten
    <2> QED BY <1>2, <1>3, <2>1
<1> QED BY <1>1, <1>4, JournalGrows

\* A build that is over does nothing more.
LEMMA OverIsOver ==
    ASSUME ~Working, Next
    PROVE  FALSE
BY DEF Working, Next, AgentStep, HostSelects, SupervisorSelects, Emit, Think, CallTool,
   Synthesize, AnswerUnparseable, AttemptFails, Cancel, ToolsChange

\* A build returns a lineup that is not empty, or stops, or is still at work.
LEMMA StepOfContract ==
    ASSUME TurnsInv, TurnsInv', Next
    PROVE  Contract!Next
<1> DEFINE phase == IF Working THEN "building" ELSE stage
           lineup == IF stage = "returned" THEN order ELSE <<>>
           writes == Len(journal)
<1>1. Working
    BY OverIsOver
<1>2. phase = "building" /\ lineup = <<>>
    BY <1>1 DEF Working
<1>3. writes' \in Nat /\ writes' >= writes
    BY BuildAppends
<1>4. stage' \in Stages
    BY DEF TurnsInv
<1>5. CASE Working'
    <2>1. phase' = "building" /\ lineup' = <<>>
        BY <1>5 DEF Working
    <2>2. Contract!Work
        BY <1>2, <1>3, <2>1 DEF Contract!Work, Contract!Journal
    <2> QED BY <2>2 DEF Contract!Next
<1>6. CASE stage' = "returned"
    <2>1. phase' = "returned" /\ lineup' = order'
        BY <1>6 DEF Working
    <2>2. order' \in Seq(PlannedRoles) \ {<<>>}
        BY <1>6 DEF TurnsInv, Lineup
    <2>3. \A i, j \in DOMAIN order' : order'[i] = order'[j] => i = j
        BY DEF TurnsInv, Lineup, Once
    <2>4. Contract!Return
        BY <1>2, <1>3, <2>1, <2>2, <2>3
        DEF Contract!Return, Contract!Journal, Contract!Distinct
    <2> QED BY <2>4 DEF Contract!Next
<1>7. CASE stage' \in {"failed", "cancelled"}
    <2>1. phase' \in {"failed", "cancelled"} /\ lineup' = <<>>
        BY <1>7 DEF Working
    <2>2. Contract!Stop
        BY <1>2, <1>3, <2>1 DEF Contract!Stop, Contract!Journal
    <2> QED BY <2>2 DEF Contract!Next
<1> QED BY <1>4, <1>5, <1>6, <1>7 DEF Stages, Working

\* The round build implements what the drive task of the room relies on: it
\* journals while it works, returns at least one specialist and each once, or
\* raises, or is cancelled, and is silent from then on.
THEOREM BuildKeepsTheContract == Spec => KeepsContract
<1>1. Init => Contract!Init
    BY DEF Init, Contract!Init, Working
<1>2. TurnsInv /\ [Next]_vars /\ TurnsInv'
          => [Contract!Next]_<<IF Working THEN "building" ELSE stage,
                               IF stage = "returned" THEN order ELSE <<>>, Len(journal)>>
    <2>1. CASE Next
        BY <2>1, StepOfContract
    <2>2. CASE UNCHANGED vars
        BY <2>2 DEF vars, buildVars, planVars, Working
    <2> QED BY <2>1, <2>2
<1> QED BY <1>1, <1>2, TurnsInvariance, PTL DEF Spec, KeepsContract, Contract!Spec

=============================================================================
