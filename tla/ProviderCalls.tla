---------------------------- MODULE ProviderCalls ----------------------------
(***************************************************************************)
(* The calls under every agent: which tier and target the meeting signals  *)
(* select (policies/fallback.py, policies/routing_control.py,              *)
(* routing/model_router.py), and how BaseLLMAgent.generate_text retries    *)
(* the route it was given and reroutes once.  An agent hands the signals   *)
(* and the route it ended on to the next agent of the round.               *)
(***************************************************************************)
EXTENDS Naturals, Providers

CONSTANTS
    Target,         \* RouterTargets: the supplier and model of each tier
    AttemptLimits   \* values of MODEL_REQUEST_MAX_ATTEMPTS, at least 1

Tiers == {"default", "escalation", "fallback"}

ASSUME TargetAssumption == DOMAIN Target = Tiers
ASSUME LimitsAssumption == AttemptLimits \subseteq Nat \ {0}

VARIABLES
    limit,      \* transient_max_attempts
    sig,        \* the DecisionSignals routing looks at
    route,      \* the target calls go to
    tries,      \* attempts of the current call that failed on this route
    rerouted,   \* the current call has left the route it began on
    reroutes,   \* reroutes of the round so far (history)
    cause       \* the error that led to the last one (history)

callVars == <<limit, sig, route, tries, rerouted, reroutes, cause>>

-----------------------------------------------------------------------------
(* Routing.                                                                *)

\* strained: two rounds without progress, a tool failure rate of a fifth, or
\* a confidence of 0.6 or less.
Signals == [unreachable : BOOLEAN, timeouts : Nat, limited : Nat, strained : BOOLEAN]
SignalsForRound(strained) ==
    [unreachable |-> FALSE, timeouts |-> 0, limited |-> 0, strained |-> strained]

MaxTimeouts == 2
MaxRateLimits == 2

\* DisasterOnlyFallbackPolicy.check; the two signals it reads besides are set
\* by nothing in the program.  The mutant falls back on strain.
StrainIsADisaster(s) == s.unreachable \/ s.strained
Disaster(s) ==
    \/ s.unreachable
    \/ s.timeouts >= MaxTimeouts
    \/ s.limited >= MaxRateLimits

\* RoutingControlPolicy.decide_tier and HybridModelRouter.route.
Tier(s) ==
    IF Disaster(s) THEN "fallback" ELSE IF s.strained THEN "escalation" ELSE "default"
Route(s) == Target[Tier(s)]

Larger(m, n) == IF m >= n THEN m ELSE n

\* _ctx_after_provider_failure, from the last error of an exhausted route.
AfterFailure(s, error) ==
    IF error = "timeout" THEN [s EXCEPT !.timeouts = Larger(@, limit)]
    ELSE IF error = "rate_limited" THEN [s EXCEPT !.limited = Larger(@, limit)]
    ELSE IF error \in {"network", "server_error"} THEN [s EXCEPT !.unreachable = TRUE]
    ELSE s

-----------------------------------------------------------------------------
(* One call: generate_text over _call_with_retries.                        *)

\* The same route is tried again, after a pause.  One mutant tries once more
\* than it may, the other counts from nought again.
OneTooMany(error, patience) ==
    /\ error \in Transient
    /\ tries < patience
    /\ tries' = tries + 1
    /\ UNCHANGED <<limit, sig, route, rerouted, reroutes, cause>>
StartsOver(error, patience) ==
    /\ error \in Transient
    /\ tries' = (tries + 1) % patience
    /\ UNCHANGED <<limit, sig, route, rerouted, reroutes, cause>>
TryAgain(error, patience) ==
    /\ error \in Transient
    /\ tries + 1 < patience
    /\ tries' = tries + 1
    /\ UNCHANGED <<limit, sig, route, rerouted, reroutes, cause>>

\* The route is exhausted and the signals now select another one.
Reroute(error) ==
    LET after == AfterFailure(sig, error) IN
    /\ error \in Transient
    /\ ~rerouted
    /\ tries + 1 = limit
    /\ Route(after) # route
    /\ sig' = after
    /\ route' = Route(after)
    /\ tries' = 0
    /\ rerouted' = TRUE
    /\ reroutes' = reroutes + 1
    /\ cause' = error
    /\ UNCHANGED limit

\* The call fails with a RuntimeError: an error that is not transient, an
\* exhausted route with no other to go to, or a second route exhausted.
GiveUp(error, patience) ==
    /\ \/ error = "malformed"
       \/ /\ error \in Transient
          /\ tries + 1 = patience
          /\ rerouted \/ Route(AfterFailure(sig, error)) = route
    /\ tries' = tries + 1
    /\ UNCHANGED <<limit, sig, route, rerouted, reroutes, cause>>

\* The text arrives: the RouteExecution carries the route and the signals the
\* call ended on.  The mutant keeps the round's first ones.
ForgetReroute ==
    /\ tries' = 0
    /\ rerouted' = FALSE
    /\ sig' = SignalsForRound(sig.strained)
    /\ route' = Route(sig')
    /\ UNCHANGED <<limit, reroutes, cause>>
Answered ==
    /\ tries' = 0
    /\ rerouted' = FALSE
    /\ UNCHANGED <<limit, sig, route, reroutes, cause>>

-----------------------------------------------------------------------------
(* Properties of the calls of a round.                                     *)

CallTypeOK ==
    /\ limit \in AttemptLimits
    /\ sig \in Signals
    /\ route \in {Target[t] : t \in Tiers}
    /\ tries \in 0..limit
    /\ rerouted \in BOOLEAN
    /\ reroutes \in Nat
    /\ cause \in Transient \cup {"none"}

\* The fallback target is used after an outage of the route the round began
\* on, or after limit time-outs or rate limits in a row if that is at least
\* the policy's threshold: never because the meeting is strained, nor after a
\* request the provider rejects.
FallbackNeedsADisaster ==
    (\A t \in Tiers \ {"fallback"} : Target[t] # Target["fallback"])
    /\ route = Target["fallback"] =>
        \/ cause \in {"network", "server_error"}
        \/ cause = "timeout" /\ limit >= MaxTimeouts
        \/ cause = "rate_limited" /\ limit >= MaxRateLimits

=============================================================================
