------------------------------ MODULE LlmCall ------------------------------
(***************************************************************************)
(* How a question reaches a language model: llm_call.py plans the routes   *)
(* that exist, asks the circuit breaker, and walks the plan; the health    *)
(* probe of llm_health_probe.py looks after the primary while the breaker  *)
(* is open; and the health endpoint of the chat domain reads the breaker.  *)
(*                                                                         *)
(* One process and its event loop: an action is what runs between two      *)
(* awaits.  Both routes go through the Redis bridge, so planning awaits    *)
(* the worker's heartbeat.  A call of _completions_create, with all its    *)
(* retries, is one attempt here; RedisBridge models what happens inside.   *)
(***************************************************************************)
EXTENDS CircuitBreaker, Sequences, FiniteSets

CONSTANTS
    Questions,     \* questions that may be under way at once
    Settings,      \* the settings a process may run with
    Beats          \* what the worker's heartbeat may say

\* fallback: is a fallback route configured?  probe: health_probe.enabled.
\* polled: does anyone read /system/health/chat?
AllSettings == [fallback : BOOLEAN, probe : BOOLEAN, polled : BOOLEAN,
                threshold : Thresholds, timeout : Timeouts]

Routes == {"primary", "fallback"}

\* No heartbeat at all is one without targets.
Heartbeats == [targets : SUBSET Routes, sick : SUBSET Routes]

ASSUME CallAssumption ==
    /\ Settings \subseteq AllSettings
    /\ Beats \subseteq Heartbeats
    /\ 2 \in Thresholds /\ MaxWait \in Timeouts

VARIABLES
    settings,
    breaker,       \* circuit_breaker._instance
    beat,          \* the worker's heartbeat in Redis
    up,            \* the routes whose model answers
    call,          \* one call of call_llm_with_fallback for each question
    probe          \* where LLMHealthProbe._run is

vars == <<settings, breaker, beat, up, call, probe>>

\* hurt: the route being tried could not answer at some time of the attempt.
\* covered: the plan had the fallback, which has been able to answer ever since.
Calls == [phase : {"idle", "planning", "trying", "failed"}, plan : Seq(Routes),
          hurt : BOOLEAN, covered : BOOLEAN]

Idle == [phase |-> "idle", plan |-> <<>>, hurt |-> FALSE, covered |-> FALSE]
Failed(c) == [Idle EXCEPT !.phase = "failed", !.covered = c.covered]

TypeOK ==
    /\ settings \in Settings
    /\ breaker \in Breakers
    /\ beat \in Beats
    /\ up \subseteq Routes
    /\ call \in [Questions -> Calls]
    /\ probe \in {"off", "asleep", "pinging", "heard", "unheard"}

\* The routes that can answer: the worker serves the target and the model answers.
Answering == up \cap beat.targets

\* Orchestrator._get_circuit_breaker: the timer is off when a probe and a fallback are set.
Background == settings.fallback /\ settings.probe
ForQuestion(b) == Configured(b, settings.threshold, settings.timeout, Background)
ForProbe(b) == Configured(b, settings.threshold, settings.timeout, TRUE)

\* __init__._health_check calls get_breaker() with the defaults of its signature.
\* Mutant: the threshold the class itself defaults to.
ClassThreshold == 5
DefaultThreshold == 2
ForHealth(b) == Configured(b, DefaultThreshold, MaxWait, FALSE)

Init ==
    /\ settings \in Settings
    /\ breaker = NewBreaker(settings.threshold, settings.timeout, Background)
    /\ beat \in Beats
    /\ up = Routes
    /\ call = [q \in Questions |-> Idle]
    /\ probe = IF Background THEN "asleep" ELSE "off"

-----------------------------------------------------------------------------
(* Planning: plan_routes, can_skip_primary, without_primary.                *)

Candidates == IF settings.fallback THEN Routes ELSE {"primary"}
Available == Candidates \cap beat.targets

\* Sick targets go last, the priority within each group stays.
Listed(r, routes) == IF r \in routes THEN <<r>> ELSE <<>>
InOrder(routes) == Listed("primary", routes) \o Listed("fallback", routes)
PlanOf(routes) == InOrder(routes \ beat.sick) \o InOrder(routes \cap beat.sick)

RoutePlan == PlanOf(Available)
WithoutPrimary == PlanOf(Available \ {"primary"})
CanSkipPrimary(plan) == Len(plan) > 1

Trying(plan) ==
    [phase |-> "trying", plan |-> plan, hurt |-> Head(plan) \notin Answering,
     covered |-> "fallback" \in Answering /\ \E i \in DOMAIN plan : plan[i] = "fallback"]

\* A question begins: the breaker gets its parameters, and the heartbeat is awaited.
Ask(q) ==
    /\ call[q].phase \in {"idle", "failed"}
    /\ breaker' = ForQuestion(breaker)
    /\ call' = [call EXCEPT ![q] = [Idle EXCEPT !.phase = "planning"]]
    /\ UNCHANGED <<settings, beat, up, probe>>

\* The heartbeat is read: the plan is made, the breaker asked where that may
\* change the plan, and the first route is called.  With no route at all the
\* call ends in ChatLLMUnavailableError.
Plan(q) ==
    /\ call[q].phase = "planning"
    /\ LET asked == CanSkipPrimary(RoutePlan)
           plan == IF asked /\ IsOpen(breaker) THEN WithoutPrimary ELSE RoutePlan
       IN /\ breaker' = IF asked THEN AfterIsOpen(breaker) ELSE breaker
          /\ call' = [call EXCEPT ![q] = IF plan = <<>> THEN Failed(Idle) ELSE Trying(plan)]
    /\ UNCHANGED <<settings, beat, up, probe>>

-----------------------------------------------------------------------------
(* An attempt ends.                                                         *)

Route(q) == Head(call[q].plan)
Recorded(q, b) == breaker' = IF Route(q) = "primary" THEN b ELSE breaker

Succeed(q) ==
    /\ call[q].phase = "trying" /\ Route(q) \in up
    /\ Recorded(q, AfterSuccess(breaker))
    /\ call' = [call EXCEPT ![q] = Idle]
    /\ UNCHANGED <<settings, beat, up, probe>>

\* A provider failure (_is_provider_failure): on to the next route, if there is one.
\* Mutant: the last route but one is taken for the last.
LastButOneRoute(c) == Len(c.plan) <= 2
LastRoute(c) == Len(c.plan) = 1
NextRoute(c) == [c EXCEPT !.plan = Tail(c.plan), !.hurt = Head(Tail(c.plan)) \notin Answering]
Fail(q) ==
    /\ call[q].phase = "trying" /\ call[q].hurt
    /\ Recorded(q, AfterFailure(breaker))
    /\ call' = [call EXCEPT ![q] = IF LastRoute(@) THEN Failed(@) ELSE NextRoute(@)]
    /\ UNCHANGED <<settings, beat, up, probe>>

\* A 4xx: the caller's own fault, raised at once and not recorded.
Refuse(q) ==
    /\ call[q].phase = "trying" /\ Route(q) \in up
    /\ call' = [call EXCEPT ![q] = Idle]
    /\ UNCHANGED <<settings, breaker, beat, up, probe>>

-----------------------------------------------------------------------------
(* The probe and the health endpoint.                                       *)

\* models.list of the bridge reads the heartbeat and wants the target healthy;
\* the worker's verdict stands for the model itself.
PrimaryWell == "primary" \in Answering \ beat.sick

\* _tick: the breaker gets the probe's parameters, and is pinged when not closed.
ProbeTick ==
    /\ probe = "asleep"
    /\ breaker' = ForProbe(breaker)
    /\ probe' = IF breaker.state = "closed" THEN "asleep" ELSE "pinging"
    /\ UNCHANGED <<settings, beat, up, call>>

ProbePing ==
    /\ probe = "pinging"
    /\ probe' = IF PrimaryWell THEN "heard" ELSE "unheard"
    /\ UNCHANGED <<settings, breaker, beat, up, call>>

ProbeReport ==
    /\ probe \in {"heard", "unheard"}
    /\ breaker' = AfterProbe(breaker, probe = "heard")
    /\ probe' = "asleep"
    /\ UNCHANGED <<settings, beat, up, call>>

\* GET /system/health/chat.
HealthCheck ==
    /\ settings.polled
    /\ breaker' = ForHealth(breaker)
    /\ UNCHANGED <<settings, beat, up, call, probe>>

-----------------------------------------------------------------------------
(* The world: models go down and come back, the worker's heartbeat changes, *)
(* time passes.                                                             *)

Felt ==
    call' = [q \in Questions |->
                LET c == call[q]
                IN [c EXCEPT !.hurt = @ \/ (c.phase = "trying" /\ Head(c.plan) \notin Answering'),
                             !.covered = @ /\ (c.phase = "trying" => "fallback" \in Answering')]]

GoDown(r) ==
    /\ r \in up
    /\ up' = up \ {r}
    /\ UNCHANGED beat /\ Felt
    /\ UNCHANGED <<settings, breaker, probe>>

ComeBack(r) ==
    /\ r \notin up
    /\ up' = up \cup {r}
    /\ UNCHANGED <<settings, breaker, beat, call, probe>>

\* A worker is read for its targets when a call begins; one that leaves takes
\* the calls it was serving with it, or answers them on its way out.
Beat ==
    /\ \E b \in Beats \ {beat} : beat' = b
    /\ UNCHANGED up /\ Felt
    /\ UNCHANGED <<settings, breaker, probe>>

Tick ==
    /\ breaker # Aged(breaker)
    /\ breaker' = Aged(breaker)
    /\ UNCHANGED <<settings, beat, up, call, probe>>

AttemptEnds(q) == Succeed(q) \/ Fail(q) \/ Refuse(q)
World == (\E r \in Routes : GoDown(r) \/ ComeBack(r)) \/ Beat

Next ==
    \/ \E q \in Questions : Ask(q) \/ Plan(q) \/ AttemptEnds(q)
    \/ ProbeTick \/ ProbePing \/ ProbeReport
    \/ HealthCheck
    \/ World
    \/ Tick

Spec == Init /\ [][Next]_vars

\* Users keep asking, attempts end (every route has a timeout), not every request
\* is malformed, the probe's loop runs and time passes.  Nothing is assumed of
\* the models, the worker or whoever reads the health endpoint.
FairSpec ==
    /\ Spec
    /\ \A q \in Questions :
          /\ WF_vars(Ask(q)) /\ WF_vars(Plan(q)) /\ WF_vars(AttemptEnds(q))
          /\ SF_vars(Succeed(q))
    /\ WF_vars(ProbeTick) /\ WF_vars(ProbePing) /\ WF_vars(ProbeReport)
    /\ WF_vars(Tick)

-----------------------------------------------------------------------------
(* Properties                                                               *)

\* Failing providers cost the user an answer only when the fallback, once in the
\* plan of the call, could not answer at some time of it: neither the breaker nor
\* the order of the routes nor another question under way loses an answer the
\* fallback could have given (the walk along the plan in llm_call.py).
FallbackTakesOver ==
    \A q \in Questions : call[q].phase = "failed" => ~call[q].covered

\* With a fallback and a probe, no live question is the one that tries a primary
\* found broken: while the breaker is not closed, a call that could go elsewhere
\* does not begin with the primary (Orchestrator._get_circuit_breaker:
\* "живой запрос не становится пробой").
LiveProbe(q) ==
    /\ call[q].phase = "planning" /\ call'[q].phase = "trying"
    /\ Head(call'[q].plan) = "primary" /\ CanSkipPrimary(RoutePlan)
    /\ breaker'.state # "closed"
NoLiveProbe == [][Background => \A q \in Questions : ~LiveProbe(q)]_vars

\* The same where nobody reads the health endpoint of the chat.
NoLiveProbeUnpolled ==
    [][Background /\ ~settings.polled => \A q \in Questions : ~LiveProbe(q)]_vars

\* Once the primary is well and stays well, the breaker closes for good, whoever
\* looks after it: the probe, or a question when the timer allows one and the
\* fallback that lets it be asked is listed.
Recovers ==
    <>[](PrimaryWell /\ settings.fallback /\ (settings.probe \/ "fallback" \in beat.targets))
        => <>[](breaker.state = "closed")
=============================================================================
