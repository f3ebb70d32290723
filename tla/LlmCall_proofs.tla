--------------------------- MODULE LlmCall_proofs ---------------------------
(***************************************************************************)
(* For any number of questions, settings, heartbeats and limits: a call    *)
(* that had a working fallback in its plan ends with an answer.  The       *)
(* argument: as long as the fallback has been able to answer, it is still  *)
(* ahead in the plan or being tried, and while it is tried it has not been *)
(* hurt.  And no question is the first to try a broken primary: as long as *)
(* the probe looks after it and the health endpoint is left alone, the     *)
(* timer never halves the breaker, so a plan made while it is open leaves  *)
(* the primary out.                                                        *)
(***************************************************************************)
EXTENDS LlmCall, SequenceTheorems, TLAPS

Ahead(c) == \E i \in DOMAIN c.plan : c.plan[i] = "fallback"

\* What holds of a call that is being tried.
CallSound(c) ==
    /\ c.phase = "trying" => c.plan # <<>>
    /\ (c.phase = "trying" /\ c.covered) =>
          /\ "fallback" \in Answering
          /\ Ahead(c)
          /\ Head(c.plan) = "fallback" => ~c.hurt

CallsSound == \A q \in Questions : CallSound(call[q])

IInv == TypeOK /\ CallsSound /\ FallbackTakesOver

-----------------------------------------------------------------------------
(* The breaker.                                                             *)

LEMMA SettingFields ==
    ASSUME settings \in Settings
    PROVE  /\ settings.threshold \in Thresholds /\ settings.timeout \in Timeouts
           /\ Background \in BOOLEAN
BY CallAssumption DEF AllSettings, Background

LEMMA ConfiguredType ==
    ASSUME NEW b \in Breakers, NEW th \in Thresholds, NEW to \in Timeouts, NEW ex \in BOOLEAN
    PROVE  Configured(b, th, to, ex) \in Breakers
BY DEF Configured, Breakers

LEMMA StatesType ==
    ASSUME NEW b \in Breakers
    PROVE  /\ Closed(b) \in Breakers /\ Opened(b) \in Breakers
           /\ [b EXCEPT !.state = "half_open"] \in Breakers
           /\ [b EXCEPT !.failures = 0] \in Breakers
           /\ [b EXCEPT !.failures = @ + 1] \in Breakers
<1>1. 0 \in 0 .. MaxWait /\ 0 \in Nat
  BY BreakerAssumption
<1>2. b.failures + 1 \in Nat
  BY DEF Breakers
<1>. QED
  BY <1>1, <1>2 DEF Closed, Opened, Breakers

LEMMA BreakerType ==
    ASSUME NEW b \in Breakers, NEW answered \in BOOLEAN
    PROVE  /\ AfterIsOpen(b) \in Breakers /\ AfterSuccess(b) \in Breakers
           /\ AfterFailure(b) \in Breakers /\ AfterProbe(b, answered) \in Breakers
           /\ Aged(b) \in Breakers
<1>1. AfterIsOpen(b) \in Breakers
  BY StatesType DEF AfterIsOpen
<1>2. AfterSuccess(b) \in Breakers
  BY StatesType DEF AfterSuccess
<1>3. AfterFailure(b) \in Breakers
  <2>. DEFINE counted == [b EXCEPT !.failures = @ + 1]
  <2>1. counted \in Breakers
    BY StatesType
  <2>2. AfterFailure(b) \in {Opened(b), Opened(counted), counted}
    BY DEF AfterFailure
  <2>. HIDE DEF counted
  <2>. QED
    BY <2>1, <2>2, StatesType
<1>4. AfterProbe(b, answered) \in Breakers
  BY StatesType DEF AfterProbe
<1>5. Aged(b) \in Breakers
  <2>1. b.waited \in 0 .. MaxWait /\ MaxWait \in Nat
    BY BreakerAssumption DEF Breakers
  <2>2. b.waited < MaxWait => b.waited + 1 \in 0 .. MaxWait
    BY <2>1
  <2>. QED
    BY <2>2 DEF Aged, Breakers
<1>. QED
  BY <1>1, <1>2, <1>3, <1>4, <1>5

-----------------------------------------------------------------------------
(* The plan.                                                                *)

LEMMA PlanType ==
    ASSUME NEW routes \in SUBSET Routes
    PROVE  PlanOf(routes) \in Seq(Routes)
<1>1. \A r \in Routes : \A s : Listed(r, s) \in Seq(Routes)
  <2>1. <<>> \in Seq(Routes)
    BY EmptySeq
  <2>2. \A r \in Routes : <<r>> \in Seq(Routes)
    OBVIOUS
  <2>. QED
    BY <2>1, <2>2 DEF Listed
<1>2. \A s : InOrder(s) \in Seq(Routes)
  BY <1>1, ConcatProperties DEF InOrder, Routes
<1>. QED
  BY <1>2, ConcatProperties DEF PlanOf

LEMMA TryingSound ==
    ASSUME NEW plan \in Seq(Routes), plan # <<>>
    PROVE  Trying(plan) \in Calls /\ CallSound(Trying(plan)) /\ Trying(plan).phase = "trying"
<1>1. Trying(plan) \in Calls
  BY DEF Trying, Calls
<1>2. CallSound(Trying(plan))
  BY DEF Trying, CallSound, Ahead
<1>. QED
  BY <1>1, <1>2 DEF Trying

LEMMA IdleSound ==
    /\ Idle \in Calls /\ CallSound(Idle) /\ Idle.phase = "idle"
    /\ Failed(Idle) \in Calls /\ CallSound(Failed(Idle)) /\ ~Failed(Idle).covered
    /\ [Idle EXCEPT !.phase = "planning"] \in Calls
    /\ CallSound([Idle EXCEPT !.phase = "planning"])
    /\ [Idle EXCEPT !.phase = "planning"].phase = "planning"
<1>1. Idle \in Calls
  <2>1. <<>> \in Seq(Routes)
    BY EmptySeq
  <2>. QED
    BY <2>1 DEF Idle, Calls
<1>2. Idle.phase = "idle" /\ ~Idle.covered
  BY DEF Idle
<1>. DEFINE p == [Idle EXCEPT !.phase = "planning"]
            f == [Idle EXCEPT !.phase = "failed", !.covered = Idle.covered]
<1>3. p \in Calls /\ p.phase = "planning"
  BY <1>1 DEF Calls
<1>4. f \in Calls /\ f.phase = "failed" /\ f.covered = Idle.covered
  BY <1>1 DEF Calls
<1>5. Failed(Idle) = f
  BY DEF Failed
<1>. HIDE DEF p, f
<1>6. CallSound(Idle) /\ CallSound(p) /\ CallSound(f)
  BY <1>2, <1>3, <1>4 DEF CallSound
<1>. QED
  BY <1>1, <1>2, <1>3, <1>4, <1>5, <1>6 DEF p

-----------------------------------------------------------------------------
(* The steps.                                                               *)

\* One call changes, and neither the models nor the heartbeat do.
LEMMA OneCallKeeps ==
    ASSUME IInv, NEW q \in Questions, NEW c \in Calls, call' = [call EXCEPT ![q] = c],
           CallSound(c), c.phase = "failed" => ~c.covered,
           breaker' \in Breakers, UNCHANGED <<settings, beat, up, probe>>
    PROVE  IInv'
<1>1. \A p \in Questions : call'[p] = IF p = q THEN c ELSE call[p]
  BY DEF IInv, TypeOK
<1>2. TypeOK'
  BY DEF IInv, TypeOK
<1>3. CallsSound'
  BY <1>1 DEF IInv, CallsSound, CallSound, Ahead, Answering
<1>4. FallbackTakesOver'
  BY <1>1 DEF IInv, FallbackTakesOver
<1>. QED
  BY <1>2, <1>3, <1>4 DEF IInv

LEMMA AskKeeps ==
    ASSUME IInv, NEW q \in Questions, Ask(q)
    PROVE  IInv'
<1>1. breaker' \in Breakers
  BY SettingFields, ConfiguredType DEF Ask, ForQuestion, IInv, TypeOK
<1>. QED
  BY <1>1, IdleSound, OneCallKeeps DEF Ask

LEMMA PlanKeeps ==
    ASSUME IInv, NEW q \in Questions, Plan(q)
    PROVE  IInv'
<1>1. breaker' \in Breakers
  BY BreakerType DEF Plan, IInv, TypeOK
<1>2. Available \in SUBSET Routes /\ Available \ {"primary"} \in SUBSET Routes
  BY DEF Available, Candidates, Routes
<1>3. RoutePlan \in Seq(Routes) /\ WithoutPrimary \in Seq(Routes)
  BY <1>2, PlanType DEF RoutePlan, WithoutPrimary
<1>4. PICK plan \in Seq(Routes) :
          call' = [call EXCEPT ![q] = IF plan = <<>> THEN Failed(Idle) ELSE Trying(plan)]
  BY <1>3 DEF Plan
<1>5. UNCHANGED <<settings, beat, up, probe>>
  BY DEF Plan
<1>6. CASE plan = <<>>
  BY <1>1, <1>4, <1>5, <1>6, IdleSound, OneCallKeeps
<1>7. CASE plan # <<>>
  <2>1. Trying(plan) \in Calls /\ CallSound(Trying(plan)) /\ Trying(plan).phase # "failed"
    BY <1>7, TryingSound
  <2>. QED
    BY <1>1, <1>4, <1>5, <1>7, <2>1, OneCallKeeps
<1>. QED
  BY <1>6, <1>7

\* The fallback is still ahead after a failure of the primary, and a failure of the
\* fallback takes its cover away before.
LEMMA FailKeeps ==
    ASSUME IInv, NEW q \in Questions, Fail(q)
    PROVE  IInv'
<1>. DEFINE c == call[q]
<1>1. /\ c \in Calls /\ c.phase = "trying" /\ c.hurt /\ CallSound(c)
      /\ UNCHANGED <<settings, beat, up, probe>>
  BY DEF Fail, IInv, TypeOK, CallsSound
<1>2. breaker' \in Breakers
  BY BreakerType DEF Fail, Recorded, IInv, TypeOK
<1>3. c.plan \in Seq(Routes) /\ c.plan # <<>>
  BY <1>1 DEF Calls, CallSound
<1>4. /\ Head(c.plan) \in Routes /\ Tail(c.plan) \in Seq(Routes)
      /\ Len(c.plan) \in Nat \ {0} /\ Len(Tail(c.plan)) = Len(c.plan) - 1
      /\ DOMAIN c.plan = 1 .. Len(c.plan) /\ DOMAIN Tail(c.plan) = 1 .. Len(c.plan) - 1
      /\ Head(c.plan) = c.plan[1]
      /\ \A i \in 1 .. Len(c.plan) - 1 : Tail(c.plan)[i] = c.plan[i + 1]
  <2>1. Tail(c.plan) \in Seq(Routes) /\ Len(Tail(c.plan)) = Len(c.plan) - 1
    BY <1>3, HeadTailProperties
  <2>2. DOMAIN Tail(c.plan) = 1 .. Len(Tail(c.plan)) /\ DOMAIN c.plan = 1 .. Len(c.plan)
    BY <1>3, <2>1, LenProperties
  <2>3. Len(c.plan) \in Nat \ {0}
    BY <1>3, EmptySeq
  <2>4. \A i \in 1 .. Len(Tail(c.plan)) : Tail(c.plan)[i] = c.plan[i + 1]
    BY <1>3, HeadTailProperties
  <2>. QED
    BY <1>3, <2>1, <2>2, <2>3, <2>4, HeadTailProperties
<1>5. c.covered => /\ "fallback" \in Answering /\ Head(c.plan) # "fallback" /\ Ahead(c)
  BY <1>1 DEF CallSound
<1>6. c.covered => \E i \in 1 .. Len(c.plan) - 1 : Tail(c.plan)[i] = "fallback"
  <2>. SUFFICES ASSUME c.covered
                PROVE  \E i \in 1 .. Len(c.plan) - 1 : Tail(c.plan)[i] = "fallback"
    OBVIOUS
  <2>1. PICK i \in 1 .. Len(c.plan) : c.plan[i] = "fallback"
    BY <1>4, <1>5 DEF Ahead
  <2>2. i # 1 /\ i - 1 \in 1 .. Len(c.plan) - 1 /\ (i - 1) + 1 = i
    BY <1>4, <1>5, <2>1
  <2>3. Tail(c.plan)[i - 1] = "fallback"
    BY <1>4, <2>1, <2>2
  <2>. QED
    BY <2>2, <2>3
<1>7. CASE LastRoute(c)
  <2>1. ~c.covered
    BY <1>4, <1>6, <1>7 DEF LastRoute
  <2>2. Failed(c) \in Calls /\ CallSound(Failed(c)) /\ ~Failed(c).covered
    BY <1>1, <2>1, IdleSound DEF Failed, Calls, CallSound, Idle
  <2>3. call' = [call EXCEPT ![q] = Failed(c)]
    BY <1>7 DEF Fail
  <2>. QED
    BY <1>1, <1>2, <2>2, <2>3, OneCallKeeps
<1>8. CASE ~LastRoute(c)
  <2>. DEFINE d == NextRoute(c)
  <2>1. Tail(c.plan) # <<>>
    <3>1. Len(Tail(c.plan)) # 0
      BY <1>4, <1>8 DEF LastRoute
    <3>2. Len(<<>>) = 0
      BY EmptySeq
    <3>. QED
      BY <3>1, <3>2
  <2>2. /\ d \in Calls /\ d.phase = "trying" /\ d.plan = Tail(c.plan) /\ d.covered = c.covered
        /\ d.hurt = (Head(Tail(c.plan)) \notin Answering)
    BY <1>1, <1>4 DEF Calls, NextRoute
  <2>3. call' = [call EXCEPT ![q] = d]
    BY <1>8 DEF Fail, NextRoute
  <2>. HIDE DEF d
  <2>4. d.covered => Ahead(d)
    BY <1>4, <1>6, <2>2 DEF Ahead
  <2>5. CallSound(d)
    BY <1>5, <2>1, <2>2, <2>4 DEF CallSound
  <2>. QED
    BY <1>1, <1>2, <2>2, <2>3, <2>5, OneCallKeeps
<1>. QED
  BY <1>7, <1>8

LEMMA AnswerKeeps ==
    ASSUME IInv, NEW q \in Questions, Succeed(q) \/ Refuse(q)
    PROVE  IInv'
<1>1. breaker' \in Breakers
  BY BreakerType DEF Succeed, Refuse, Recorded, IInv, TypeOK
<1>. QED
  BY <1>1, IdleSound, OneCallKeeps DEF Succeed, Refuse

\* The probe, the health endpoint and time touch only the breaker.
LEMMA BreakerOnlyKeeps ==
    ASSUME IInv, breaker' \in Breakers, UNCHANGED <<settings, beat, up, call>>,
           probe' \in {"off", "asleep", "pinging", "heard", "unheard"}
    PROVE  IInv'
BY DEF IInv, TypeOK, CallsSound, CallSound, FallbackTakesOver, Ahead, Answering

LEMMA ProbeKeeps ==
    ASSUME IInv, ProbeTick \/ ProbePing \/ ProbeReport \/ HealthCheck \/ Tick
    PROVE  IInv'
<1>1. settings \in Settings /\ breaker \in Breakers
  BY DEF IInv, TypeOK
<1>2. CASE ProbeTick
  BY <1>1, <1>2, SettingFields, ConfiguredType, BreakerOnlyKeeps DEF ProbeTick, ForProbe
<1>3. CASE ProbePing
  BY <1>1, <1>3, BreakerOnlyKeeps DEF ProbePing
<1>4. CASE ProbeReport
  BY <1>1, <1>4, BreakerType, BreakerOnlyKeeps DEF ProbeReport
<1>5. CASE HealthCheck
  <2>1. MaxWait \in Timeouts /\ DefaultThreshold \in Thresholds
    BY CallAssumption DEF DefaultThreshold
  <2>2. breaker' \in Breakers
    BY <1>1, <1>5, <2>1, ConfiguredType DEF HealthCheck, ForHealth
  <2>3. probe' \in {"off", "asleep", "pinging", "heard", "unheard"}
    BY <1>5 DEF HealthCheck, IInv, TypeOK
  <2>. QED
    BY <1>5, <2>2, <2>3, BreakerOnlyKeeps DEF HealthCheck
<1>6. CASE Tick
  <2>1. probe' \in {"off", "asleep", "pinging", "heard", "unheard"}
    BY <1>6 DEF Tick, IInv, TypeOK
  <2>. QED
    BY <1>1, <1>6, <2>1, BreakerType, BreakerOnlyKeeps DEF Tick
<1>. QED
  BY <1>2, <1>3, <1>4, <1>5, <1>6

\* The world may change under the calls: they feel it.
LEMMA FeltKeeps ==
    ASSUME IInv, Felt, UNCHANGED <<settings, breaker, probe>>,
           beat' \in Beats, up' \subseteq Routes
    PROVE  IInv'
<1>1. ASSUME NEW q \in Questions
      PROVE  /\ call'[q] \in Calls /\ call'[q].phase = call[q].phase /\ call'[q].plan = call[q].plan
             /\ call'[q].covered = (call[q].covered /\ (call[q].phase = "trying" => "fallback" \in Answering'))
             /\ call'[q].hurt = (call[q].hurt \/ (call[q].phase = "trying" /\ Head(call[q].plan) \notin Answering'))
  <2>. DEFINE c == call[q]
              hurt == c.hurt \/ (c.phase = "trying" /\ Head(c.plan) \notin Answering')
              covered == c.covered /\ (c.phase = "trying" => "fallback" \in Answering')
  <2>1. c \in Calls
    BY DEF IInv, TypeOK
  <2>2. call'[q] = [c EXCEPT !.hurt = hurt, !.covered = covered]
    BY DEF Felt
  <2>3. hurt \in BOOLEAN /\ covered \in BOOLEAN
    BY <2>1 DEF Calls
  <2>. HIDE DEF hurt, covered
  <2>4. /\ call'[q] \in Calls /\ call'[q].phase = c.phase /\ call'[q].plan = c.plan
        /\ call'[q].covered = covered /\ call'[q].hurt = hurt
    BY <2>1, <2>2, <2>3 DEF Calls
  <2>. QED
    BY <2>4 DEF hurt, covered
<1>2. TypeOK'
  BY <1>1 DEF IInv, TypeOK, Felt
<1>3. ASSUME NEW q \in Questions
      PROVE  CallSound(call[q])'
  <2>1. CallSound(call[q])
    BY DEF IInv, CallsSound
  <2>2. call'[q].phase = "trying" => call'[q].plan # <<>>
    BY <1>1, <2>1 DEF CallSound
  <2>3. call'[q].phase = "trying" /\ call'[q].covered =>
           /\ "fallback" \in Answering'
           /\ Ahead(call'[q])
           /\ Head(call'[q].plan) = "fallback" => ~call'[q].hurt
    BY <1>1, <2>1 DEF CallSound, Ahead
  <2>. QED
    BY <2>2, <2>3 DEF CallSound, Ahead
<1>4. FallbackTakesOver'
  BY <1>1 DEF IInv, FallbackTakesOver
<1>. QED
  BY <1>2, <1>3, <1>4 DEF IInv, CallsSound

\* A model that comes back hurts nobody.
LEMMA ComeBackKeeps ==
    ASSUME IInv, NEW r \in Routes, ComeBack(r)
    PROVE  IInv'
<1>1. Answering \subseteq Answering'
  BY DEF ComeBack, Answering
<1>2. TypeOK'
  BY DEF IInv, TypeOK, ComeBack
<1>3. CallsSound'
  BY <1>1 DEF IInv, CallsSound, CallSound, Ahead, ComeBack
<1>4. FallbackTakesOver'
  BY DEF IInv, FallbackTakesOver, ComeBack
<1>. QED
  BY <1>2, <1>3, <1>4 DEF IInv

LEMMA WorldKeeps ==
    ASSUME IInv, World
    PROVE  IInv'
<1>1. ASSUME NEW r \in Routes, GoDown(r)
      PROVE  IInv'
  BY <1>1, FeltKeeps DEF GoDown, IInv, TypeOK
<1>2. CASE Beat
  BY <1>2, FeltKeeps DEF Beat, IInv, TypeOK
<1>. QED
  BY <1>1, <1>2, ComeBackKeeps DEF World

-----------------------------------------------------------------------------
(* The theorems.                                                            *)

LEMMA InitHolds == Init => IInv
<1>. SUFFICES ASSUME Init
              PROVE  IInv
  OBVIOUS
<1>1. breaker \in Breakers
  <2>1. 0 \in 0 .. MaxWait /\ settings \in Settings
    BY BreakerAssumption DEF Init
  <2>. QED
    BY <2>1, SettingFields DEF Init, NewBreaker, Breakers
<1>2. \A q \in Questions : call[q] = Idle
  BY DEF Init
<1>3. TypeOK
  BY <1>1, IdleSound DEF Init, TypeOK
<1>. QED
  BY <1>2, <1>3, IdleSound DEF IInv, CallsSound, FallbackTakesOver

LEMMA NextKeeps == IInv /\ [Next]_vars => IInv'
<1>. SUFFICES ASSUME IInv, [Next]_vars
              PROVE  IInv'
  OBVIOUS
<1>1. CASE UNCHANGED vars
  BY <1>1 DEF vars, IInv, TypeOK, CallsSound, CallSound, FallbackTakesOver, Ahead, Answering
<1>. QED
  BY <1>1, AskKeeps, PlanKeeps, FailKeeps, AnswerKeeps, ProbeKeeps, WorldKeeps DEF Next, AttemptEnds

\* Every variable of the calls keeps its type; the breaker in particular.
THEOREM TypeCorrect == Spec => []TypeOK
<1>1. IInv => TypeOK
  BY DEF IInv
<1>. QED
  BY <1>1, InitHolds, NextKeeps, PTL DEF Spec

\* A call that had a working fallback in its plan does not fail: neither the breaker,
\* nor the order of the routes, nor other questions lose the answer (llm_call.py).
THEOREM TakesOver == Spec => []FallbackTakesOver
<1>1. IInv => FallbackTakesOver
  BY DEF IInv
<1>. QED
  BY <1>1, InitHolds, NextKeeps, PTL DEF Spec

-----------------------------------------------------------------------------
(* Who tries a broken primary.                                              *)

\* Where the probe looks after the primary and nobody polls the health endpoint, the
\* timer of the breaker never runs: it is closed, or open until the probe closes it.
ProbeOnly ==
    Background /\ ~settings.polled => breaker.external /\ breaker.state # "half_open"

LEMMA SettingsStay ==
    ASSUME [Next]_vars
    PROVE  settings' = settings
BY DEF Next, vars, Ask, Plan, AttemptEnds, Succeed, Fail, Refuse, ProbeTick, ProbePing, ProbeReport,
       HealthCheck, World, GoDown, ComeBack, Beat, Tick

\* No operation but get_breaker touches `external`, and only a due timer halves.
LEMMA BreakerStays ==
    ASSUME NEW b \in Breakers, b.external, b.state # "half_open", NEW answered \in BOOLEAN
    PROVE  /\ AfterIsOpen(b) = b
           /\ AfterSuccess(b).external /\ AfterSuccess(b).state # "half_open"
           /\ AfterFailure(b).external /\ AfterFailure(b).state # "half_open"
           /\ AfterProbe(b, answered).external /\ AfterProbe(b, answered).state # "half_open"
           /\ Aged(b).external /\ Aged(b).state # "half_open"
<1>1. /\ Closed(b).external /\ Closed(b).state = "closed"
      /\ Opened(b).external /\ Opened(b).state = "open"
  BY DEF Closed, Opened, Breakers
<1>2. AfterIsOpen(b) = b
  BY DEF AfterIsOpen, TimerDue
<1>3. AfterSuccess(b).external /\ AfterSuccess(b).state # "half_open"
  BY <1>1 DEF AfterSuccess, Breakers
<1>4. AfterFailure(b).external /\ AfterFailure(b).state # "half_open"
  <2>. DEFINE c == [b EXCEPT !.failures = @ + 1]
  <2>1. c.external /\ c.state = b.state /\ Opened(c).external /\ Opened(c).state = "open"
    BY DEF Opened, Breakers
  <2>. QED
    BY <1>1, <2>1 DEF AfterFailure
<1>5. AfterProbe(b, answered).external /\ AfterProbe(b, answered).state # "half_open"
  BY <1>1 DEF AfterProbe
<1>6. Aged(b).external /\ Aged(b).state # "half_open"
  BY DEF Aged, Breakers
<1>. QED
  BY <1>2, <1>3, <1>4, <1>5, <1>6

LEMMA ConfiguredFields ==
    ASSUME NEW b \in Breakers, NEW th, NEW to
    PROVE  Configured(b, th, to, TRUE).external /\ Configured(b, th, to, TRUE).state = b.state
BY DEF Configured, Breakers

LEMMA ProbeOnlyStays ==
    ASSUME TypeOK, ProbeOnly, [Next]_vars
    PROVE  ProbeOnly'
<1>. SUFFICES ASSUME Background, ~settings.polled
              PROVE  breaker'.external /\ breaker'.state # "half_open"
  BY SettingsStay DEF ProbeOnly, Background
<1>1. breaker \in Breakers /\ breaker.external /\ breaker.state # "half_open"
  BY DEF TypeOK, ProbeOnly
<1>2. ASSUME NEW q \in Questions, Ask(q)
      PROVE  breaker'.external /\ breaker'.state # "half_open"
  <2>1. Background = TRUE /\ breaker' = ForQuestion(breaker)
    BY <1>2 DEF Ask
  <2>2. breaker' = Configured(breaker, settings.threshold, settings.timeout, TRUE)
    BY <2>1 DEF ForQuestion
  <2>. QED
    BY <1>1, <2>2, ConfiguredFields
<1>3. ASSUME NEW q \in Questions, Plan(q)
      PROVE  breaker'.external /\ breaker'.state # "half_open"
  <2>1. breaker' \in {AfterIsOpen(breaker), breaker}
    BY <1>3 DEF Plan
  <2>. QED
    BY <1>1, <2>1, BreakerStays
<1>4. ASSUME NEW q \in Questions, AttemptEnds(q)
      PROVE  breaker'.external /\ breaker'.state # "half_open"
  <2>1. breaker' \in {breaker, AfterSuccess(breaker), AfterFailure(breaker)}
    BY <1>4 DEF AttemptEnds, Succeed, Fail, Refuse, Recorded
  <2>. QED
    BY <1>1, <2>1, BreakerStays
<1>5. CASE ProbeTick
  <2>1. breaker' = Configured(breaker, settings.threshold, settings.timeout, TRUE)
    BY <1>5 DEF ProbeTick, ForProbe
  <2>. QED
    BY <1>1, <2>1, ConfiguredFields
<1>6. CASE ProbeReport
  <2>1. (probe = "heard") \in BOOLEAN /\ breaker' = AfterProbe(breaker, probe = "heard")
    BY <1>6 DEF ProbeReport
  <2>. QED
    BY <1>1, <2>1, BreakerStays
<1>7. CASE HealthCheck
  BY <1>7 DEF HealthCheck
<1>8. CASE Tick
  BY <1>1, <1>8, BreakerStays DEF Tick
<1>9. CASE ProbePing \/ World \/ UNCHANGED vars
  BY <1>1, <1>9 DEF ProbePing, World, GoDown, ComeBack, Beat, vars
<1>. QED
  BY <1>2, <1>3, <1>4, <1>5, <1>6, <1>7, <1>8, <1>9 DEF Next

\* A plan without the primary does not begin with it.
LEMMA FallbackFirst ==
    ASSUME WithoutPrimary # <<>>
    PROVE  Head(WithoutPrimary) # "primary"
<1>. DEFINE S == Available \ {"primary"}
<1>1. "primary" \notin S
  OBVIOUS
<1>2. WithoutPrimary = InOrder(S \ beat.sick) \o InOrder(S \cap beat.sick)
  BY DEF WithoutPrimary, PlanOf
<1>. HIDE DEF S
<1>3. ASSUME NEW s, s \subseteq S
      PROVE  InOrder(s) \in Seq({"fallback"})
  <2>1. Listed("primary", s) = <<>> /\ Listed("fallback", s) \in {<<>>, <<"fallback">>}
    BY <1>1, <1>3 DEF Listed
  <2>2. <<>> \in Seq({"fallback"}) /\ <<"fallback">> \in Seq({"fallback"})
    BY EmptySeq
  <2>. QED
    BY <2>1, <2>2, ConcatProperties DEF InOrder
<1>4. WithoutPrimary \in Seq({"fallback"})
  BY <1>2, <1>3, ConcatProperties
<1>. QED
  BY <1>4

\* While the primary is broken and the probe looks after it, no question is the first
\* to try it: however questions, probe and worker interleave, and whatever the limits
\* (Orchestrator._get_circuit_breaker; the endpoint that resets `external` left alone).
THEOREM ProbeTriesFirst == Spec => NoLiveProbeUnpolled
<1>1. Init => ProbeOnly
  BY DEF Init, ProbeOnly, NewBreaker
<1>2. IInv /\ ProbeOnly /\ [Next]_vars => ProbeOnly'
  BY ProbeOnlyStays DEF IInv
<1>3. ASSUME IInv, ProbeOnly, Next, Background, ~settings.polled, NEW q \in Questions, LiveProbe(q)
      PROVE  FALSE
  <2>1. Plan(q)
    <3>1. /\ breaker \in Breakers /\ call \in [Questions -> Calls]
          /\ call[q].phase = "planning" /\ call'[q].phase = "trying"
      BY <1>3 DEF IInv, TypeOK, LiveProbe
    <3>2. ASSUME NEW k \in Questions, Ask(k) PROVE FALSE
      <4>1. call' = [call EXCEPT ![k] = [Idle EXCEPT !.phase = "planning"]]
        BY <3>2 DEF Ask
      <4>. QED
        BY <3>1, <4>1, IdleSound
    <3>3. ASSUME NEW k \in Questions, AttemptEnds(k) PROVE FALSE
      <4>1. call[k].phase = "trying" /\ call' = [call EXCEPT ![k] = call'[k]]
        BY <3>1, <3>3 DEF AttemptEnds, Succeed, Fail, Refuse
      <4>. QED
        BY <3>1, <4>1
    <3>4. ASSUME NEW k \in Questions, Plan(k), k # q PROVE FALSE
      BY <3>1, <3>4 DEF Plan
    <3>5. CASE ProbeTick \/ ProbePing \/ ProbeReport \/ HealthCheck \/ Tick
      BY <3>1, <3>5 DEF ProbeTick, ProbePing, ProbeReport, HealthCheck, Tick
    <3>6. CASE World
      <4>1. UNCHANGED call \/ Felt
        BY <3>6 DEF World, GoDown, ComeBack, Beat
      <4>2. ASSUME Felt PROVE call'[q].phase = call[q].phase
        BY <3>1, <4>2 DEF Felt, Calls
      <4>. QED
        BY <3>1, <4>1, <4>2
    <3>. QED
      BY <1>3, <3>2, <3>3, <3>4, <3>5, <3>6 DEF Next
  <2>2. /\ breaker' = breaker /\ CanSkipPrimary(RoutePlan)
        /\ breaker.external /\ breaker.state = "open"
    <3>1. /\ breaker \in Breakers /\ breaker.external /\ breaker.state # "half_open"
          /\ breaker'.state # "closed" /\ CanSkipPrimary(RoutePlan)
      BY <1>3 DEF IInv, TypeOK, ProbeOnly, LiveProbe
    <3>2. breaker' = AfterIsOpen(breaker)
      BY <2>1, <3>1 DEF Plan
    <3>. QED
      BY <3>1, <3>2, BreakerStays DEF Breakers
  <2>3. IsOpen(breaker)
    BY <2>2 DEF IsOpen, TimerDue
  <2>4. /\ call'[q] = IF WithoutPrimary = <<>> THEN Failed(Idle) ELSE Trying(WithoutPrimary)
        /\ call'[q].phase = "trying" /\ Head(call'[q].plan) = "primary"
    BY <1>3, <2>1, <2>2, <2>3 DEF Plan, LiveProbe, IInv, TypeOK
  <2>5. Failed(Idle).phase = "failed"
    BY DEF Failed, Idle
  <2>. QED
    BY <2>4, <2>5, FallbackFirst DEF Trying
<1>4. IInv /\ ProbeOnly /\ [Next]_vars =>
        [Background /\ ~settings.polled => \A q \in Questions : ~LiveProbe(q)]_vars
  BY <1>3
<1>. QED
  BY <1>1, <1>2, <1>4, InitHolds, NextKeeps, PTL DEF Spec, NoLiveProbeUnpolled
=============================================================================
