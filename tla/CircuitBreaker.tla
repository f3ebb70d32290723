--------------------------- MODULE CircuitBreaker ---------------------------
(***************************************************************************)
(* The circuit breaker of the primary language model, circuit_breaker.py:  *)
(* a value and its operations.  Every method runs under one asyncio lock   *)
(* and awaits nothing inside it, so each is one operator from the breaker  *)
(* before to the breaker after.                                            *)
(*                                                                         *)
(* waited is the time since _opened_at in ticks, counted up to MaxWait,    *)
(* which is no smaller than any recovery timeout in use.                   *)
(***************************************************************************)
EXTENDS Naturals

CONSTANTS
    Thresholds,    \* the values failure_threshold may be given
    Timeouts,      \* the values recovery_timeout_sec may be given, in ticks
    MaxWait

ASSUME BreakerAssumption ==
    /\ Thresholds \subseteq Nat \ {0}
    /\ Timeouts \subseteq Nat
    /\ MaxWait \in Nat /\ \A t \in Timeouts : t <= MaxWait

Breakers == [state : {"closed", "open", "half_open"}, failures : Nat, waited : 0 .. MaxWait,
             threshold : Thresholds, timeout : Timeouts, external : BOOLEAN]

\* get_breaker: the one breaker of the process, made when first asked for.  Every
\* later call overwrites the three parameters and leaves the state.
NewBreaker(threshold, timeout, external) ==
    [state |-> "closed", failures |-> 0, waited |-> 0,
     threshold |-> threshold, timeout |-> timeout, external |-> external]

Configured(b, threshold, timeout, external) ==
    [b EXCEPT !.threshold = threshold, !.timeout = timeout, !.external = external]

\* is_open: whether the primary may not be called, and what asking does to the breaker.
\* Mutant: the timer runs beside the probe.
TimerAlwaysDue(b) == b.state = "open" /\ b.waited >= b.timeout
TimerDue(b) == b.state = "open" /\ ~b.external /\ b.waited >= b.timeout
IsOpen(b) == b.state = "open" /\ ~TimerDue(b)
AfterIsOpen(b) == IF TimerDue(b) THEN [b EXCEPT !.state = "half_open"] ELSE b

Closed(b) == [b EXCEPT !.state = "closed", !.failures = 0, !.waited = 0]
Opened(b) == [b EXCEPT !.state = "open", !.waited = 0]

AfterSuccess(b) ==
    CASE b.state = "half_open" -> Closed(b)
      [] b.state = "closed" -> [b EXCEPT !.failures = 0]
      [] OTHER -> b

AfterFailure(b) ==
    IF b.state # "closed" THEN Opened(b)
    ELSE LET counted == [b EXCEPT !.failures = @ + 1]
         IN IF counted.failures >= b.threshold THEN Opened(counted) ELSE counted

\* probe_succeeded and probe_failed.  Mutant: a success counts as a question's does.
ProbedLikeAnswer(b, answered) ==
    CASE b.state = "closed" -> b
      [] b.state # "closed" /\ answered -> AfterSuccess(b)
      [] OTHER -> Opened(b)
AfterProbe(b, answered) ==
    CASE b.state = "closed" -> b
      [] b.state # "closed" /\ answered -> Closed(b)
      [] OTHER -> Opened(b)

\* Time passing matters only to an open breaker.
Aged(b) == IF b.state = "open" /\ b.waited < MaxWait THEN [b EXCEPT !.waited = @ + 1] ELSE b
=============================================================================
