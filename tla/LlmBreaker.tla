------------------------------ MODULE LlmBreaker ------------------------------
(***************************************************************************)
(* LLMResilienceManager.run and its CircuitBreaker: every call to a model  *)
(* provider passes the breaker, queues for a permit, and is tried a few    *)
(* times; only its last failure, or its success, is told to the breaker.   *)
(*                                                                         *)
(* The coroutines of one event loop share the breaker: a step is what runs *)
(* between two awaits.  Calls admitted before the breaker trips are still  *)
(* queued, being tried or backing off when it cools down, so their results *)
(* reach it at any time, while it is open and while a probe is in flight.  *)
(***************************************************************************)
EXTENDS Naturals, FiniteSets

CONSTANTS
  Caller,       \* coroutines that call the provider again and again
  Limits,       \* values of llm_<provider>_max_concurrent_calls
  Thresholds,   \* values of circuit_breaker_failures a call may read
  MaxAttempts,  \* retry_max_attempts
  MaxChanges,   \* bound: how often the operator changes a setting
  Events        \* what may happen, a subset of EventKinds

EventKinds ==
  { "cancel",        \* a call is cancelled: a stage timed out (template_runner)
    "resize",        \* the operator changes max_concurrent_calls
    "retune",        \* ... and raises circuit_breaker_cooldown_s
    \* The same as "cancel", where the code is not ready for it:
    "cancel_probe" } \* the call is the half-open probe

ASSUME BreakerAssumption ==
  /\ IsFiniteSet(Caller)
  /\ Limits \subseteq Nat \ {0} /\ Limits # {}
  /\ Thresholds \subseteq Nat \ {0} /\ Thresholds # {}
  /\ MaxAttempts \in Nat \ {0}
  /\ MaxChanges \in Nat
  /\ Events \subseteq EventKinds

VARIABLES
  opened,    \* _opened_at: "no", or whether the cooldown has passed since
  probing,   \* _half_open_in_flight
  failures,  \* len(_failures), counted up to the largest threshold
  limit,     \* the setting max_concurrent_calls
  current,   \* which semaphore _semaphore is
  size,      \* the capacity each semaphore was made with
  free,      \* the permits left in it
  pc,        \* where each caller is
  on,        \* the semaphore it entered
  attempt,   \* the attempt it is at
  probe,     \* it was admitted as the half-open probe
  probes,    \* the probes admitted since _opened_at was last set
  up,        \* the provider answers
  changes    \* the settings were changed this often

breaker  == <<opened, probing, failures, probes>>
permits  == <<current, size, free>>
callers  == <<pc, on, attempt, probe>>
settings == <<limit, up, changes>>
vars     == <<breaker, permits, callers, settings>>

Sem == 1..(MaxChanges + 1)
Places == {"out", "queued", "calling", "backoff"}
Holding(c) == pc[c] \in {"calling", "backoff"}
Holders(s) == {c \in Caller : Holding(c) /\ on[c] = s}

Init ==
  /\ opened = "no" /\ probing = FALSE /\ failures = 0 /\ probes = 0
  /\ limit \in Limits /\ current = 1
  /\ size = [s \in Sem |-> limit] /\ free = size
  /\ pc = [c \in Caller |-> "out"] /\ on = [c \in Caller |-> 1]
  /\ attempt = [c \in Caller |-> 0] /\ probe = [c \in Caller |-> FALSE]
  /\ up = TRUE /\ changes = 0

------------------------------------------------------------------------------
(* run: the semaphore is replaced if the setting changed, then the breaker *)
(* is asked, and only then the call queues.                                *)

Resize ==
  IF limit = size[current] THEN UNCHANGED permits
  ELSE /\ current' = current + 1
       /\ size' = [size EXCEPT ![current + 1] = limit]
       /\ free' = [free EXCEPT ![current + 1] = limit]

HalfOpen == opened = "cooled"

\* allow: closed, or half-open with no probe in flight.
Allows == opened = "no" \/ (HalfOpen /\ ~probing)

Refused(c) ==
  /\ pc[c] = "out" /\ ~Allows
  /\ Resize
  /\ UNCHANGED <<breaker, callers, settings>>

Admitted(c) ==
  /\ pc[c] = "out" /\ Allows
  /\ Resize
  /\ probing' = (probing \/ HalfOpen)
  /\ probes' = IF HalfOpen THEN probes + 1 ELSE probes
  /\ probe' = [probe EXCEPT ![c] = HalfOpen]
  /\ on' = [on EXCEPT ![c] = current']
  /\ pc' = [pc EXCEPT ![c] = "queued"]
  /\ UNCHANGED <<opened, failures, attempt, settings>>

\* asyncio.Semaphore wakes its waiters in order; see Fairness.
Acquires(c) ==
  /\ pc[c] = "queued" /\ free[on[c]] > 0
  /\ free' = [free EXCEPT ![on[c]] = @ - 1]
  /\ pc' = [pc EXCEPT ![c] = "calling"]
  /\ attempt' = [attempt EXCEPT ![c] = 1]
  /\ UNCHANGED <<breaker, current, size, on, probe, settings>>

\* Leaving "async with" gives the permit back to the semaphore entered.
\* Mutant: back to the one that is current by now.
ReleasesCurrent(c) ==
  free' = IF Holding(c) THEN [free EXCEPT ![current] = @ + 1] ELSE free
Releases(c) ==
  free' = IF Holding(c) THEN [free EXCEPT ![on[c]] = @ + 1] ELSE free

Leaves(c) ==
  /\ Releases(c)
  /\ pc' = [pc EXCEPT ![c] = "out"]
  /\ attempt' = [attempt EXCEPT ![c] = 0]
  /\ probe' = [probe EXCEPT ![c] = FALSE]
  /\ UNCHANGED <<current, size, on, settings>>

RecordSuccess ==
  /\ failures' = 0 /\ probing' = FALSE
  /\ opened' = "no" /\ probes' = 0

\* Counting further than the largest threshold would tell nothing.
OneMore == IF \E n \in Thresholds : failures < n THEN failures + 1 ELSE failures

\* A failure while a probe is in flight restarts the cooldown, whoever's
\* failure it is; one while the breaker is open and no probe in flight only
\* counts; one while it is closed trips it at the threshold.
ProbeFailed == probing /\ opened # "no"
Trips(threshold) == opened = "no" /\ OneMore >= threshold

\* Mutant: a failed probe does not restart the cooldown.
SetsOpenedAtOnTrip(threshold) == Trips(threshold)
SetsOpenedAt(threshold) == ProbeFailed \/ Trips(threshold)

\* Mutant: the flag is only cleared when the breaker closes.
RecordFailureKeepsFlag ==
  \E threshold \in Thresholds :
    /\ failures' = OneMore
    /\ UNCHANGED probing
    /\ IF SetsOpenedAt(threshold) THEN opened' = "cooling" /\ probes' = 0
                                  ELSE UNCHANGED <<opened, probes>>
RecordFailure ==
  \E threshold \in Thresholds :
    /\ failures' = OneMore
    /\ probing' = FALSE
    /\ IF SetsOpenedAt(threshold) THEN opened' = "cooling" /\ probes' = 0
                                  ELSE UNCHANGED <<opened, probes>>

Succeeds(c) == pc[c] = "calling" /\ up /\ RecordSuccess /\ Leaves(c)

\* On its last attempt, or not retryable.
FailsForGood(c) == pc[c] = "calling" /\ ~up /\ RecordFailure /\ Leaves(c)

\* Mutant: the last attempt is retried as well.
MoreAttemptsOffByOne(c) == attempt[c] <= MaxAttempts
MoreAttempts(c) == attempt[c] < MaxAttempts

\* The backoff is slept with the permit held.
BacksOff(c) ==
  /\ pc[c] = "calling" /\ ~up /\ MoreAttempts(c)
  /\ pc' = [pc EXCEPT ![c] = "backoff"]
  /\ UNCHANGED <<breaker, permits, on, attempt, probe, settings>>

\* Mutant: a retry does not count as an attempt.
NextAttemptUncounted(c) == attempt[c]
NextAttempt(c) == attempt[c] + 1

TriesAgain(c) ==
  /\ pc[c] = "backoff"
  /\ pc' = [pc EXCEPT ![c] = "calling"]
  /\ attempt' = [attempt EXCEPT ![c] = NextAttempt(c)]
  /\ UNCHANGED <<breaker, permits, on, probe, settings>>

\* In the queue, in the call or in the backoff: "except CancelledError: raise"
\* tells the breaker nothing.
Cancelled(c) ==
  /\ "cancel" \in Events /\ pc[c] # "out"
  /\ probe[c] => "cancel_probe" \in Events
  /\ Leaves(c)
  /\ UNCHANGED breaker

------------------------------------------------------------------------------
(* Time, the provider, and the operator. *)

CoolsDown ==
  /\ opened = "cooling"
  /\ opened' = "cooled"
  /\ UNCHANGED <<probing, failures, probes, permits, callers, settings>>

\* Failures older than circuit_breaker_window_s are dropped.
WindowSlides ==
  /\ failures > 0
  /\ failures' \in 0..(failures - 1)
  /\ UNCHANGED <<opened, probing, probes, permits, callers, settings>>

ProviderTurns ==
  /\ up' = ~up
  /\ UNCHANGED <<breaker, permits, callers, limit, changes>>

Change == changes < MaxChanges /\ changes' = changes + 1

SetLimit ==
  /\ "resize" \in Events /\ Change
  /\ limit' \in Limits \ {limit}
  /\ UNCHANGED <<breaker, permits, callers, up>>

RaiseCooldown ==
  /\ "retune" \in Events /\ Change
  /\ opened = "cooled" /\ opened' = "cooling"
  /\ UNCHANGED <<probing, failures, probes, permits, callers, limit, up>>

------------------------------------------------------------------------------
Ends(c) == Succeeds(c) \/ FailsForGood(c) \/ BacksOff(c)

Proceeds(c) == Admitted(c) \/ TriesAgain(c) \/ Ends(c)

Next ==
  \/ \E c \in Caller : Refused(c) \/ Proceeds(c) \/ Acquires(c) \/ Cancelled(c)
  \/ CoolsDown \/ WindowSlides \/ ProviderTurns \/ SetLimit \/ RaiseCooldown

\* There is always work that needs the model; a call ends, with the SDK's own
\* timeout at the latest; a semaphore serves its queue in order.
Fairness ==
  /\ \A c \in Caller : WF_vars(Proceeds(c)) /\ SF_vars(Acquires(c))
  /\ WF_vars(CoolsDown)

Spec == Init /\ [][Next]_vars
FairSpec == Spec /\ Fairness

------------------------------------------------------------------------------
(* Properties. *)

\* Every variable keeps its type; a caller that holds a permit is at one of
\* its attempts.
TypeOK ==
  /\ opened \in {"no", "cooling", "cooled"}
  /\ probing \in BOOLEAN /\ up \in BOOLEAN
  /\ failures \in Nat /\ probes \in Nat /\ changes \in Nat
  /\ limit \in Limits /\ current \in Sem
  /\ size \in [Sem -> Limits] /\ free \in [Sem -> Nat]
  /\ pc \in [Caller -> Places] /\ on \in [Caller -> Sem]
  /\ attempt \in [Caller -> 0..MaxAttempts] /\ probe \in [Caller -> BOOLEAN]
  /\ \A c \in Caller : Holding(c) => attempt[c] > 0

\* "Admit one half-open probe" (allow): from one setting of _opened_at to the next,
\* the provider that is being spared gets one call, whatever becomes of the calls that
\* were admitted before.  The cooldowns may be several while one probe is in flight.
OneProbePerCooldown == probes <= 1

\* "Concurrent half-open admissions are serialized so only one probe is in-flight at
\* a time" (allow).  That is not so: the failure of a call that was admitted before
\* clears the flag of the probe in flight and restarts the cooldown, after which the
\* next probe is admitted beside it.
OneProbeInFlight == \A c, d \in Caller : probe[c] /\ probe[d] => c = d

\* "On success the breaker re-closes, on failure it re-opens" (CircuitBreaker):
\* the breaker that refuses everyone because a probe is in flight has one in
\* flight, whose result is still to come.
NotWedged == probing => opened # "no" /\ \E c \in Caller : probe[c]

\* A slow generation "can't starve the rest of the pipeline" (the module's
\* Concurrency limit), and replacing the semaphore "is safe"
\* (_resize_semaphore_if_needed): through retries, cancellations and resizes, each
\* semaphore has lent exactly the permits that its holders hold.
PermitsAddUp == \A s \in Sem : free[s] + Cardinality(Holders(s)) = size[s]

\* Every call ends, in the queue of an old semaphore too.
EveryCallEnds == \A c \in Caller : pc[c] # "out" ~> pc[c] = "out"

\* A provider that stays up is used again: the breaker closes, and stays so.
ClosesForAHealthyProvider == <>[]up => <>[](opened = "no")
==============================================================================
