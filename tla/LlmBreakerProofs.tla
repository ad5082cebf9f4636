--------------------------- MODULE LlmBreakerProofs ---------------------------
(***************************************************************************)
(* Proofs about LlmBreaker, for any number of callers, any capacities and  *)
(* thresholds, and any number of changes of the settings.                  *)
(***************************************************************************)
EXTENDS LlmBreaker, FiniteSetTheorems, TLAPS

\* No probe is cancelled.
Calm == "cancel_probe" \notin Events

\* The setting differs from the capacity in force only while a change of it has
\* not been picked up, so there is a semaphore left for it.
SemaphoresSuffice ==
  /\ changes <= MaxChanges /\ current <= changes + 1
  /\ limit # size[current] => current <= changes

AttemptsOK ==
  \A c \in Caller : /\ Holding(c) => attempt[c] > 0
                    /\ pc[c] = "backoff" => attempt[c] < MaxAttempts

\* Nobody is at a semaphore that has not been made yet.
Entered == \A c \in Caller : pc[c] # "out" => on[c] <= current

\* The flag tells how many probes this cooldown had.
FlagCounts ==
  /\ probes = IF probing THEN 1 ELSE 0
  /\ probing => opened # "no"

ProbeLives == probing => \E c \in Caller : probe[c]

Typed == TypeOK /\ SemaphoresSuffice /\ AttemptsOK /\ Entered
------------------------------------------------------------------------------
(* Types. *)

LEMMA TypedInit == Init => Typed
  <1> SUFFICES ASSUME Init PROVE Typed
    OBVIOUS
  <1>1. 1 \in Sem /\ Limits \subseteq Nat
    BY BreakerAssumption DEF Sem
  <1>2. size \in [Sem -> Limits] /\ free \in [Sem -> Nat] /\ limit = size[1]
    BY <1>1 DEF Init
  <1>3. TypeOK
    <2>1. attempt \in [Caller -> 0..MaxAttempts] /\ \A c \in Caller : ~Holding(c)
      BY BreakerAssumption DEF Init, Holding
    <2>2. pc \in [Caller -> Places] /\ on \in [Caller -> Sem] /\ probe \in [Caller -> BOOLEAN]
      BY <1>1 DEF Init, Places
    <2> QED BY <1>1, <1>2, <2>1, <2>2 DEF Init, TypeOK
  <1>4. SemaphoresSuffice /\ AttemptsOK /\ Entered
    BY <1>2, BreakerAssumption DEF Init, SemaphoresSuffice, AttemptsOK, Entered, Holding
  <1> QED BY <1>3, <1>4 DEF Typed

\* A call that arrives makes the new semaphore, if there is one to be made.
LEMMA ResizeTyped ==
  ASSUME Typed, Resize, UNCHANGED settings
  PROVE  /\ current' \in Sem /\ size' \in [Sem -> Limits] /\ free' \in [Sem -> Nat]
         /\ current <= current' /\ SemaphoresSuffice'
  <1>1. CASE limit = size[current]
    BY <1>1 DEF Typed, TypeOK, Resize, permits, settings, SemaphoresSuffice, Sem
  <1>2. CASE limit # size[current]
    <2>1. current + 1 \in Sem /\ limit \in Nat /\ current \in Nat
      BY <1>2, BreakerAssumption DEF Typed, TypeOK, SemaphoresSuffice, Sem
    <2>2. /\ current' = current + 1
          /\ size' = [size EXCEPT ![current + 1] = limit]
          /\ free' = [free EXCEPT ![current + 1] = limit]
      BY <1>2 DEF Resize
    <2>3. size'[current'] = limit'
      BY <2>1, <2>2 DEF Typed, TypeOK, settings
    <2>4. current <= changes /\ changes \in Nat /\ changes' = changes
      BY <1>2 DEF Typed, TypeOK, SemaphoresSuffice, settings
    <2> QED BY <2>1, <2>2, <2>3, <2>4 DEF Typed, TypeOK, SemaphoresSuffice
  <1> QED BY <1>1, <1>2

LEMMA ReleasesTyped ==
  ASSUME Typed, NEW c \in Caller, Releases(c)
  PROVE  free' \in [Sem -> Nat]
  BY DEF Typed, TypeOK, Releases

LEMMA LeavesTyped ==
  ASSUME Typed, NEW c \in Caller, Leaves(c),
         opened' \in {"no", "cooling", "cooled"}, probing' \in BOOLEAN,
         failures' \in Nat, probes' \in Nat
  PROVE  Typed'
  <1>1. free' \in [Sem -> Nat]
    BY ReleasesTyped DEF Leaves
  <1>2. TypeOK'
    BY <1>1, BreakerAssumption DEF Typed, TypeOK, Leaves, settings, Places, Holding
  <1>3. SemaphoresSuffice' /\ Entered'
    BY DEF Typed, TypeOK, Leaves, settings, SemaphoresSuffice, Entered, Places
  <1>4. AttemptsOK'
    BY DEF Typed, TypeOK, Leaves, AttemptsOK, Holding, Places
  <1> QED BY <1>2, <1>3, <1>4 DEF Typed

LEMMA OneMoreTyped ==
  ASSUME Typed PROVE OneMore \in Nat
  BY DEF Typed, TypeOK, OneMore

LEMMA TypedStep == Typed /\ [Next]_vars => Typed'
  <1> SUFFICES ASSUME Typed, [Next]_vars PROVE Typed'
    OBVIOUS
  <1>1. ASSUME NEW c \in Caller, Refused(c) PROVE Typed'
    <2>1. /\ current' \in Sem /\ size' \in [Sem -> Limits] /\ free' \in [Sem -> Nat]
          /\ current <= current' /\ SemaphoresSuffice'
      BY <1>1, ResizeTyped DEF Refused
    <2>2. TypeOK' /\ AttemptsOK'
      BY <1>1, <2>1 DEF Typed, TypeOK, AttemptsOK, Refused, breaker, callers, settings, Holding
    <2>3. Entered'
      BY <1>1, <2>1 DEF Typed, TypeOK, Entered, Refused, callers, Sem
    <2> QED BY <2>1, <2>2, <2>3 DEF Typed
  <1>2. ASSUME NEW c \in Caller, Admitted(c) PROVE Typed'
    <2>1. /\ current' \in Sem /\ size' \in [Sem -> Limits] /\ free' \in [Sem -> Nat]
          /\ current <= current' /\ SemaphoresSuffice'
      BY <1>2, ResizeTyped DEF Admitted
    <2>2. TypeOK'
      BY <1>2, <2>1 DEF Typed, TypeOK, Admitted, settings, Holding, HalfOpen, Places
    <2>3. AttemptsOK'
      BY <1>2 DEF Typed, TypeOK, AttemptsOK, Admitted, Holding
    <2>4. Entered'
      BY <1>2, <2>1 DEF Typed, TypeOK, Entered, Admitted, Sem
    <2> QED BY <2>1, <2>2, <2>3, <2>4 DEF Typed
  <1>3. ASSUME NEW c \in Caller, Acquires(c) PROVE Typed'
    <2>1. free' \in [Sem -> Nat]
      BY <1>3 DEF Acquires, Typed, TypeOK
    <2>2. TypeOK' /\ AttemptsOK'
      BY <1>3, <2>1, BreakerAssumption
      DEF Acquires, Typed, TypeOK, AttemptsOK, breaker, settings, Holding, Places
    <2>3. SemaphoresSuffice' /\ Entered'
      BY <1>3 DEF Acquires, Typed, TypeOK, SemaphoresSuffice, Entered, settings
    <2> QED BY <2>2, <2>3 DEF Typed
  <1>4. ASSUME NEW c \in Caller, Succeeds(c) PROVE Typed'
    BY <1>4, LeavesTyped DEF Succeeds, RecordSuccess
  <1>5. ASSUME NEW c \in Caller, FailsForGood(c) PROVE Typed'
    <2>1. failures' \in Nat /\ opened' \in {"no", "cooling", "cooled"} /\ probes' \in Nat
      BY <1>5, OneMoreTyped DEF FailsForGood, RecordFailure, Typed, TypeOK
    <2> QED BY <1>5, <2>1, LeavesTyped DEF FailsForGood, RecordFailure
  <1>6. ASSUME NEW c \in Caller, BacksOff(c) PROVE Typed'
    <2>1. TypeOK' /\ AttemptsOK'
      BY <1>6 DEF BacksOff, MoreAttempts, Typed, TypeOK, AttemptsOK, breaker, permits,
         settings, Holding, Places
    <2>2. SemaphoresSuffice' /\ Entered'
      BY <1>6 DEF BacksOff, Typed, TypeOK, SemaphoresSuffice, Entered, permits, settings
    <2> QED BY <2>1, <2>2 DEF Typed
  <1>7. ASSUME NEW c \in Caller, TriesAgain(c) PROVE Typed'
    <2>1. attempt[c] + 1 \in 1..MaxAttempts
      BY <1>7, BreakerAssumption DEF TriesAgain, Typed, TypeOK, AttemptsOK, Holding
    <2>2. TypeOK' /\ AttemptsOK'
      BY <1>7, <2>1 DEF TriesAgain, NextAttempt, Typed, TypeOK, AttemptsOK, breaker, permits,
         settings, Holding, Places
    <2>3. SemaphoresSuffice' /\ Entered'
      BY <1>7 DEF TriesAgain, Typed, TypeOK, SemaphoresSuffice, Entered, permits, settings
    <2> QED BY <2>2, <2>3 DEF Typed
  <1>8. ASSUME NEW c \in Caller, Cancelled(c) PROVE Typed'
    BY <1>8, LeavesTyped DEF Cancelled, breaker, Typed, TypeOK
  <1>9. ASSUME CoolsDown \/ WindowSlides \/ ProviderTurns \/ RaiseCooldown PROVE Typed'
    <2>1. TypeOK'
      <3>1. CASE CoolsDown
        BY <3>1 DEF CoolsDown, Typed, TypeOK, permits, callers, settings, Holding
      <3>2. CASE WindowSlides
        <4>1. failures' \in Nat
          BY <3>2 DEF WindowSlides, Typed, TypeOK
        <4> QED BY <3>2, <4>1 DEF WindowSlides, Typed, TypeOK, permits, callers, settings, Holding
      <3>3. CASE ProviderTurns
        BY <3>3 DEF ProviderTurns, Typed, TypeOK, breaker, permits, callers, Holding
      <3>4. CASE RaiseCooldown
        BY <3>4 DEF RaiseCooldown, Change, Typed, TypeOK, permits, callers, Holding
      <3> QED BY <1>9, <3>1, <3>2, <3>3, <3>4
    <2>2. SemaphoresSuffice'
      BY <1>9, BreakerAssumption
      DEF CoolsDown, WindowSlides, ProviderTurns, RaiseCooldown, Change, Typed, TypeOK,
         SemaphoresSuffice, permits, settings, Sem
    <2>3. AttemptsOK' /\ Entered'
      BY <1>9 DEF CoolsDown, WindowSlides, ProviderTurns, RaiseCooldown, Typed, AttemptsOK,
         Entered, permits, callers, Holding
    <2> QED BY <2>1, <2>2, <2>3 DEF Typed
  <1>10. CASE SetLimit
    <2>1. SemaphoresSuffice'
      BY <1>10, BreakerAssumption DEF SetLimit, Change, Typed, TypeOK, SemaphoresSuffice,
         permits, Sem
    <2>2. TypeOK' /\ AttemptsOK' /\ Entered'
      BY <1>10 DEF SetLimit, Change, Typed, TypeOK, AttemptsOK, Entered, breaker, permits,
         callers, Holding
    <2> QED BY <2>1, <2>2 DEF Typed
  <1>11. CASE UNCHANGED vars
    BY <1>11 DEF vars, breaker, permits, callers, settings, Typed, TypeOK, SemaphoresSuffice,
       AttemptsOK, Entered, Holding
  <1> QED
    BY <1>1, <1>2, <1>3, <1>4, <1>5, <1>6, <1>7, <1>8, <1>9, <1>10, <1>11
    DEF Next, Proceeds, Ends

\* Every variable keeps its type, whatever happens: no call is tried more than
\* MaxAttempts times.
THEOREM BreakerTyped == Spec => []TypeOK
  <1>1. Typed => TypeOK
    BY DEF Typed
  <1> QED BY TypedInit, TypedStep, <1>1, PTL DEF Spec
------------------------------------------------------------------------------
(* The probe. *)

LEMMA FlagCountsStep == Typed /\ FlagCounts /\ [Next]_vars => FlagCounts'
  <1> SUFFICES ASSUME Typed, FlagCounts, [Next]_vars PROVE FlagCounts'
    OBVIOUS
  <1>1. ASSUME NEW c \in Caller, Admitted(c) PROVE FlagCounts'
    <2>0. opened' = opened /\ ~probing
      BY <1>1 DEF Admitted, Allows, FlagCounts
    <2>1. opened' = opened /\ ~probing /\ probes = 0
      BY <2>0 DEF FlagCounts
    <2>2. CASE HalfOpen
      <3>1. probing' /\ probes' = probes + 1
        BY <1>1, <2>2 DEF Admitted
      <3>2. probes' = 1 /\ opened' # "no"
        BY <2>1, <2>2, <3>1 DEF HalfOpen
      <3> QED BY <3>1, <3>2 DEF FlagCounts
    <2>3. CASE ~HalfOpen
      BY <1>1, <2>1, <2>3 DEF Admitted, FlagCounts
    <2> QED BY <2>2, <2>3
  <1>2. ASSUME NEW c \in Caller, Succeeds(c) PROVE FlagCounts'
    BY <1>2 DEF Succeeds, RecordSuccess, FlagCounts
  <1>3. ASSUME NEW c \in Caller, FailsForGood(c) PROVE FlagCounts'
    BY <1>3 DEF FailsForGood, RecordFailure, SetsOpenedAt, ProbeFailed, FlagCounts
  <1>4. ASSUME NEW c \in Caller,
               Refused(c) \/ Acquires(c) \/ BacksOff(c) \/ TriesAgain(c) \/ Cancelled(c)
        PROVE  FlagCounts'
    BY <1>4 DEF Refused, Acquires, BacksOff, TriesAgain, Cancelled, breaker, FlagCounts
  <1>5. CASE CoolsDown \/ WindowSlides \/ ProviderTurns \/ SetLimit \/ RaiseCooldown
    BY <1>5 DEF CoolsDown, WindowSlides, ProviderTurns, SetLimit, RaiseCooldown, breaker,
       FlagCounts
  <1>6. CASE UNCHANGED vars
    BY <1>6 DEF vars, breaker, FlagCounts
  <1> QED
    BY <1>1, <1>2, <1>3, <1>4, <1>5, <1>6 DEF Next, Proceeds, Ends

\* The flag goes up with a probe, and comes down with any result; so a probe that
\* is not cancelled leaves only when the flag is down.
LEMMA ProbeLivesStep ==
  Calm /\ Typed /\ FlagCounts /\ ProbeLives /\ [Next]_vars => ProbeLives'
  <1> SUFFICES ASSUME Calm, Typed, FlagCounts, ProbeLives, [Next]_vars, probing'
               PROVE  \E c \in Caller : probe'[c]
    BY DEF ProbeLives
  <1>1. ASSUME NEW c \in Caller, Admitted(c) PROVE \E d \in Caller : probe'[d]
    <2>1. HalfOpen
      BY <1>1 DEF Admitted, Allows, FlagCounts
    <2> QED BY <1>1, <2>1 DEF Admitted, Typed, TypeOK
  <1>2. ASSUME NEW c \in Caller, Succeeds(c) \/ FailsForGood(c) PROVE FALSE
    BY <1>2 DEF Succeeds, RecordSuccess, FailsForGood, RecordFailure
  <1>3. ASSUME NEW c \in Caller, Cancelled(c) PROVE \E d \in Caller : probe'[d]
    <2>1. probing /\ ~probe[c]
      BY <1>3 DEF Cancelled, breaker, Calm
    <2>2. PICK d \in Caller : probe[d]
      BY <2>1 DEF ProbeLives
    <2>3. probe'[d]
      BY <1>3, <2>1, <2>2 DEF Cancelled, Leaves, Typed, TypeOK
    <2> QED BY <2>3
  <1>4. ASSUME NEW c \in Caller, Refused(c) \/ Acquires(c) \/ BacksOff(c) \/ TriesAgain(c)
        PROVE  \E d \in Caller : probe'[d]
    BY <1>4 DEF Refused, Acquires, BacksOff, TriesAgain, breaker, callers, ProbeLives
  <1>5. CASE CoolsDown \/ WindowSlides \/ ProviderTurns \/ SetLimit \/ RaiseCooldown
    BY <1>5 DEF CoolsDown, WindowSlides, ProviderTurns, SetLimit, RaiseCooldown, breaker,
       callers, ProbeLives
  <1>6. CASE UNCHANGED vars
    BY <1>6 DEF vars, breaker, callers, ProbeLives
  <1> QED
    BY <1>1, <1>2, <1>3, <1>4, <1>5, <1>6 DEF Next, Proceeds, Ends

LEMMA ProbeInit == Init => FlagCounts /\ ProbeLives
  BY DEF Init, FlagCounts, ProbeLives

\* A provider that is being spared gets one call per cooldown, even when probes
\* are cancelled and late results of earlier calls arrive at any time.
THEOREM OneProbeEachCooldown == Spec => []OneProbePerCooldown
  <1>1. Typed /\ FlagCounts => OneProbePerCooldown
    BY DEF FlagCounts, OneProbePerCooldown
  <1> QED
    BY TypedInit, TypedStep, ProbeInit, FlagCountsStep, <1>1, PTL DEF Spec

\* Unless a probe is cancelled, a breaker that waits for a probe has one.
THEOREM BreakerIsNotWedged == ASSUME Calm PROVE Spec => []NotWedged
  <1>1. Typed /\ FlagCounts /\ ProbeLives => NotWedged
    BY DEF FlagCounts, ProbeLives, NotWedged
  <1>2. Typed /\ FlagCounts /\ ProbeLives /\ [Next]_vars => ProbeLives'
    BY Calm, ProbeLivesStep
  <1> QED
    BY TypedInit, TypedStep, ProbeInit, FlagCountsStep, <1>1, <1>2, PTL DEF Spec

------------------------------------------------------------------------------
(* The permits. *)

LEMMA HoldersFinite == \A s \in Sem : IsFiniteSet(Holders(s)) /\ Cardinality(Holders(s)) \in Nat
  <1> SUFFICES ASSUME NEW s \in Sem
               PROVE  IsFiniteSet(Holders(s)) /\ Cardinality(Holders(s)) \in Nat
    OBVIOUS
  <1>1. Holders(s) \subseteq Caller
    BY DEF Holders
  <1>2. IsFiniteSet(Holders(s))
    BY <1>1, BreakerAssumption, FS_Subset
  <1> QED BY <1>2, FS_CardinalityType

LEMMA PermitsInit == Init => PermitsAddUp
  <1> SUFFICES ASSUME Init, NEW s \in Sem
               PROVE  free[s] + Cardinality(Holders(s)) = size[s]
    BY DEF PermitsAddUp
  <1>1. Holders(s) = {}
    BY DEF Init, Holders, Holding
  <1>2. free[s] = size[s] /\ size[s] \in Nat
    BY BreakerAssumption DEF Init
  <1> QED BY <1>1, <1>2, FS_EmptySet

\* The semaphores stay, or one nobody has entered is made; so as long as nobody
\* takes or returns a permit the books stay balanced.
LEMMA ResizePermits ==
  ASSUME Typed, PermitsAddUp, Resize, \A s \in Sem : Holders(s)' = Holders(s)
  PROVE  PermitsAddUp'
  <1> SUFFICES ASSUME NEW s \in Sem
               PROVE  free'[s] + Cardinality(Holders(s)) = size'[s]
    BY DEF PermitsAddUp
  <1>1. CASE limit = size[current]
    BY <1>1 DEF Resize, permits, PermitsAddUp
  <1>2. CASE limit # size[current]
    <2>1. CASE s = current + 1
      <3>1. Holders(s) = {}
        <4>1. current \in Nat
          BY DEF Typed, TypeOK, Sem
        <4>2. \A c \in Caller : on[c] = s => pc[c] = "out"
          BY <2>1, <4>1 DEF Typed, Entered
        <4> QED BY <4>2 DEF Holders, Holding
      <3>2. free'[s] = limit /\ size'[s] = limit /\ limit \in Nat
        BY <1>2, <2>1, BreakerAssumption DEF Resize, Typed, TypeOK
      <3> QED BY <3>1, <3>2, FS_EmptySet
    <2>2. CASE s # current + 1
      BY <1>2, <2>2 DEF Resize, Typed, TypeOK, PermitsAddUp
    <2> QED BY <2>1, <2>2
  <1> QED BY <1>1, <1>2

\* One caller starts to hold a permit of the semaphore it is at.
LEMMA TakesOne ==
  ASSUME Typed, PermitsAddUp, NEW c \in Caller, ~Holding(c),
         free[on[c]] > 0, free' = [free EXCEPT ![on[c]] = @ - 1], UNCHANGED <<size, on>>,
         pc' = [pc EXCEPT ![c] = "calling"]
  PROVE  PermitsAddUp'
  <1> SUFFICES ASSUME NEW s \in Sem
               PROVE  free'[s] + Cardinality(Holders(s)') = size[s]
    BY DEF PermitsAddUp
  <1>0. free[s] \in Nat /\ size[s] \in Nat /\ free[s] + Cardinality(Holders(s)) = size[s]
    BY BreakerAssumption DEF PermitsAddUp, Typed, TypeOK
  <1>1. CASE s = on[c]
    <2>1. Holders(s)' = Holders(s) \cup {c} /\ c \notin Holders(s)
      BY <1>1 DEF Holders, Holding, Typed, TypeOK
    <2>2. Cardinality(Holders(s)') = Cardinality(Holders(s)) + 1
      BY <2>1, HoldersFinite, FS_AddElement
    <2>3. free'[s] = free[s] - 1
      BY <1>1 DEF Typed, TypeOK
    <2> QED BY <1>0, <2>2, <2>3, HoldersFinite
  <1>2. CASE s # on[c]
    <2>1. Holders(s)' = Holders(s)
      BY <1>2 DEF Holders, Holding, Typed, TypeOK
    <2> QED BY <1>0, <1>2, <2>1 DEF Typed, TypeOK
  <1> QED BY <1>1, <1>2

\* A caller that leaves returns what it holds, where it got it.
LEMMA LeavesPermits ==
  ASSUME Typed, PermitsAddUp, NEW c \in Caller, Leaves(c)
  PROVE  PermitsAddUp'
  <1> SUFFICES ASSUME NEW s \in Sem
               PROVE  free'[s] + Cardinality(Holders(s)') = size[s]
    BY DEF PermitsAddUp, Leaves
  <1>0. free[s] \in Nat /\ size[s] \in Nat /\ free[s] + Cardinality(Holders(s)) = size[s]
    BY BreakerAssumption DEF PermitsAddUp, Typed, TypeOK
  <1>1. CASE c \in Holders(s)
    <2>1. Holders(s)' = Holders(s) \ {c}
      BY <1>1 DEF Leaves, Holders, Holding, Typed, TypeOK
    <2>2. Cardinality(Holders(s)') = Cardinality(Holders(s)) - 1
      BY <1>1, <2>1, HoldersFinite, FS_RemoveElement
    <2>3. free'[s] = free[s] + 1
      BY <1>1 DEF Leaves, Releases, Holders, Typed, TypeOK
    <2> QED BY <1>0, <2>2, <2>3, HoldersFinite
  <1>2. CASE c \notin Holders(s)
    <2>1. Holders(s)' = Holders(s)
      BY <1>2 DEF Leaves, Holders, Holding, Typed, TypeOK
    <2>2. free'[s] = free[s]
      BY <1>2 DEF Leaves, Releases, Holders, Typed, TypeOK
    <2> QED BY <1>0, <2>1, <2>2
  <1> QED BY <1>1, <1>2

LEMMA PermitsStep == Typed /\ PermitsAddUp /\ [Next]_vars => PermitsAddUp'
  <1> SUFFICES ASSUME Typed, PermitsAddUp, [Next]_vars PROVE PermitsAddUp'
    OBVIOUS
  <1>1. ASSUME NEW c \in Caller, Refused(c) \/ Admitted(c) PROVE PermitsAddUp'
    <2>1. Resize
      BY <1>1 DEF Refused, Admitted
    <2>2. \A s \in Sem : Holders(s)' = Holders(s)
      BY <1>1 DEF Refused, Admitted, callers, Holders, Holding, Typed, TypeOK
    <2> QED BY <2>1, <2>2, ResizePermits
  <1>2. ASSUME NEW c \in Caller, Acquires(c) PROVE PermitsAddUp'
    BY <1>2, TakesOne DEF Acquires, Holding
  <1>3. ASSUME NEW c \in Caller, Succeeds(c) \/ FailsForGood(c) \/ Cancelled(c)
        PROVE  PermitsAddUp'
    BY <1>3, LeavesPermits DEF Succeeds, FailsForGood, Cancelled
  <1>4. ASSUME NEW c \in Caller, BacksOff(c) \/ TriesAgain(c) PROVE PermitsAddUp'
    <2>1. \A s \in Sem : Holders(s)' = Holders(s)
      BY <1>4 DEF BacksOff, TriesAgain, Holders, Holding, Typed, TypeOK
    <2> QED BY <1>4, <2>1 DEF BacksOff, TriesAgain, permits, PermitsAddUp
  <1>5. ASSUME UNCHANGED <<permits, callers>> PROVE PermitsAddUp'
    <2>1. \A s \in Sem : Holders(s)' = Holders(s)
      BY <1>5 DEF callers, Holders, Holding
    <2> QED BY <1>5, <2>1 DEF permits, PermitsAddUp
  <1> QED
    BY <1>1, <1>2, <1>3, <1>4, <1>5
    DEF Next, Proceeds, Ends, CoolsDown, WindowSlides, ProviderTurns, SetLimit, RaiseCooldown, vars

\* No permit is lost or made, whatever is cancelled and however often the
\* semaphore is replaced.
THEOREM NoPermitIsLost == Spec => []PermitsAddUp
  BY TypedInit, TypedStep, PermitsInit, PermitsStep, PTL DEF Spec

\* Nobody queues for nothing: a call in the queue can have a permit at once, or
\* waits for one that another call in the same semaphore holds, even if that
\* semaphore was replaced; and no semaphore has more calls than its capacity.
QueuesAreServed ==
  /\ \A c \in Caller : pc[c] = "queued" =>
       free[on[c]] > 0 \/ \E d \in Caller : Holding(d) /\ on[d] = on[c]
  /\ \A s \in Sem : Cardinality(Holders(s)) <= size[s]

\* A resize strands no call, and lets no more through than it says.
THEOREM NobodyQueuesForNothing == Spec => []QueuesAreServed
  <1>1. TypeOK /\ PermitsAddUp => QueuesAreServed
    <2> SUFFICES ASSUME TypeOK, PermitsAddUp PROVE QueuesAreServed
      OBVIOUS
    <2>1. \A s \in Sem : /\ free[s] \in Nat /\ size[s] \in Nat \ {0}
                         /\ free[s] + Cardinality(Holders(s)) = size[s]
      BY BreakerAssumption DEF TypeOK, PermitsAddUp
    <2>2. ASSUME NEW c \in Caller, pc[c] = "queued", free[on[c]] = 0
          PROVE  \E d \in Caller : Holding(d) /\ on[d] = on[c]
      <3>1. on[c] \in Sem
        BY DEF TypeOK
      <3>2. Cardinality(Holders(on[c])) # 0
        BY <2>1, <2>2, <3>1
      <3>3. Holders(on[c]) # {}
        BY <3>2, FS_EmptySet
      <3> QED BY <3>3 DEF Holders
    <2>3. \A c \in Caller : free[on[c]] \in Nat
      BY <2>1 DEF TypeOK
    <2>4. \A s \in Sem : Cardinality(Holders(s)) <= size[s]
      BY <2>1, HoldersFinite
    <2> QED BY <2>2, <2>3, <2>4 DEF QueuesAreServed
  <1> QED
    BY <1>1, BreakerTyped, NoPermitIsLost, PTL
==============================================================================
