----------------------------- MODULE PriorityGate -----------------------------
(***************************************************************************)
(* _PriorityGate, the in-process tier of the GPU lock: a lock for the      *)
(* coroutines of one event loop whose waiters are woken by class, aged     *)
(* upward while they wait, and first come first served within a class.     *)
(*                                                                         *)
(* A step is what the event loop runs between two awaits.  A grant and the *)
(* moment the granted coroutine runs again are two steps; it can be        *)
(* cancelled (by its own timeout, or by its caller) before, between or     *)
(* after them.                                                             *)
(***************************************************************************)
EXTENDS Integers

CONSTANTS
  Callers,
  NoCaller,
  Rank,     \* the class each caller asks in: 0 pipeline, 1 operator, 2 background
  Windows,  \* values of gpu_sched_aging_seconds a wake may read; 0 is no aging
  MaxWait   \* bound: time a waiter is seen to have waited

ASSUME GateAssumption ==
  /\ NoCaller \notin Callers
  /\ Rank \in [Callers -> Nat]
  /\ Windows \subseteq Nat /\ Windows # {}
  /\ MaxWait \in Nat

VARIABLES
  held,     \* _held
  waiters,  \* _waiters, in enqueue order: see elders
  elders,   \* for each waiter, the waiters with a smaller seq
  waited,   \* for each waiter, the time since it enqueued
  at        \* where each caller is

vars == <<held, waiters, elders, waited, at>>

Places ==
  { "out",
    "parked",     \* its future is pending
    "cancelled",  \* its future was cancelled, it has not run since
    "granted",    \* its future has a result, it has not run since
    "revoked",    \* granted, and its task was cancelled before it ran
    "in" }        \* acquire() has returned

Init ==
  /\ held = FALSE
  /\ waiters = {}
  /\ elders = [c \in Callers |-> {}]
  /\ waited = [c \in Callers |-> 0]
  /\ at = [c \in Callers |-> "out"]

------------------------------------------------------------------------------
(* acquire *)

AcquireAtOnce(c) ==
  /\ at[c] = "out"
  /\ ~held /\ waiters = {}
  /\ held' = TRUE
  /\ at' = [at EXCEPT ![c] = "in"]
  /\ UNCHANGED <<waiters, elders, waited>>

Park(c) ==
  /\ at[c] = "out"
  /\ held \/ waiters # {}
  /\ waiters' = waiters \cup {c}
  /\ elders' = [elders EXCEPT ![c] = waiters]
  /\ waited' = [waited EXCEPT ![c] = 0]
  /\ at' = [at EXCEPT ![c] = "parked"]
  /\ UNCHANGED held

Cancel(c) ==
  /\ \/ at[c] = "parked" /\ at' = [at EXCEPT ![c] = "cancelled"]
     \/ at[c] = "granted" /\ at' = [at EXCEPT ![c] = "revoked"]
  /\ UNCHANGED <<held, waiters, elders, waited>>

Resume(c) ==
  /\ at[c] = "granted"
  /\ at' = [at EXCEPT ![c] = "in"]
  /\ UNCHANGED <<held, waiters, elders, waited>>

\* Mutant: a waiter still counts as an elder after it has left.
KeepWaitingStale(W) ==
  /\ waiters' = W
  /\ UNCHANGED <<elders, waited>>

\* Who is no longer in the list is nobody's elder.
KeepWaiting(W) ==
  /\ waiters' = W
  /\ elders' = [c \in Callers |-> IF c \in W THEN elders[c] \cap W ELSE {}]
  /\ waited' = [c \in Callers |-> IF c \in W THEN waited[c] ELSE 0]

\* _discard
ResumeCancelled(c) ==
  /\ at[c] = "cancelled"
  /\ KeepWaiting(waiters \ {c})
  /\ at' = [at EXCEPT ![c] = "out"]
  /\ UNCHANGED held

------------------------------------------------------------------------------
(* _wake_next *)

Promoted(c, window) == waited[c] \div window

\* Mutants: nobody ages; aging is not floored at 0, and jumps the pipeline's elders.
EffectiveRankUnaged(c, window) == Rank[c]
EffectiveRankUnfloored(c, window) ==
  IF window = 0 \/ Rank[c] = 0 THEN Rank[c] ELSE Rank[c] - Promoted(c, window)

EffectiveRank(c, window) ==
  IF window = 0 \/ Rank[c] = 0          THEN Rank[c]
  ELSE IF Promoted(c, window) >= Rank[c] THEN 0
  ELSE Rank[c] - Promoted(c, window)

Live == {c \in waiters : at[c] = "parked"}

\* Mutant: ties go to the better class.
FirstByClass(c, window) ==
  \A d \in Live \ {c} :
    \/ EffectiveRank(c, window) < EffectiveRank(d, window)
    \/ /\ EffectiveRank(c, window) = EffectiveRank(d, window)
       /\ Rank[c] < Rank[d] \/ (Rank[c] = Rank[d] /\ c \in elders[d])
First(c, window) ==
  \A d \in Live \ {c} :
    \/ EffectiveRank(c, window) < EffectiveRank(d, window)
    \/ EffectiveRank(c, window) = EffectiveRank(d, window) /\ c \in elders[d]

\* c lets go of the gate, and the first of the live waiters gets it.
LetGo(c) ==
  IF Live = {}
    THEN /\ held' = FALSE
         /\ KeepWaiting({})
         /\ at' = [at EXCEPT ![c] = "out"]
    ELSE \E w \in Live, window \in Windows :
           /\ First(w, window)
           /\ held' = TRUE
           /\ KeepWaiting(Live \ {w})
           /\ at' = [at EXCEPT ![c] = "out", ![w] = "granted"]

Release(c) == at[c] = "in" /\ LetGo(c)

\* The grant landed concurrently with the cancellation: it is passed on.
\* Mutant: the gate is opened, but nobody woken.
ResumeRevokedWakesNobody(c) ==
  /\ at[c] = "revoked"
  /\ held' = FALSE
  /\ at' = [at EXCEPT ![c] = "out"]
  /\ UNCHANGED <<waiters, elders, waited>>
ResumeRevoked(c) == at[c] = "revoked" /\ LetGo(c)

Older(t) == IF t < MaxWait THEN t + 1 ELSE t

Tick ==
  /\ \E c \in waiters : waited[c] < MaxWait
  /\ waited' = [c \in Callers |-> IF c \in waiters THEN Older(waited[c]) ELSE 0]
  /\ UNCHANGED <<held, waiters, elders, at>>

------------------------------------------------------------------------------
Next ==
  \/ \E c \in Callers : \/ AcquireAtOnce(c) \/ Park(c) \/ Cancel(c) \/ Release(c)
                        \/ Resume(c) \/ ResumeCancelled(c) \/ ResumeRevoked(c)
  \/ Tick

\* The event loop runs whatever is ready, holders finish, time passes.
Fairness ==
  /\ \A c \in Callers :
       /\ WF_vars(Release(c))
       /\ WF_vars(Resume(c) \/ ResumeCancelled(c) \/ ResumeRevoked(c))
  /\ WF_vars(Tick)

Spec == Init /\ [][Next]_vars
FairSpec == Spec /\ Fairness

------------------------------------------------------------------------------
(* Properties. *)

\* Every variable keeps its type, and the elders of a waiter are waiters.
TypeOK ==
  /\ held \in BOOLEAN
  /\ waiters \in SUBSET Callers
  /\ elders \in [Callers -> SUBSET Callers]
  /\ waited \in [Callers -> Nat]
  /\ at \in [Callers -> Places]
  /\ \A c \in Callers : elders[c] \subseteq waiters

Owns(c) == at[c] \in {"granted", "revoked", "in"}

\* "So the grant chain never wedges" (acquire): the gate is held exactly while
\* one caller has it, granted, cancelled or running, and nobody waits at an
\* open gate.
HeldByOne ==
  /\ held <=> \E c \in Callers : Owns(c)
  /\ \A c, d \in Callers : Owns(c) /\ Owns(d) => c = d
  /\ ~held => waiters = {}

\* "Without ever jumping a same-rank elder" (_PriorityGate): who gets the gate
\* while somebody waits was itself waiting, and passes only elders of a class
\* below its own, whatever the aging window is when the gate changes hands.
Waits(c) == at[c] = "parked"
Gets(c) == ~Owns(c) /\ Owns(c)'
NeverJumpsAnElder ==
  [][\A c, d \in Callers :
       Gets(c) /\ Waits(d) /\ c # d =>
         Waits(c) /\ (d \in elders[c] => Rank[c] < Rank[d])]_vars

\* "Starvation-proof" (_PriorityGate): there is an end to being overtaken.  The
\* elders of a waiter only leave; and one that has aged to the first class is
\* passed only by elders, each of which is none after, so by as many callers as
\* it has elders: later arrivals of any class queue behind it.
Aged(c) == \A window \in Windows : EffectiveRank(c, window) = 0
OnlyEldersPassTheAged ==
  [][\A c, d \in Callers :
       Waits(d) =>
         /\ d \in waiters' => elders'[d] \subseteq elders[d]
         /\ Gets(c) /\ c # d /\ Aged(d) => c \in elders[d] \ elders'[d]]_vars

\* The gate is a starvation-free lock ("starvation-proof").
TheHolder == IF held THEN CHOOSE c \in Callers : Owns(c) ELSE NoCaller
Lock == INSTANCE StarvationFreeLock
          WITH holder <- TheHolder, asking <- {c \in Callers : Waits(c)}
ImplementsLock == Lock!Spec
==============================================================================
