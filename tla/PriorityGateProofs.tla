-------------------------- MODULE PriorityGateProofs --------------------------
(***************************************************************************)
(* The gate is exclusive and never wedges, nobody jumps an elder of its    *)
(* own class or of a better one, and a waiter that has aged is passed by   *)
(* its elders only, for every set of callers, every assignment of classes  *)
(* and every aging window a wake may read. So the gate is the lock of      *)
(* StarvationFreeLock, but for its liveness.                               *)
(***************************************************************************)
EXTENDS PriorityGate, TLAPS

\* The waiters are the callers parked at the gate and those whose
\* cancellation has not been delivered yet ...
WaitersOK ==
  \A c \in Callers : /\ at[c] = "parked" => c \in waiters
                     /\ c \in waiters => at[c] \in {"parked", "cancelled"}

\* ... totally ordered by when they enqueued, the eldest having waited longest.
OrderOK ==
  /\ \A c, d \in waiters : c # d => (c \in elders[d] <=> d \notin elders[c])
  /\ \A c \in waiters : c \notin elders[c]
  /\ \A c \in waiters : \A d \in elders[c] : waited[c] <= waited[d]

GateInv == TypeOK /\ HeldByOne /\ WaitersOK /\ OrderOK

------------------------------------------------------------------------------
(* Aging keeps the order of elders. *)

LEMMA DivMonotone ==
  ASSUME NEW n \in Nat, n # 0, NEW x \in Nat, NEW y \in Nat, x <= y
  PROVE  /\ x \div n \in Nat /\ y \div n \in Nat
         /\ x \div n <= y \div n
  BY SMTT(30)

\* A waiter of a class no better than its elder's stays behind it.
LEMMA ElderStaysAhead ==
  ASSUME TypeOK, OrderOK, NEW c \in waiters, NEW d \in elders[c],
         NEW window \in Windows, Rank[d] <= Rank[c]
  PROVE  EffectiveRank(d, window) <= EffectiveRank(c, window)
<1>1. /\ Rank[c] \in Nat /\ Rank[d] \in Nat /\ window \in Nat
      /\ waited[c] \in Nat /\ waited[d] \in Nat /\ waited[c] <= waited[d]
  BY GateAssumption DEF TypeOK, OrderOK
<1>2. CASE window = 0
  BY <1>1, <1>2 DEF EffectiveRank
<1>3. CASE window # 0
  <2>1. /\ Promoted(c, window) \in Nat /\ Promoted(d, window) \in Nat
        /\ Promoted(c, window) <= Promoted(d, window)
    BY <1>1, <1>3, DivMonotone DEF Promoted
  <2>2. QED
    BY <1>1, <2>1 DEF EffectiveRank
<1>4. QED
  BY <1>2, <1>3

------------------------------------------------------------------------------
(* The invariant. *)

LEMMA InitGate == Init => GateInv
<1> SUFFICES ASSUME Init PROVE GateInv
  OBVIOUS
<1>1. TypeOK
  BY DEF Init, TypeOK, Places
<1>2. HeldByOne
  BY DEF Init, HeldByOne, Owns
<1>3. WaitersOK /\ OrderOK
  BY DEF Init, WaitersOK, OrderOK
<1>4. QED
  BY <1>1, <1>2, <1>3 DEF GateInv

\* What leaving some waiters behind does to the list.
LEMMA KeepOK ==
  ASSUME TypeOK, OrderOK, NEW W \in SUBSET waiters, KeepWaiting(W)
  PROVE  /\ waiters' \in SUBSET Callers
         /\ elders' \in [Callers -> SUBSET Callers]
         /\ waited' \in [Callers -> Nat]
         /\ \A c \in Callers : elders'[c] \subseteq waiters'
         /\ OrderOK'
<1>1. /\ waiters' = W /\ W \subseteq Callers
      /\ \A c \in Callers : elders'[c] = IF c \in W THEN elders[c] \cap W ELSE {}
      /\ \A c \in Callers : waited'[c] = IF c \in W THEN waited[c] ELSE 0
  BY DEF KeepWaiting, TypeOK
<1>2. /\ elders' \in [Callers -> SUBSET Callers]
      /\ waited' \in [Callers -> Nat]
  BY DEF KeepWaiting, TypeOK
<1>3. \A c \in Callers : elders'[c] \subseteq waiters'
  BY <1>1
<1>4. \A c \in W : /\ c \in waiters
                  /\ elders'[c] = elders[c] \cap W
                  /\ waited'[c] = waited[c]
  BY <1>1
<1>5. ASSUME NEW c \in W, NEW d \in W, c # d
      PROVE  c \in elders'[d] <=> d \notin elders'[c]
  BY <1>4, <1>5 DEF OrderOK
<1>6. ASSUME NEW c \in W
      PROVE  c \notin elders'[c] /\ \A d \in elders'[c] : waited'[c] <= waited'[d]
  BY <1>4, <1>6 DEF OrderOK
<1>7. QED
  BY <1>1, <1>2, <1>3, <1>5, <1>6 DEF OrderOK

LEMMA LetGoOK ==
  ASSUME GateInv, NEW c \in Callers, at[c] \in {"in", "revoked"}, LetGo(c)
  PROVE  GateInv'
<1> USE DEF GateInv
<1>1. \A d \in Callers : Owns(d) => d = c
  BY DEF HeldByOne, Owns
<1>2. CASE Live = {}
  <2>1. held' = FALSE /\ KeepWaiting({}) /\ at' = [at EXCEPT ![c] = "out"]
    BY <1>2 DEF LetGo
  <2>2. OrderOK' /\ TypeOK'
    BY <2>1, KeepOK DEF TypeOK, Places
  <2>3. waiters' = {}
    BY <2>1 DEF KeepWaiting
  <2>4. \A d \in Callers : ~Owns(d)' /\ at'[d] # "parked"
    BY <1>1, <1>2, <2>1 DEF Owns, Live, WaitersOK, TypeOK
  <2>5. QED
    BY <2>1, <2>2, <2>3, <2>4 DEF HeldByOne, WaitersOK
<1>3. CASE Live # {}
  <2>1. PICK w \in Live : /\ held' = TRUE
                          /\ KeepWaiting(Live \ {w})
                          /\ at' = [at EXCEPT ![c] = "out", ![w] = "granted"]
    BY <1>3 DEF LetGo
  <2>2. w \in Callers /\ w \in waiters /\ at[w] = "parked" /\ w # c
    BY DEF Live, TypeOK
  <2>3. Live \ {w} \in SUBSET waiters
    BY DEF Live
  <2>4. OrderOK' /\ TypeOK'
    BY <2>1, <2>2, <2>3, KeepOK DEF TypeOK, Places
  <2>5. \A d \in Callers : /\ Owns(d)' <=> d = w
                           /\ d \notin {c, w} => at'[d] = at[d]
    BY <1>1, <2>1, <2>2 DEF Owns, TypeOK
  <2>6. HeldByOne'
    BY <2>1, <2>2, <2>5 DEF HeldByOne
  <2>7. waiters' = Live \ {w}
    BY <2>1 DEF KeepWaiting
  <2>8. \A d \in Callers : at'[d] = "parked" <=> at[d] = "parked" /\ d # w
    BY <2>1, <2>2 DEF TypeOK
  <2>9. WaitersOK'
    BY <2>7, <2>8 DEF WaitersOK, Live
  <2>10. QED
    BY <2>4, <2>6, <2>9
<1>4. QED
  BY <1>2, <1>3

LEMMA StepGate == GateInv /\ [Next]_vars => GateInv'
<1> SUFFICES ASSUME GateInv, [Next]_vars PROVE GateInv'
  OBVIOUS
<1> USE DEF GateInv
<1>1. ASSUME NEW c \in Callers, AcquireAtOnce(c) PROVE GateInv'
  <2>1. /\ held = FALSE /\ held' = TRUE /\ waiters = {} /\ at[c] = "out"
        /\ at' = [at EXCEPT ![c] = "in"] /\ UNCHANGED <<waiters, elders, waited>>
    BY <1>1 DEF AcquireAtOnce, TypeOK
  <2>2. \A d \in Callers : Owns(d)' <=> d = c
    BY <2>1 DEF HeldByOne, Owns, TypeOK
  <2>3. TypeOK' /\ OrderOK'
    BY <2>1 DEF TypeOK, OrderOK, Places
  <2>4. HeldByOne'
    BY <2>1, <2>2 DEF HeldByOne
  <2>5. WaitersOK'
    BY <2>1 DEF WaitersOK, TypeOK
  <2>6. QED
    BY <2>3, <2>4, <2>5
<1>2. ASSUME NEW c \in Callers, Park(c) PROVE GateInv'
  <2>1. /\ at[c] = "out" /\ at' = [at EXCEPT ![c] = "parked"] /\ held' = held
        /\ waiters' = waiters \cup {c}
        /\ elders' = [elders EXCEPT ![c] = waiters]
        /\ waited' = [waited EXCEPT ![c] = 0]
    BY <1>2 DEF Park
  <2>2. c \notin waiters
    BY <2>1 DEF WaitersOK
  <2>3. TypeOK'
    BY <2>1 DEF TypeOK, Places
  <2>4. OrderOK'
    BY <2>1, <2>2 DEF TypeOK, OrderOK
  <2>5. \A d \in Callers : Owns(d)' <=> Owns(d)
    BY <2>1 DEF Owns, TypeOK
  <2>6. held = TRUE
    BY <1>2 DEF Park, HeldByOne, TypeOK
  <2>7. HeldByOne'
    BY <2>1, <2>5, <2>6 DEF HeldByOne
  <2>8. WaitersOK'
    BY <2>1 DEF WaitersOK, TypeOK
  <2>9. QED
    BY <2>3, <2>4, <2>7, <2>8
<1>3. ASSUME NEW c \in Callers, Cancel(c) \/ Resume(c) PROVE GateInv'
  <2>1. UNCHANGED <<held, waiters, elders, waited>>
    BY <1>3 DEF Cancel, Resume
  <2>2. /\ at' \in [Callers -> Places]
        /\ \A d \in Callers : Owns(d)' <=> Owns(d)
        /\ WaitersOK'
    BY <1>3, <2>1 DEF Cancel, Resume, Owns, WaitersOK, TypeOK, Places
  <2>3. TypeOK' /\ OrderOK'
    BY <2>1, <2>2 DEF TypeOK, OrderOK
  <2>4. HeldByOne'
    BY <2>1, <2>2 DEF HeldByOne
  <2>5. QED
    BY <2>2, <2>3, <2>4
<1>4. ASSUME NEW c \in Callers, ResumeCancelled(c) PROVE GateInv'
  <2>1. /\ at[c] = "cancelled" /\ KeepWaiting(waiters \ {c})
        /\ at' = [at EXCEPT ![c] = "out"] /\ held' = held
    BY <1>4 DEF ResumeCancelled
  <2>2. TypeOK' /\ OrderOK'
    BY <2>1, KeepOK DEF TypeOK, Places
  <2>3. waiters' = waiters \ {c}
    BY <2>1 DEF KeepWaiting
  <2>4. \A d \in Callers : Owns(d)' <=> Owns(d)
    BY <2>1 DEF Owns, TypeOK
  <2>5. HeldByOne'
    BY <2>1, <2>3, <2>4 DEF HeldByOne
  <2>6. WaitersOK'
    BY <2>1, <2>3 DEF WaitersOK, TypeOK
  <2>7. QED
    BY <2>2, <2>5, <2>6
<1>5. ASSUME NEW c \in Callers, Release(c) \/ ResumeRevoked(c) PROVE GateInv'
  BY <1>5, LetGoOK DEF Release, ResumeRevoked
<1>6. CASE Tick
  <2>1. /\ waited' = [c \in Callers |-> IF c \in waiters THEN Older(waited[c]) ELSE 0]
        /\ UNCHANGED <<held, waiters, elders, at>>
    BY <1>6 DEF Tick
  <2>2. \A c \in Callers : Older(waited[c]) \in Nat
    BY DEF Older, TypeOK
  <2>3. waited' \in [Callers -> Nat]
    BY <2>1, <2>2
  <2>4. ASSUME NEW c \in waiters, NEW d \in elders[c] PROVE waited'[c] <= waited'[d]
    <3>1. c \in Callers /\ d \in Callers /\ d \in waiters
      BY DEF TypeOK
    <3>2. waited[c] \in Nat /\ waited[d] \in Nat /\ waited[c] <= waited[d]
      BY <3>1 DEF TypeOK, OrderOK
    <3>3. MaxWait \in Nat
      BY GateAssumption
    <3>4. Older(waited[c]) <= Older(waited[d])
      BY <3>2, <3>3 DEF Older
    <3>5. QED
      BY <2>1, <3>1, <3>4
  <2>5. TypeOK' /\ OrderOK'
    BY <2>1, <2>3, <2>4 DEF TypeOK, OrderOK
  <2>6. HeldByOne' /\ WaitersOK'
    BY <2>1 DEF HeldByOne, WaitersOK, Owns
  <2>7. QED
    BY <2>5, <2>6
<1>7. CASE UNCHANGED vars
  BY <1>7 DEF vars, TypeOK, HeldByOne, WaitersOK, OrderOK, Owns
<1>8. QED
  BY <1>1, <1>2, <1>3, <1>4, <1>5, <1>6, <1>7 DEF Next

LEMMA GateInvariant == Spec => []GateInv
  BY InitGate, StepGate, PTL DEF Spec

\* Every variable of the gate keeps its type, and only waiters are elders.
THEOREM GateTyped == Spec => []TypeOK
  BY GateInvariant, PTL DEF GateInv

\* The gate is held exactly while one caller has it, and nobody waits at an
\* open gate: neither a cancelled waiter nor a cancelled grant wedges it.
THEOREM GateIsExclusive == Spec => []HeldByOne
  BY GateInvariant, PTL DEF GateInv

------------------------------------------------------------------------------
(* The order in which the gate is granted. *)

\* Who gets the gate while somebody waits was woken, as the first of the waiters.
LEMMA GrantedToTheFirst ==
  ASSUME GateInv, Next, NEW c \in Callers, NEW d \in Callers,
         Gets(c), Waits(d), c # d
  PROVE  /\ c \in Live /\ d \in Live
         /\ \E window \in Windows : First(c, window)
<1> USE DEF GateInv
<1>1. d \in waiters
  BY DEF Waits, WaitersOK
<1>2. at[c] \notin {"granted", "revoked", "in"} /\ at'[c] \in {"granted", "revoked", "in"}
  BY DEF Gets, Owns
<1>3. ASSUME NEW e \in Callers,
             \/ AcquireAtOnce(e) \/ Park(e) \/ Cancel(e) \/ Resume(e) \/ ResumeCancelled(e)
      PROVE  FALSE
  BY <1>1, <1>2, <1>3
  DEF AcquireAtOnce, Park, Cancel, Resume, ResumeCancelled, TypeOK
<1>4. ~Tick
  BY <1>2 DEF Tick
<1>5. PICK e \in Callers : LetGo(e) /\ at[e] \in {"in", "revoked"}
  BY <1>3, <1>4 DEF Next, Release, ResumeRevoked
<1>6. d \in Live
  BY <1>1 DEF Live, Waits
<1>7. PICK w \in Live, window \in Windows :
        First(w, window) /\ at' = [at EXCEPT ![e] = "out", ![w] = "granted"]
  BY <1>5, <1>6 DEF LetGo
<1>8. c = w
  BY <1>2, <1>5, <1>7 DEF TypeOK
<1>9. QED
  BY <1>6, <1>7, <1>8

LEMMA PassesOnlyLowerClasses ==
  ASSUME GateInv, Next, NEW c \in Callers, NEW d \in Callers,
         Gets(c), Waits(d), c # d
  PROVE  /\ Waits(c)
         /\ c \in elders[d] \/ d \in elders[c]
         /\ d \in elders[c] => Rank[c] < Rank[d]
<1>1. PICK window \in Windows : c \in Live /\ d \in Live /\ First(c, window)
  BY GrantedToTheFirst
<1>2. Waits(c) /\ (c \in elders[d] <=> d \notin elders[c])
  BY <1>1 DEF Live, Waits, GateInv, OrderOK
<1>3. ASSUME d \in elders[c] PROVE Rank[c] < Rank[d]
  <2>1. EffectiveRank(c, window) < EffectiveRank(d, window)
    BY <1>1, <1>2, <1>3 DEF First
  <2>2. Rank[c] \in Nat /\ Rank[d] \in Nat
    BY GateAssumption
  <2>3. SUFFICES ASSUME Rank[d] <= Rank[c] PROVE FALSE
    BY <2>2
  <2>4. EffectiveRank(d, window) <= EffectiveRank(c, window)
    BY <1>1, <1>3, <2>3, ElderStaysAhead DEF GateInv, Live
  <2>5. EffectiveRank(c, window) \in Int /\ EffectiveRank(d, window) \in Int
    BY <2>2, GateAssumption DEF EffectiveRank, Promoted, GateInv, TypeOK
  <2>6. QED
    BY <2>1, <2>4, <2>5
<1>4. QED
  BY <1>2, <1>3

\* Aging never lets a waiter pass an elder of its own class or of a better one,
\* and a newcomer never passes a waiter.
THEOREM NobodyJumps == Spec => NeverJumpsAnElder
<1>1. GateInv /\ [Next]_vars =>
        [\A c, d \in Callers :
           Gets(c) /\ Waits(d) /\ c # d =>
             Waits(c) /\ (d \in elders[c] => Rank[c] < Rank[d])]_vars
  BY PassesOnlyLowerClasses
<1>2. QED
  BY <1>1, GateInvariant, PTL DEF Spec, NeverJumpsAnElder

------------------------------------------------------------------------------
(* The gate is the abstract lock, step by step. *)

LEMMA HolderOf ==
  GateInv => /\ \A c \in Callers : Owns(c) => TheHolder = c
             /\ held => TheHolder \in Callers /\ Owns(TheHolder)
             /\ ~held => TheHolder = NoCaller
<1> SUFFICES ASSUME GateInv
             PROVE  /\ \A c \in Callers : Owns(c) => TheHolder = c
                    /\ held => TheHolder \in Callers /\ Owns(TheHolder)
                    /\ ~held => TheHolder = NoCaller
  OBVIOUS
<1>1. ASSUME held PROVE TheHolder \in Callers /\ Owns(TheHolder)
  <2>1. \E c \in Callers : Owns(c)
    BY <1>1 DEF GateInv, HeldByOne
  <2>2. TheHolder = CHOOSE c \in Callers : Owns(c)
    BY <1>1 DEF TheHolder
  <2>3. QED
    BY <2>1, <2>2
<1>2. ASSUME NEW c \in Callers, Owns(c) PROVE TheHolder = c
  BY <1>1, <1>2 DEF GateInv, HeldByOne
<1>3. ~held => TheHolder = NoCaller
  BY DEF TheHolder
<1>4. QED
  BY <1>1, <1>2, <1>3

\* The lock the gate stands for changes with what its callers own and wait for.
LEMMA HolderAfter ==
  GateInv' => /\ \A c \in Callers : Owns(c)' => TheHolder' = c
              /\ ~held' => TheHolder' = NoCaller
<1>1. GateInv' => (/\ \A c \in Callers : Owns(c) => TheHolder = c
                   /\ ~held => TheHolder = NoCaller)'
  BY HolderOf, PTL
<1>2. QED
  BY <1>1

Asking == {c \in Callers : Waits(c)}

LEMMA SameOwnersSameHolder ==
  ASSUME GateInv, GateInv', held' = held, \A c \in Callers : Owns(c)' <=> Owns(c)
  PROVE  TheHolder' = TheHolder
<1>1. CASE held
  BY <1>1, HolderOf, HolderAfter
<1>2. CASE ~held
  BY <1>2, HolderOf, HolderAfter
<1>3. QED
  BY <1>1, <1>2

\* A caller that lets go leaves the lock to one who asks, if anybody does.
LEMMA LetGoLeaves ==
  ASSUME GateInv, GateInv', NEW c \in Callers, at[c] \in {"in", "revoked"}, LetGo(c)
  PROVE  Lock!Leave(c)
<1>1. TheHolder = c
  BY HolderOf DEF Owns
<1>2. Live = Asking
  BY DEF Live, Asking, Waits, GateInv, WaitersOK, TypeOK
<1>3. CASE Live = {}
  <2>1. held' = FALSE /\ at' = [at EXCEPT ![c] = "out"]
    BY <1>3 DEF LetGo
  <2>2. TheHolder' = NoCaller
    BY <2>1, HolderAfter
  <2>3. Asking' = {}
    BY <1>2, <1>3, <2>1 DEF Asking, Waits, GateInv, TypeOK
  <2>4. QED
    BY <1>1, <1>2, <1>3, <2>2, <2>3 DEF Lock!Leave, Asking
<1>4. CASE Live # {}
  <2>1. PICK w \in Live : at' = [at EXCEPT ![c] = "out", ![w] = "granted"]
    BY <1>4 DEF LetGo
  <2>2. w \in Callers /\ at[w] = "parked" /\ w # c
    BY DEF Live, GateInv, TypeOK
  <2>3. TheHolder' = w
    BY <2>1, <2>2, HolderAfter DEF Owns, GateInv, TypeOK
  <2>4. Asking' = Asking \ {w}
    BY <2>1, <2>2 DEF Asking, Waits, GateInv, TypeOK
  <2>5. w \in Asking
    BY <1>2
  <2>6. QED
    BY <1>1, <2>3, <2>4, <2>5 DEF Lock!Leave, Asking
<1>5. QED
  BY <1>3, <1>4

LEMMA StepIsALockStep ==
  GateInv /\ GateInv' /\ [Next]_vars => [Lock!Next]_(Lock!vars)
<1> SUFFICES ASSUME GateInv, GateInv', [Next]_vars
             PROVE  Lock!Next \/ UNCHANGED <<TheHolder, Asking>>
  BY DEF Lock!vars, Asking
<1>1. at \in [Callers -> Places]
  BY DEF GateInv, TypeOK
<1>2. ASSUME NEW c \in Callers, AcquireAtOnce(c) PROVE Lock!Next
  <2>1. ~held /\ at[c] = "out" /\ at' = [at EXCEPT ![c] = "in"]
    BY <1>2 DEF AcquireAtOnce
  <2>2. TheHolder = NoCaller /\ TheHolder' = c
    BY <1>1, <2>1, HolderOf, HolderAfter DEF Owns
  <2>3. Asking' = Asking
    BY <1>1, <2>1 DEF Asking, Waits
  <2>4. Lock!Take(c)
    BY <2>2, <2>3 DEF Lock!Take, Asking
  <2>5. QED
    BY <2>4 DEF Lock!Next
<1>3. ASSUME NEW c \in Callers, Park(c) PROVE Lock!Next
  <2>1. /\ held /\ held' = held
        /\ at[c] = "out" /\ at' = [at EXCEPT ![c] = "parked"]
    BY <1>3 DEF Park, GateInv, HeldByOne
  <2>2. TheHolder' = TheHolder
    BY <1>1, <2>1, SameOwnersSameHolder DEF Owns
  <2>3. TheHolder \notin {NoCaller, c}
    BY <2>1, HolderOf, GateAssumption DEF Owns
  <2>4. c \notin Asking /\ Asking' = Asking \cup {c}
    BY <1>1, <2>1 DEF Asking, Waits
  <2>5. Lock!Ask(c)
    BY <2>2, <2>3, <2>4 DEF Lock!Ask, Asking
  <2>6. QED
    BY <2>5 DEF Lock!Next
<1>4. ASSUME NEW c \in Callers, Cancel(c) \/ Resume(c) \/ ResumeCancelled(c)
      PROVE  Lock!Next \/ UNCHANGED <<TheHolder, Asking>>
  <2>1. held' = held /\ \A d \in Callers : Owns(d)' <=> Owns(d)
    BY <1>1, <1>4 DEF Cancel, Resume, ResumeCancelled, Owns
  <2>2. TheHolder' = TheHolder
    BY <2>1, SameOwnersSameHolder
  <2>3. CASE at[c] = "parked"
    <3>1. at' = [at EXCEPT ![c] = "cancelled"]
      BY <1>4, <2>3 DEF Cancel, Resume, ResumeCancelled
    <3>2. c \in Asking /\ Asking' = Asking \ {c}
      BY <1>1, <2>3, <3>1 DEF Asking, Waits
    <3>3. Lock!Withdraw(c)
      BY <2>2, <3>2 DEF Lock!Withdraw, Asking
    <3>4. QED
      BY <3>3 DEF Lock!Next
  <2>4. CASE at[c] # "parked"
    <3>1. \A d \in Callers : Waits(d)' <=> Waits(d)
      BY <1>1, <1>4, <2>4 DEF Cancel, Resume, ResumeCancelled, Waits
    <3>2. QED
      BY <2>2, <3>1 DEF Asking
  <2>5. QED
    BY <2>3, <2>4
<1>5. ASSUME NEW c \in Callers, Release(c) \/ ResumeRevoked(c) PROVE Lock!Next
  <2>1. Lock!Leave(c)
    BY <1>5, LetGoLeaves DEF Release, ResumeRevoked
  <2>2. QED
    BY <2>1 DEF Lock!Next
<1>6. ASSUME Tick \/ UNCHANGED vars PROVE UNCHANGED <<TheHolder, Asking>>
  BY <1>6, SameOwnersSameHolder DEF Tick, vars, Owns, Asking, Waits
<1>7. QED
  BY <1>2, <1>3, <1>4, <1>5, <1>6 DEF Next

\* The safety part of ImplementsLock: the gate starts as a free lock nobody asks
\* for, and every step of it is a step of the abstract lock or none - taken only
\* when free, given up only by its holder, and then to somebody who is asking.
THEOREM GateIsALock == Spec => Lock!Init /\ [][Lock!Next]_(Lock!vars)
<1>1. Init => Lock!Init
  <2> SUFFICES ASSUME Init PROVE TheHolder = NoCaller /\ Asking = {}
    BY DEF Lock!Init, Asking
  <2>1. QED
    BY DEF Init, TheHolder, Asking, Waits
<1>2. QED
  BY <1>1, StepIsALockStep, GateInvariant, PTL DEF Spec

------------------------------------------------------------------------------
(* Why the gate is starvation-proof: there is an end to being overtaken. *)

\* Nobody comes to stand before a waiter.
LEMMA EldersOnlyLeave ==
  ASSUME GateInv, Next, NEW d \in Callers, Waits(d), d \in waiters'
  PROVE  elders'[d] \subseteq elders[d]
<1> USE DEF GateInv, TypeOK, Waits
<1>1. ASSUME NEW c \in Callers, Park(c) PROVE elders'[d] \subseteq elders[d]
  BY <1>1 DEF Park
<1>2. ASSUME NEW W, KeepWaiting(W) PROVE elders'[d] \subseteq elders[d]
  BY <1>2 DEF KeepWaiting
<1>3. ASSUME NEW c \in Callers, LetGo(c) PROVE elders'[d] \subseteq elders[d]
  BY <1>2, <1>3 DEF LetGo
<1>4. QED
  BY <1>1, <1>2, <1>3
  DEF Next, AcquireAtOnce, Cancel, Resume, ResumeCancelled, Release, ResumeRevoked, Tick

\* No class is better than the first.
LEMMA RankFromZero ==
  ASSUME TypeOK, NEW c \in Callers, NEW window \in Windows
  PROVE  EffectiveRank(c, window) \in Nat
<1>1. Rank[c] \in Nat /\ window \in Nat /\ waited[c] \in Nat
  BY GateAssumption DEF TypeOK
<1>2. window # 0 => Promoted(c, window) \in Nat
  BY <1>1, DivMonotone DEF Promoted
<1>3. QED
  BY <1>1, <1>2 DEF EffectiveRank

\* A waiter that has aged is passed by as many callers as it has elders, at
\* most: for every setting of the aging window that is read in the meantime.
THEOREM AgingEndsOvertaking == Spec => OnlyEldersPassTheAged
<1> DEFINE Passed(c, d) ==
      Waits(d) =>
        /\ d \in waiters' => elders'[d] \subseteq elders[d]
        /\ Gets(c) /\ c # d /\ Aged(d) => c \in elders[d] \ elders'[d]
<1>1. ASSUME GateInv, GateInv', Next, NEW c \in Callers, NEW d \in Callers PROVE Passed(c, d)
  <2>1. ASSUME Waits(d), Gets(c), c # d, Aged(d) PROVE c \in elders[d] \ elders'[d]
    <3>1. PICK window \in Windows : c \in Live /\ d \in Live /\ First(c, window)
      BY <1>1, <2>1, GrantedToTheFirst
    <3>2. EffectiveRank(d, window) = 0 /\ EffectiveRank(c, window) \in Nat
      BY <1>1, <2>1, RankFromZero DEF Aged, GateInv
    <3>3. c \in elders[d]
      BY <2>1, <3>1, <3>2 DEF First
    <3>4. c \notin elders'[d]
      BY <1>1, <2>1 DEF Gets, Owns, GateInv, TypeOK, WaitersOK
    <3>5. QED
      BY <3>3, <3>4
  <2>2. QED
    BY <1>1, <2>1, EldersOnlyLeave
<1>2. GateInv /\ GateInv' /\ [Next]_vars => [\A c, d \in Callers : Passed(c, d)]_vars
  BY <1>1
<1>3. QED
  BY <1>2, GateInvariant, PTL DEF Spec, OnlyEldersPassTheAged
==============================================================================
