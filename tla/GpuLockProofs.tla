---------------------------- MODULE GpuLockProofs ----------------------------
(***************************************************************************)
(* For every set of processes, sessions, cards and connections and every   *)
(* mapping of roles to cards, while the processes learn of a change of     *)
(* device scoping in any order, and sessions time out, are cancelled and   *)
(* die: no gate is left to nobody, and nobody waits in a circle, so that   *)
(* the lock does not deadlock. As long as Postgres can be reached, no two  *)
(* sessions use one card at a time, and without it no two of one process   *)
(* that go by one setting; and no connection outlives its session but one  *)
(* whose release was cancelled.                                            *)
(***************************************************************************)
EXTENDS GpuLock, FiniteSetTheorems, WellFoundedInduction, TLAPS

\* The advisory locks, as Postgres keeps them.
PgOK ==
  /\ \A c \in Conns : link[c] = "free" => c \notin shared /\ keys[c] = {}
  /\ \A c, d \in Conns : c # d => keys[c] \cap keys[d] = {}
  /\ \A c \in Conns : Whole \in keys[c] => shared \subseteq {c}

\* A session that uses the GPU holds every key it wants on its own connection,
\* and a scoped one the shared base key as well: unless it went on without
\* Postgres.
HasLocks(s) ==
  /\ conn[s] # NoConn
  /\ keys[conn[s]] = want[s]
  /\ want[s] # {Whole} => conn[s] \in shared

SessionOK(s) ==
  /\ pc[s] # "out" => want[s] = Needs[s] \/ want[s] = {Whole}
  /\ pc[s] = "take" => conn[s] # NoConn
  /\ "nopg" \notin Events /\ pc[s] \in {"mirror", "using"} => want[s] = {} \/ HasLocks(s)

LockInv == TypeOK /\ PgOK /\ \A s \in Sessions : SessionOK(s)

------------------------------------------------------------------------------
(* Exclusion follows from the invariant. *)

LEMMA LocksExclude == ASSUME "nopg" \notin Events PROVE LockInv => CardsAreExclusive
<1> SUFFICES ASSUME LockInv, NEW s \in Sessions, NEW t \in Sessions, s # t,
                    pc[s] = "using", pc[t] = "using",
                    NEW k \in Needs[s] \cap Needs[t]
             PROVE  FALSE
  BY DEF CardsAreExclusive
<1> USE DEF LockInv
<1>1. /\ want[s] = Needs[s] \/ want[s] = {Whole}
      /\ want[t] = Needs[t] \/ want[t] = {Whole}
      /\ HasLocks(s) /\ HasLocks(t)
  BY DEF SessionOK
<1>2. k # Whole
  BY GpuAssumption
<1>3. /\ conn[s] \in Conns /\ conn[t] \in Conns /\ conn[s] # conn[t]
  BY <1>1 DEF HasLocks, TypeOK
<1>4. CASE want[s] = {Whole} /\ want[t] = {Whole}
  BY <1>1, <1>3, <1>4 DEF HasLocks, PgOK
<1>5. CASE want[s] = {Whole} /\ want[t] # {Whole}
  BY <1>1, <1>3, <1>5 DEF HasLocks, PgOK
<1>6. CASE want[s] # {Whole} /\ want[t] = {Whole}
  BY <1>1, <1>3, <1>6 DEF HasLocks, PgOK
<1>7. CASE want[s] # {Whole} /\ want[t] # {Whole}
  BY <1>1, <1>3, <1>7 DEF HasLocks, PgOK
<1>8. QED
  BY <1>4, <1>5, <1>6, <1>7

------------------------------------------------------------------------------
(* Lemmas about the steps. *)

\* Connections are not shared between sessions.
LEMMA OwnConnection ==
  ASSUME TypeOK, NEW s \in Sessions, NEW t \in Sessions, s # t, conn[t] # NoConn
  PROVE  conn[s] # conn[t] /\ conn[t] \in Conns /\ link[conn[t]] = t
  BY DEF TypeOK

\* A step that leaves a session, its locks and its connection alone.
LEMMA Untouched ==
  ASSUME NEW t \in Sessions, SessionOK(t),
         pc'[t] = pc[t], want'[t] = want[t], conn'[t] = conn[t],
         conn[t] # NoConn => /\ keys'[conn[t]] = keys[conn[t]]
                             /\ conn[t] \in shared => conn[t] \in shared'
  PROVE  SessionOK(t)'
  BY DEF SessionOK, HasLocks

\* A session that leaves, its connection dropped or leaked.
LEMMA LeaveOK ==
  ASSUME LockInv, NEW s \in Sessions, Leave(s), Drop(s) \/ UNCHANGED pg
  PROVE  LockInv'
<1> USE DEF LockInv
<1>1. /\ pc' = [pc EXCEPT ![s] = "out"] /\ want' = [want EXCEPT ![s] = {}]
      /\ conn' = [conn EXCEPT ![s] = NoConn] /\ scoped' = scoped
      /\ ahead' = [t \in Sessions |-> IF t = s THEN {} ELSE ahead[t] \ {s}]
      /\ shared' = shared /\ keys' = keys
  BY DEF Leave, Goto, Dequeue, Drop, pg
<1>2. /\ link' \in [Conns -> Sessions \cup {"free", "dropped"}]
      /\ \A c \in Conns : link'[c] = "free" => link[c] = "free"
      /\ \A c \in Conns : c # conn[s] => link'[c] = link[c]
  BY GpuAssumption DEF Drop, pg, TypeOK
<1>3. gate' \in [Procs -> [Keys -> Sessions \cup {NoSession}]]
  <2> DEFINE left == [k \in Keys |-> IF gate[Process[s]][k] = s
                                      THEN NoSession ELSE gate[Process[s]][k]]
  <2>1. left \in [Keys -> Sessions \cup {NoSession}]
    BY GpuAssumption DEF TypeOK
  <2>2. gate' = [gate EXCEPT ![Process[s]] = left]
    BY DEF Leave, FreeGates
  <2>3. QED
    BY <2>1, <2>2 DEF TypeOK
<1>4. TypeOK'
  <2>1. ahead' \in [Sessions -> SUBSET Queue']
    BY <1>1 DEF Queue, TypeOK
  <2>2. \A t \in Sessions : conn'[t] # NoConn =>
          link'[conn'[t]] = t /\ pc'[t] \in {"take", "mirror", "using", "unlock"}
    BY <1>1, <1>2, OwnConnection DEF TypeOK
  <2>3. QED
    BY <1>1, <1>2, <1>3, <2>1, <2>2 DEF TypeOK, Labels
<1>5. PgOK'
  BY <1>1, <1>2 DEF PgOK
<1>6. \A t \in Sessions : SessionOK(t)'
  <2>1. SessionOK(s)'
    BY <1>1 DEF SessionOK, TypeOK
  <2>2. ASSUME NEW t \in Sessions, t # s PROVE SessionOK(t)'
    BY <1>1, <2>2, Untouched DEF TypeOK
  <2>3. QED
    BY <2>1, <2>2
<1>7. QED
  BY <1>4, <1>5, <1>6

\* A session that goes on from one label to another, neither of which matters
\* to the locks it holds.
LEMMA GotoOK ==
  ASSUME LockInv, NEW s \in Sessions, NEW label \in Labels, Goto(s, label),
         UNCHANGED <<scoped, want, gate, conn, pg, ahead>>,
         pc[s] # "out", pc[s] # "take", label \notin {"out", "take"},
         label \in {"mirror", "using"} => pc[s] \in {"mirror", "using"},
         conn[s] # NoConn => label \in {"take", "mirror", "using", "unlock"}
  PROVE  LockInv'
<1> USE DEF LockInv
<1>1. /\ pc' = [pc EXCEPT ![s] = label]
      /\ UNCHANGED <<scoped, want, gate, conn, link, shared, keys, ahead>>
  BY DEF Goto, pg
<1>2. Queue' = Queue
  BY <1>1 DEF Queue, TypeOK
<1>3. TypeOK'
  BY <1>1, <1>2 DEF TypeOK
<1>4. PgOK'
  BY <1>1 DEF PgOK
<1>5. SessionOK(s)'
  BY <1>1 DEF SessionOK, HasLocks, TypeOK
<1>6. ASSUME NEW t \in Sessions, t # s PROVE SessionOK(t)'
  BY <1>1, <1>6, Untouched DEF TypeOK
<1>7. QED
  BY <1>3, <1>4, <1>5, <1>6

------------------------------------------------------------------------------
(* The steps of a session. *)

LEMMA RequestOK == ASSUME LockInv, NEW s \in Sessions, Request(s) PROVE LockInv'
<1> USE DEF LockInv
<1> DEFINE k == IF scoped[Process[s]] THEN Needs[s] ELSE {Whole}
<1>1. /\ pc[s] = "out" /\ want' = [want EXCEPT ![s] = k]
      /\ pc' = [pc EXCEPT ![s] = IF k = {} THEN "using" ELSE "gates"]
      /\ UNCHANGED <<scoped, gate, conn, link, shared, keys, ahead>>
  BY DEF Request, Goto, pg
<1>2. k \in SUBSET Keys /\ (k = Needs[s] \/ k = {Whole})
  BY GpuAssumption DEF Keys
<1>3. conn[s] = NoConn
  BY <1>1 DEF TypeOK
<1> HIDE DEF k
<1>4. Queue' = Queue
  BY <1>1 DEF Queue, TypeOK
<1>5. TypeOK'
  BY <1>1, <1>2, <1>3, <1>4 DEF TypeOK, Labels
<1>6. PgOK'
  BY <1>1 DEF PgOK
<1>7. SessionOK(s)'
  BY <1>1, <1>2 DEF SessionOK, TypeOK
<1>8. ASSUME NEW t \in Sessions, t # s PROVE SessionOK(t)'
  BY <1>1, <1>8, Untouched DEF TypeOK
<1>9. QED
  BY <1>5, <1>6, <1>7, <1>8

LEMMA TakeGateOK == ASSUME LockInv, NEW s \in Sessions, TakeGate(s) PROVE LockInv'
<1> USE DEF LockInv
<1>1. PICK k \in Keys :
        /\ pc[s] = "gates"
        /\ gate' = [gate EXCEPT ![Process[s]][k] = s]
        /\ pc' = [pc EXCEPT ![s] = IF Gates(s) \cup {k} = want[s] THEN "connect" ELSE "gates"]
        /\ UNCHANGED <<scoped, want, conn, link, shared, keys, ahead>>
  BY DEF TakeGate, MayTakeGate, Goto, pg
<1>2. conn[s] = NoConn
  BY <1>1 DEF TypeOK
<1>3. Queue' = Queue
  BY <1>1 DEF Queue, TypeOK
<1>4. gate' \in [Procs -> [Keys -> Sessions \cup {NoSession}]]
  BY <1>1, GpuAssumption DEF TypeOK
<1>5. TypeOK'
  BY <1>1, <1>2, <1>3, <1>4 DEF TypeOK, Labels
<1>6. PgOK'
  BY <1>1 DEF PgOK
<1>7. SessionOK(s)'
  BY <1>1 DEF SessionOK, TypeOK
<1>8. ASSUME NEW t \in Sessions, t # s PROVE SessionOK(t)'
  BY <1>1, <1>8, Untouched DEF TypeOK
<1>9. QED
  BY <1>5, <1>6, <1>7, <1>8

LEMMA ConnectOK == ASSUME LockInv, NEW s \in Sessions, Connect(s) PROVE LockInv'
<1> USE DEF LockInv
<1>1. PICK c \in Conns :
        /\ pc[s] = "connect" /\ link[c] = "free"
        /\ link' = [link EXCEPT ![c] = s]
        /\ conn' = [conn EXCEPT ![s] = c]
        /\ pc' = [pc EXCEPT ![s] = "take"]
        /\ ahead' = [t \in Sessions |-> IF t = s THEN Queue \ {s} ELSE ahead[t] \ {s}]
        /\ UNCHANGED <<scoped, want, gate, shared, keys>>
  BY DEF Connect, Goto, Enqueue
<1>2. c # NoConn
  BY GpuAssumption
<1>3. ASSUME NEW t \in Sessions, t # s, conn[t] # NoConn
      PROVE  conn[t] # c /\ conn[t] \in Conns
  BY <1>1, <1>3, GpuAssumption DEF TypeOK
<1>4. Queue' = Queue \cup {s}
  BY <1>1 DEF Queue, TypeOK
<1>5. ahead' \in [Sessions -> SUBSET Queue']
  BY <1>1, <1>4 DEF TypeOK
<1>6. \A t \in Sessions : conn'[t] # NoConn =>
        link'[conn'[t]] = t /\ pc'[t] \in {"take", "mirror", "using", "unlock"}
  BY <1>1, <1>3 DEF TypeOK
<1>7. TypeOK'
  BY <1>1, <1>5, <1>6 DEF TypeOK, Labels
<1>8. PgOK'
  BY <1>1, GpuAssumption DEF PgOK, TypeOK
<1>9. SessionOK(s)'
  BY <1>1, <1>2 DEF SessionOK, TypeOK
<1>10. ASSUME NEW t \in Sessions, t # s PROVE SessionOK(t)'
  BY <1>1, <1>10, Untouched DEF TypeOK
<1>11. QED
  BY <1>7, <1>8, <1>9, <1>10

\* A step of a session that waits for, or gives back, advisory locks: what it
\* does to the locks of other sessions is nothing.
LEMMA PgStepOK ==
  ASSUME LockInv, NEW s \in Sessions, conn[s] # NoConn,
         UNCHANGED <<scoped, want, gate, conn, link>>,
         TypeOK', PgOK', SessionOK(s)',
         \A t \in Sessions : t # s => pc'[t] = pc[t],
         \A c \in Conns : c # conn[s] =>
           keys'[c] = keys[c] /\ (c \in shared => c \in shared')
  PROVE  LockInv'
<1>1. ASSUME NEW t \in Sessions, t # s PROVE SessionOK(t)'
  <2>1. conn[t] # NoConn => conn[t] \in Conns /\ conn[t] # conn[s]
    BY <1>1, OwnConnection DEF LockInv
  <2>2. QED
    BY <1>1, <2>1, Untouched DEF LockInv
<1>2. QED
  BY <1>1 DEF LockInv

\* Moving in the queue.
LEMMA QueueOK ==
  ASSUME LockInv, NEW s \in Sessions, pc' \in [Sessions -> Labels],
         \A t \in Sessions : t # s => pc'[t] = pc[t],
         (Enqueue(s) /\ pc'[s] = "take") \/ Dequeue(s)
  PROVE  ahead' \in [Sessions -> SUBSET Queue']
<1>1. Queue \ {s} \subseteq Queue'
  BY DEF Queue
<1>2. QED
  BY <1>1 DEF Enqueue, Dequeue, LockInv, TypeOK

LEMMA TakeBaseOK == ASSUME LockInv, NEW s \in Sessions, TakeBase(s) PROVE LockInv'
<1> USE DEF LockInv
<1>1. /\ pc[s] = "take" /\ pc' = pc
      /\ \A c \in Conns : Whole \notin keys[c]
      /\ shared' = shared \cup {conn[s]}
      /\ Enqueue(s)
      /\ UNCHANGED <<scoped, want, gate, conn, link, keys>>
  BY DEF TakeBase, MayTakeBase
<1>2. conn[s] # NoConn /\ conn[s] \in Conns /\ link[conn[s]] = s
  BY <1>1 DEF SessionOK, TypeOK
<1>3. TypeOK'
  BY <1>1, <1>2, QueueOK DEF TypeOK
<1>4. PgOK'
  BY <1>1, <1>2, GpuAssumption DEF PgOK
<1>5. SessionOK(s)'
  BY <1>1 DEF SessionOK
<1>6. QED
  BY <1>1, <1>2, <1>3, <1>4, <1>5, PgStepOK

LEMMA TakeKeyOK == ASSUME LockInv, NEW s \in Sessions, TakeKey(s) PROVE LockInv'
<1> USE DEF LockInv
<1>1. pc[s] = "take" /\ UNCHANGED <<scoped, want, gate, conn, link, shared>>
  BY DEF TakeKey, MayTakeKey
<1>2. conn[s] # NoConn /\ conn[s] \in Conns /\ link[conn[s]] = s
  BY <1>1 DEF SessionOK, TypeOK
<1>3. PICK k \in Keys :
        /\ AsksFor(s, k)
        /\ \A d \in Conns : k \notin keys[d]
        /\ k = Whole => shared \subseteq {conn[s]}
        /\ keys' = [keys EXCEPT ![conn[s]] = @ \cup {k}]
        /\ IF keys[conn[s]] \cup {k} = want[s]
             THEN pc' = [pc EXCEPT ![s] = "mirror"] /\ Dequeue(s)
             ELSE Enqueue(s) /\ pc' = pc
  BY DEF TakeKey, MayTakeKey, Goto
<1>4. \A t \in Sessions : t # s => pc'[t] = pc[t]
  BY <1>3 DEF TypeOK
<1>5. pc' \in [Sessions -> Labels] /\ pc'[s] \in {"take", "mirror"}
  BY <1>1, <1>3 DEF TypeOK, Labels
<1>6. ahead' \in [Sessions -> SUBSET Queue']
  BY <1>1, <1>3, <1>4, <1>5, QueueOK
<1>7. TypeOK'
  <2>1. keys' \in [Conns -> SUBSET Keys]
    BY <1>2, <1>3 DEF TypeOK
  <2>2. \A t \in Sessions : conn'[t] # NoConn =>
          link'[conn'[t]] = t /\ pc'[t] \in {"take", "mirror", "using", "unlock"}
    BY <1>1, <1>4, <1>5 DEF TypeOK
  <2>3. QED
    BY <1>1, <1>5, <1>6, <2>1, <2>2 DEF TypeOK
<1>8. PgOK'
  <2>1. \A c \in Conns : keys'[c] = IF c = conn[s] THEN keys[c] \cup {k} ELSE keys[c]
    BY <1>3 DEF TypeOK
  <2>2. ASSUME NEW c \in Conns, link'[c] = "free" PROVE c \notin shared' /\ keys'[c] = {}
    <3>1. c # conn[s] /\ link[c] = "free"
      BY <1>1, <1>2, <2>2, GpuAssumption
    <3>2. QED
      BY <1>1, <2>1, <3>1 DEF PgOK
  <2>3. \A c, d \in Conns : c # d => keys'[c] \cap keys'[d] = {}
    BY <1>3, <2>1 DEF PgOK
  <2>4. \A c \in Conns : Whole \in keys'[c] => shared' \subseteq {c}
    BY <1>1, <1>3, <2>1 DEF PgOK
  <2>5. QED
    BY <2>2, <2>3, <2>4 DEF PgOK
<1>9. SessionOK(s)'
  <2>1. want[s] # {Whole} => conn[s] \in shared
    BY <1>3 DEF AsksFor, AsksForBase, NeedsBase
  <2>2. CASE keys[conn[s]] \cup {k} = want[s]
    <3>1. keys'[conn[s]] = want[s]
      BY <1>2, <1>3, <2>2 DEF TypeOK
    <3>2. HasLocks(s)'
      BY <1>1, <1>2, <2>1, <3>1 DEF HasLocks
    <3>3. QED
      BY <1>1, <1>2, <1>5, <3>2 DEF SessionOK
  <2>3. CASE keys[conn[s]] \cup {k} # want[s]
    BY <1>1, <1>3, <2>3 DEF SessionOK
  <2>4. QED
    BY <2>2, <2>3
<1>10. \A c \in Conns : c # conn[s] => keys'[c] = keys[c] /\ (c \in shared => c \in shared')
  BY <1>1, <1>3 DEF TypeOK
<1>11. QED
  BY <1>1, <1>2, <1>4, <1>7, <1>8, <1>9, <1>10, PgStepOK

LEMMA NoPostgresOK == ASSUME LockInv, NEW s \in Sessions, NoPostgres(s) PROVE LockInv'
<1> USE DEF LockInv
<1>1. /\ pc[s] \in {"connect", "take"} /\ "nopg" \in Events
      /\ pc' = [pc EXCEPT ![s] = "mirror"]
      /\ conn' = [conn EXCEPT ![s] = NoConn]
      /\ Dequeue(s)
      /\ UNCHANGED <<scoped, want, gate, shared, keys>>
  BY DEF NoPostgres, Goto, Drop
<1>2. /\ link' \in [Conns -> Sessions \cup {"free", "dropped"}]
      /\ \A c \in Conns : link'[c] = "free" => link[c] = "free"
      /\ \A c \in Conns : c # conn[s] => link'[c] = link[c]
  BY GpuAssumption DEF NoPostgres, Drop, TypeOK
<1>3. TypeOK'
  <2>1. pc' \in [Sessions -> Labels] /\ \A t \in Sessions : t # s => pc'[t] = pc[t]
    BY <1>1 DEF TypeOK, Labels
  <2>2. ahead' \in [Sessions -> SUBSET Queue']
    BY <1>1, <2>1, QueueOK
  <2>3. \A t \in Sessions : conn'[t] # NoConn =>
          link'[conn'[t]] = t /\ pc'[t] \in {"take", "mirror", "using", "unlock"}
    BY <1>1, <1>2, OwnConnection DEF TypeOK
  <2>4. QED
    BY <1>1, <1>2, <2>1, <2>2, <2>3 DEF TypeOK
<1>4. PgOK'
  BY <1>1, <1>2 DEF PgOK
<1>5. SessionOK(s)'
  BY <1>1 DEF SessionOK, TypeOK
<1>6. ASSUME NEW t \in Sessions, t # s PROVE SessionOK(t)'
  BY <1>1, <1>6, Untouched DEF TypeOK
<1>7. QED
  BY <1>3, <1>4, <1>5, <1>6

LEMMA UnlockOK ==
  ASSUME LockInv, NEW s \in Sessions, UnlockBase(s) \/ UnlockKey(s) PROVE LockInv'
<1> USE DEF LockInv
<1>1. /\ pc[s] = "unlock"
      /\ UNCHANGED <<scoped, pc, want, gate, conn, link, ahead>>
  BY DEF UnlockBase, UnlockKey
<1>2. conn[s] # NoConn
  BY GpuAssumption DEF UnlockBase, UnlockKey, TypeOK
<1>3. conn[s] \in Conns
  BY <1>2 DEF TypeOK
<1>4. /\ shared' \in SUBSET Conns /\ keys' \in [Conns -> SUBSET Keys]
      /\ shared' \subseteq shared
      /\ \A c \in Conns : keys'[c] \subseteq keys[c]
      /\ \A c \in Conns : c # conn[s] =>
           keys'[c] = keys[c] /\ (c \in shared => c \in shared')
  BY <1>3 DEF UnlockBase, UnlockKey, TypeOK
<1>5. TypeOK'
  <2>1. Queue' = Queue
    BY <1>1 DEF Queue
  <2>2. QED
    BY <1>1, <1>4, <2>1 DEF TypeOK
<1>6. PgOK'
  <2>1. \A c \in Conns : link'[c] = "free" => c \notin shared' /\ keys'[c] = {}
    BY <1>1, <1>4 DEF PgOK
  <2>2. \A c, d \in Conns : c # d => keys'[c] \cap keys'[d] = {}
    BY <1>4 DEF PgOK
  <2>3. \A c \in Conns : Whole \in keys'[c] => shared' \subseteq {c}
    BY <1>4 DEF PgOK
  <2>4. QED
    BY <2>1, <2>2, <2>3 DEF PgOK
<1>7. SessionOK(s)'
  BY <1>1 DEF SessionOK
<1>8. QED
  BY <1>1, <1>2, <1>4, <1>5, <1>6, <1>7, PgStepOK

------------------------------------------------------------------------------
(* The steps of connections and processes. *)

LEMMA ConnOK ==
  ASSUME LockInv, NEW c \in Conns, Collect(c) \/ Reap(c) PROVE LockInv'
<1> USE DEF LockInv
<1>1. UNCHANGED <<scoped, pc, want, gate, conn, ahead>>
  BY DEF Collect, Reap
<1>2. \A t \in Sessions : conn[t] # NoConn => conn[t] # c
  BY GpuAssumption DEF Collect, Reap, TypeOK
<1>3. /\ link' \in [Conns -> Sessions \cup {"free", "dropped"}]
      /\ shared' \in SUBSET Conns /\ keys' \in [Conns -> SUBSET Keys]
      /\ \A d \in Conns : d # c => link'[d] = link[d] /\ keys'[d] = keys[d]
      /\ \A d \in Conns : d # c => (d \in shared <=> d \in shared')
      /\ keys'[c] \subseteq keys[c] /\ shared' \subseteq shared
      /\ link'[c] = "free" => keys'[c] = {} /\ c \notin shared'
  BY DEF Collect, Reap, TypeOK
<1>4. TypeOK'
  <2>1. Queue' = Queue
    BY <1>1 DEF Queue
  <2>2. \A t \in Sessions : conn'[t] # NoConn =>
          link'[conn'[t]] = t /\ pc'[t] \in {"take", "mirror", "using", "unlock"}
    BY <1>1, <1>2, <1>3 DEF TypeOK
  <2>3. QED
    BY <1>1, <1>3, <2>1, <2>2 DEF TypeOK
<1>5. PgOK'
  <2>1. \A d \in Conns : link'[d] = "free" => d \notin shared' /\ keys'[d] = {}
    BY <1>3 DEF PgOK
  <2>2. \A d, e \in Conns : d # e => keys'[d] \cap keys'[e] = {}
    BY <1>3 DEF PgOK
  <2>3. \A d \in Conns : Whole \in keys'[d] => shared' \subseteq {d}
    BY <1>3 DEF PgOK
  <2>4. QED
    BY <2>1, <2>2, <2>3 DEF PgOK
<1>6. ASSUME NEW t \in Sessions PROVE SessionOK(t)'
  BY <1>1, <1>2, <1>3, Untouched DEF TypeOK
<1>7. QED
  BY <1>4, <1>5, <1>6

LEMMA FlipOK == ASSUME LockInv, NEW p \in Procs, Flip(p) PROVE LockInv'
<1> USE DEF LockInv
<1>1. /\ scoped' \in [Procs -> BOOLEAN]
      /\ UNCHANGED <<pc, want, gate, conn, link, shared, keys, ahead>>
  BY DEF Flip, TypeOK, pg
<1>2. TypeOK' /\ PgOK'
  BY <1>1 DEF TypeOK, PgOK, Queue
<1>3. \A t \in Sessions : SessionOK(t)'
  BY <1>1, Untouched
<1>4. QED
  BY <1>2, <1>3

LEMMA CrashOK == ASSUME LockInv, NEW p \in Procs, Crash(p) PROVE LockInv'
<1> USE DEF LockInv
<1> DEFINE Dies(s) == s \in Sessions /\ Process[s] = p
<1>1. /\ pc' = [s \in Sessions |-> IF Dies(s) THEN "out" ELSE pc[s]]
      /\ want' = [s \in Sessions |-> IF Dies(s) THEN {} ELSE want[s]]
      /\ conn' = [s \in Sessions |-> IF Dies(s) THEN NoConn ELSE conn[s]]
      /\ link' = [c \in Conns |-> IF Dies(link[c]) THEN "dropped" ELSE link[c]]
      /\ gate' = [gate EXCEPT ![p] = [k \in Keys |-> NoSession]]
      /\ ahead' = [s \in Sessions |->
                     IF Dies(s) THEN {} ELSE {t \in ahead[s] : ~Dies(t)}]
      /\ UNCHANGED <<scoped, shared, keys>>
  BY DEF Crash
<1>2. /\ pc' \in [Sessions -> Labels]
      /\ want' \in [Sessions -> SUBSET Keys]
      /\ conn' \in [Sessions -> Conns \cup {NoConn}]
      /\ link' \in [Conns -> Sessions \cup {"free", "dropped"}]
      /\ gate' \in [Procs -> [Keys -> Sessions \cup {NoSession}]]
  BY <1>1 DEF TypeOK, Labels
<1>3. ahead' \in [Sessions -> SUBSET Queue']
  BY <1>1 DEF TypeOK, Queue
<1>4. ASSUME NEW t \in Sessions
      PROVE  /\ conn'[t] # NoConn =>
                  link'[conn'[t]] = t /\ pc'[t] \in {"take", "mirror", "using", "unlock"}
             /\ SessionOK(t)'
  <2>1. CASE Dies(t)
    BY <1>1, <2>1 DEF SessionOK
  <2>2. CASE ~Dies(t)
    <3>1. pc'[t] = pc[t] /\ want'[t] = want[t] /\ conn'[t] = conn[t]
      BY <1>1, <2>2
    <3>2. SessionOK(t)'
      BY <1>1, <3>1, Untouched
    <3>3. QED
      BY <1>1, <2>2, <3>1, <3>2 DEF TypeOK
  <2>3. QED
    BY <2>1, <2>2
<1>5. TypeOK'
  BY <1>1, <1>2, <1>3, <1>4 DEF TypeOK
<1>6. \A c \in Conns : link'[c] = "free" => link[c] = "free"
  BY <1>1
<1>7. PgOK'
  BY <1>1, <1>6 DEF PgOK
<1>8. QED
  BY <1>4, <1>5, <1>7

------------------------------------------------------------------------------
LEMMA InitLock == Init => LockInv
<1> SUFFICES ASSUME Init PROVE LockInv
  OBVIOUS
<1>1. TypeOK
  BY DEF Init, TypeOK, Labels
<1>2. PgOK
  BY DEF Init, PgOK
<1>3. \A s \in Sessions : SessionOK(s)
  BY DEF Init, SessionOK
<1>4. QED
  BY <1>1, <1>2, <1>3 DEF LockInv

LEMMA StepLock == LockInv /\ [Next]_vars => LockInv'
<1> SUFFICES ASSUME LockInv, [Next]_vars PROVE LockInv'
  OBVIOUS
<1>1. ASSUME NEW s \in Sessions,
             \/ GiveUpAtGates(s) \/ GiveUpAtPg(s) \/ Close(s) \/ CancelUnlock(s)
      PROVE  LockInv'
  BY <1>1, LeaveOK DEF GiveUpAtGates, GiveUpAtPg, Close, CancelUnlock
<1>2. ASSUME NEW s \in Sessions, Use(s) PROVE LockInv'
  <2>1. /\ pc[s] = "mirror" /\ Goto(s, "using")
        /\ UNCHANGED <<scoped, want, gate, conn, pg, ahead>>
    BY <1>2 DEF Use
  <2>2. QED
    BY <2>1, GotoOK DEF Labels
<1>3. ASSUME NEW s \in Sessions, Finish(s) PROVE LockInv'
  <2>1. /\ pc[s] = "using" /\ Goto(s, "unlock")
        /\ UNCHANGED <<scoped, want, gate, conn, pg, ahead>>
    BY <1>3 DEF Finish
  <2>2. QED
    BY <2>1, GotoOK DEF Labels
<1>4. CASE UNCHANGED vars
  <2>1. UNCHANGED <<scoped, pc, want, gate, conn, link, shared, keys, ahead>>
    BY <1>4 DEF vars, pg
  <2>2. TypeOK' /\ PgOK'
    BY <2>1 DEF LockInv, TypeOK, PgOK, Queue
  <2>3. \A t \in Sessions : SessionOK(t)'
    BY <2>1, Untouched DEF LockInv
  <2>4. QED
    BY <2>2, <2>3 DEF LockInv
<1>5. QED
  BY <1>1, <1>2, <1>3, <1>4, RequestOK, TakeGateOK, ConnectOK, TakeBaseOK,
     TakeKeyOK, NoPostgresOK, UnlockOK, ConnOK, FlipOK, CrashOK
  DEF Next, Take, Unlock

LEMMA LockInvariant == Spec => []LockInv
  BY InitLock, StepLock, PTL DEF Spec

\* Every variable keeps its type, and connections belong to one session each.
THEOREM GpuTypeCorrect == Spec => []TypeOK
  BY LockInvariant, PTL DEF LockInv

\* While Postgres can be reached, no two sessions use one card at a time.
THEOREM CardsExclusive ==
  ASSUME "nopg" \notin Events PROVE Spec => []CardsAreExclusive
<1>1. LockInv => CardsAreExclusive
  BY LocksExclude
<1>2. QED
  BY <1>1, LockInvariant, PTL

------------------------------------------------------------------------------
(* Gates. *)

LEMMA LeaveFreesGates ==
  ASSUME TypeOK, NoGateIsOrphaned, NEW s \in Sessions, Leave(s)
  PROVE  NoGateIsOrphaned'
<1>1. /\ pc' = [pc EXCEPT ![s] = "out"] /\ want' = [want EXCEPT ![s] = {}]
      /\ gate' = [gate EXCEPT ![Process[s]] =
                    [k \in Keys |-> IF @[k] = s THEN NoSession ELSE @[k]]]
  BY DEF Leave, Goto, FreeGates
<1>2. ASSUME NEW p \in Procs, NEW k \in Keys, gate'[p][k] # NoSession
      PROVE  gate'[p][k] = gate[p][k] /\ gate[p][k] # s /\ gate[p][k] \in Sessions
  <2>1. CASE p = Process[s]
    BY <1>1, <1>2, <2>1 DEF TypeOK
  <2>2. CASE p # Process[s]
    BY <1>1, <1>2, <2>2 DEF TypeOK, NoGateIsOrphaned
  <2>3. QED
    BY <2>1, <2>2
<1>3. QED
  BY <1>1, <1>2 DEF NoGateIsOrphaned, TypeOK

\* A session that is under way and keeps what it wants keeps its gates.
LEMMA GatesKept ==
  ASSUME TypeOK, NoGateIsOrphaned, UNCHANGED gate,
         \A s \in Sessions : pc[s] # "out" => pc'[s] # "out" /\ want'[s] = want[s]
  PROVE  NoGateIsOrphaned'
  BY DEF NoGateIsOrphaned, TypeOK

LEMMA StepGates ==
  LockInv /\ NoGateIsOrphaned /\ [Next]_vars => NoGateIsOrphaned'
<1> SUFFICES ASSUME LockInv, NoGateIsOrphaned, [Next]_vars PROVE NoGateIsOrphaned'
  OBVIOUS
<1> USE DEF LockInv
<1>1. ASSUME NEW s \in Sessions,
             \/ GiveUpAtGates(s) \/ GiveUpAtPg(s) \/ Close(s) \/ CancelUnlock(s)
      PROVE  NoGateIsOrphaned'
  BY <1>1, LeaveFreesGates DEF GiveUpAtGates, GiveUpAtPg, Close, CancelUnlock
<1>2. ASSUME NEW s \in Sessions, TakeGate(s) PROVE NoGateIsOrphaned'
  <2>1. PICK k \in Keys :
          /\ pc[s] = "gates" /\ k \in want[s]
          /\ gate' = [gate EXCEPT ![Process[s]][k] = s]
          /\ pc' = [pc EXCEPT ![s] = IF Gates(s) \cup {k} = want[s] THEN "connect" ELSE "gates"]
          /\ want' = want
    BY <1>2 DEF TakeGate, MayTakeGate, IsNext, Goto
  <2>2. ASSUME NEW p \in Procs, NEW j \in Keys
        PROVE  gate'[p][j] = IF p = Process[s] /\ j = k THEN s ELSE gate[p][j]
    BY <2>1 DEF TypeOK
  <2>3. \A t \in Sessions : pc[t] # "out" => pc'[t] # "out"
    BY <2>1 DEF TypeOK
  <2>4. QED
    BY <2>1, <2>2, <2>3 DEF NoGateIsOrphaned, TypeOK
<1>3. ASSUME NEW s \in Sessions,
             \/ Request(s) \/ Connect(s) \/ TakeBase(s) \/ TakeKey(s) \/ NoPostgres(s)
             \/ Use(s) \/ Finish(s) \/ UnlockBase(s) \/ UnlockKey(s)
      PROVE  NoGateIsOrphaned'
  <2>1. UNCHANGED gate
    BY <1>3 DEF Request, Connect, TakeBase, TakeKey, NoPostgres, Use, Finish,
                UnlockBase, UnlockKey
  <2>2. \A t \in Sessions : pc[t] # "out" => pc'[t] # "out" /\ want'[t] = want[t]
    BY <1>3 DEF Request, Connect, TakeBase, TakeKey, NoPostgres, Use, Finish,
                UnlockBase, UnlockKey, Goto, TypeOK
  <2>3. QED
    BY <2>1, <2>2, GatesKept
<1>4. ASSUME NEW c \in Conns, Collect(c) \/ Reap(c) PROVE NoGateIsOrphaned'
  BY <1>4, GatesKept DEF Collect, Reap
<1>5. ASSUME NEW p \in Procs, Flip(p) PROVE NoGateIsOrphaned'
  BY <1>5, GatesKept DEF Flip
<1>6. ASSUME NEW p \in Procs, Crash(p) PROVE NoGateIsOrphaned'
  <2>1. /\ pc' = [s \in Sessions |-> IF Process[s] = p THEN "out" ELSE pc[s]]
        /\ want' = [s \in Sessions |-> IF Process[s] = p THEN {} ELSE want[s]]
        /\ gate' = [gate EXCEPT ![p] = [k \in Keys |-> NoSession]]
    BY <1>6 DEF Crash
  <2>2. ASSUME NEW q \in Procs, NEW k \in Keys, gate'[q][k] # NoSession
        PROVE  q # p /\ gate'[q][k] = gate[q][k] /\ gate[q][k] \in Sessions
    BY <2>1, <2>2 DEF TypeOK
  <2>3. QED
    BY <2>1, <2>2 DEF NoGateIsOrphaned
<1>7. CASE UNCHANGED vars
  BY <1>7 DEF vars, NoGateIsOrphaned
<1>8. QED
  BY <1>1, <1>2, <1>3, <1>4, <1>5, <1>6, <1>7 DEF Next, Take, Unlock

\* However a session ends, the gates of its process are free again: no later
\* session waits for a gate that nobody will release.
THEOREM NoWedgedGate == Spec => []NoGateIsOrphaned
<1>1. Init => NoGateIsOrphaned
  BY DEF Init, NoGateIsOrphaned
<1>2. QED
  BY <1>1, LockInvariant, StepGates, PTL DEF Spec

------------------------------------------------------------------------------
(* A session that is past the gates holds the gate of every key it wants. *)

GatesHeld ==
  \A s \in Sessions : pc[s] \notin {"out", "gates"} =>
    \A k \in want[s] : gate[Process[s]][k] = s

\* A step of s that frees no gate of another session.
LEMMA OthersKeepTheirGates ==
  ASSUME TypeOK, GatesHeld, NEW s \in Sessions,
         \A t \in Sessions \ {s} :
           /\ pc'[t] = pc[t] /\ want'[t] = want[t]
           /\ \A k \in Keys : gate[Process[t]][k] = t => gate'[Process[t]][k] = t,
         pc'[s] \notin {"out", "gates"} => \A k \in want'[s] : gate'[Process[s]][k] = s
  PROVE  GatesHeld'
<1> SUFFICES ASSUME NEW t \in Sessions, pc'[t] \notin {"out", "gates"},
                    NEW k \in want'[t]
             PROVE  gate'[Process[t]][k] = t
  BY DEF GatesHeld
<1>1. CASE t = s
  BY <1>1
<1>2. CASE t # s
  BY <1>2 DEF GatesHeld, TypeOK
<1>3. QED
  BY <1>1, <1>2

LEMMA StepGatesHeld == TypeOK /\ GatesHeld /\ [Next]_vars => GatesHeld'
<1> SUFFICES ASSUME TypeOK, GatesHeld, [Next]_vars PROVE GatesHeld'
  OBVIOUS
<1>1. ASSUME NEW s \in Sessions, Request(s) PROVE GatesHeld'
  <2>1. /\ pc' = [pc EXCEPT ![s] = IF want'[s] = {} THEN "using" ELSE "gates"]
        /\ \A t \in Sessions \ {s} : want'[t] = want[t]
        /\ gate' = gate
    BY <1>1 DEF Request, Goto, TypeOK
  <2>2. QED
    BY <2>1, OthersKeepTheirGates DEF TypeOK
<1>2. ASSUME NEW s \in Sessions, TakeGate(s) PROVE GatesHeld'
  <2>1. PICK k \in Keys :
          /\ gate[Process[s]][k] = NoSession
          /\ gate' = [gate EXCEPT ![Process[s]][k] = s]
          /\ pc' = [pc EXCEPT ![s] = IF Gates(s) \cup {k} = want[s] THEN "connect" ELSE "gates"]
          /\ want' = want
    BY <1>2 DEF TakeGate, MayTakeGate, Goto
  <2>2. ASSUME NEW p \in Procs, NEW j \in Keys
        PROVE  gate'[p][j] = IF p = Process[s] /\ j = k THEN s ELSE gate[p][j]
    BY <2>1 DEF TypeOK
  <2>3. \A t \in Sessions : Process[t] \in Procs
    BY GpuAssumption
  <2>4. ASSUME pc'[s] \notin {"out", "gates"}, NEW j \in want'[s]
        PROVE  gate'[Process[s]][j] = s
    BY <2>1, <2>2, <2>3, <2>4 DEF Gates, TypeOK
  <2>5. \A t \in Sessions \ {s} :
          /\ pc'[t] = pc[t] /\ want'[t] = want[t]
          /\ \A j \in Keys : gate[Process[t]][j] = t => gate'[Process[t]][j] = t
    BY <2>1, <2>2, <2>3, GpuAssumption DEF TypeOK
  <2>6. QED
    BY <2>4, <2>5, OthersKeepTheirGates
<1>3. ASSUME NEW s \in Sessions,
             \/ GiveUpAtGates(s) \/ GiveUpAtPg(s) \/ Close(s) \/ CancelUnlock(s)
      PROVE  GatesHeld'
  <2>1. /\ pc' = [pc EXCEPT ![s] = "out"] /\ want' = [want EXCEPT ![s] = {}]
        /\ gate' = [gate EXCEPT ![Process[s]] =
                      [k \in Keys |-> IF @[k] = s THEN NoSession ELSE @[k]]]
    BY <1>3 DEF GiveUpAtGates, GiveUpAtPg, Close, CancelUnlock, Leave, Goto, FreeGates
  <2>2. ASSUME NEW t \in Sessions \ {s}, NEW k \in Keys, gate[Process[t]][k] = t
        PROVE  gate'[Process[t]][k] = t
    BY <2>1, <2>2, GpuAssumption DEF TypeOK
  <2>3. QED
    BY <2>1, <2>2, OthersKeepTheirGates DEF TypeOK
<1>4. ASSUME NEW s \in Sessions,
             \/ Connect(s) \/ TakeBase(s) \/ TakeKey(s) \/ NoPostgres(s)
             \/ Use(s) \/ Finish(s) \/ UnlockBase(s) \/ UnlockKey(s)
      PROVE  GatesHeld'
  <2>1. /\ gate' = gate /\ want' = want
        /\ pc[s] \notin {"out", "gates"}
        /\ \A t \in Sessions \ {s} : pc'[t] = pc[t]
    BY <1>4 DEF Connect, TakeBase, MayTakeBase, TakeKey, MayTakeKey, NoPostgres, Use,
                Finish, UnlockBase, UnlockKey, Goto, TypeOK
  <2>2. QED
    BY <2>1 DEF GatesHeld
<1>5. ASSUME NEW c \in Conns, Collect(c) \/ Reap(c) PROVE GatesHeld'
  BY <1>5 DEF Collect, Reap, GatesHeld
<1>6. ASSUME NEW p \in Procs, Flip(p) PROVE GatesHeld'
  BY <1>6 DEF Flip, GatesHeld
<1>7. ASSUME NEW p \in Procs, Crash(p) PROVE GatesHeld'
  <2>1. /\ pc' = [s \in Sessions |-> IF Process[s] = p THEN "out" ELSE pc[s]]
        /\ want' = [s \in Sessions |-> IF Process[s] = p THEN {} ELSE want[s]]
        /\ \A q \in Procs : q # p => gate'[q] = gate[q]
    BY <1>7 DEF Crash, TypeOK
  <2>2. QED
    BY <2>1, GpuAssumption DEF GatesHeld
<1>8. CASE UNCHANGED vars
  BY <1>8 DEF vars, GatesHeld
<1>9. QED
  BY <1>1, <1>2, <1>3, <1>4, <1>5, <1>6, <1>7, <1>8 DEF Next, Take, Unlock

\* Whatever becomes of Postgres and of the setting: a session past the gates
\* holds, in its process, every key it asked for, so that no two sessions of a
\* process use the GPU under a key they both asked for.
THEOREM KeysAreHeld == Spec => []GatesHeld
<1>1. Init => GatesHeld
  BY DEF Init, GatesHeld
<1>2. QED
  BY <1>1, StepGatesHeld, GpuTypeCorrect, PTL DEF Spec

\* Unless the setting changes, a session asks as its process is configured.
ScopeKept ==
  \A s \in Sessions : pc[s] # "out" =>
    want[s] = IF scoped[Process[s]] THEN Needs[s] ELSE {Whole}

LEMMA StepScope ==
  ASSUME "flip" \notin Events
  PROVE  TypeOK /\ ScopeKept /\ [Next]_vars => ScopeKept'
<1> SUFFICES ASSUME TypeOK, ScopeKept, [Next]_vars PROVE ScopeKept'
  OBVIOUS
<1>1. UNCHANGED scoped
  <2>1. ASSUME NEW s \in Sessions,
               \/ Request(s) \/ TakeGate(s) \/ GiveUpAtGates(s) \/ Connect(s) \/ Take(s)
               \/ GiveUpAtPg(s) \/ NoPostgres(s)
        PROVE  UNCHANGED scoped
    BY <2>1 DEF Request, TakeGate, GiveUpAtGates, Connect, Take, TakeBase, TakeKey,
                GiveUpAtPg, NoPostgres, Leave
  <2>2. ASSUME NEW s \in Sessions,
               \/ Use(s) \/ Finish(s) \/ Unlock(s) \/ Close(s) \/ CancelUnlock(s)
        PROVE  UNCHANGED scoped
    BY <2>2 DEF Use, Finish, Unlock, UnlockBase, UnlockKey, Close, CancelUnlock, Leave
  <2>3. ASSUME NEW c \in Conns, Collect(c) \/ Reap(c) PROVE UNCHANGED scoped
    BY <2>3 DEF Collect, Reap
  <2>4. ASSUME NEW p \in Procs, Crash(p) PROVE UNCHANGED scoped
    BY <2>4 DEF Crash
  <2>5. QED
    BY <2>1, <2>2, <2>3, <2>4 DEF Next, Flip, vars
<1>2. ASSUME NEW s \in Sessions, Request(s) PROVE ScopeKept'
  <2>1. /\ want' = [want EXCEPT ![s] = IF scoped[Process[s]] THEN Needs[s] ELSE {Whole}]
        /\ \A t \in Sessions \ {s} : pc'[t] = pc[t]
    BY <1>2 DEF Request, Goto, TypeOK
  <2>2. QED
    BY <1>1, <2>1 DEF ScopeKept, TypeOK
<1>3. ASSUME NEW s \in Sessions,
             \/ GiveUpAtGates(s) \/ GiveUpAtPg(s) \/ Close(s) \/ CancelUnlock(s)
      PROVE  ScopeKept'
  BY <1>1, <1>3 DEF GiveUpAtGates, GiveUpAtPg, Close, CancelUnlock, Leave, Goto,
                    ScopeKept, TypeOK
<1>4. ASSUME NEW s \in Sessions,
             \/ TakeGate(s) \/ Connect(s) \/ TakeBase(s) \/ TakeKey(s) \/ NoPostgres(s)
             \/ Use(s) \/ Finish(s) \/ UnlockBase(s) \/ UnlockKey(s)
      PROVE  ScopeKept'
  <2>1. /\ want' = want /\ pc[s] # "out"
        /\ \A t \in Sessions \ {s} : pc'[t] = pc[t]
    BY <1>4 DEF TakeGate, MayTakeGate, Connect, TakeBase, MayTakeBase, TakeKey,
                MayTakeKey, NoPostgres, Use, Finish, UnlockBase, UnlockKey, Goto, TypeOK
  <2>2. QED
    BY <1>1, <2>1 DEF ScopeKept
<1>5. ASSUME NEW c \in Conns, Collect(c) \/ Reap(c) PROVE ScopeKept'
  BY <1>5 DEF Collect, Reap, ScopeKept
<1>6. ASSUME NEW p \in Procs, Crash(p) PROVE ScopeKept'
  BY <1>1, <1>6 DEF Crash, ScopeKept
<1>7. CASE UNCHANGED vars
  BY <1>7 DEF vars, ScopeKept
<1>8. QED
  BY <1>2, <1>3, <1>4, <1>5, <1>6, <1>7 DEF Next, Take, Unlock, Flip

\* Without Postgres the sessions of one process still exclude each other, as
\* long as the process does not learn of a change of device scoping meanwhile.
THEOREM CardsExclusiveInAProcess ==
  ASSUME "flip" \notin Events PROVE Spec => []CardsAreExclusiveInAProcess
<1>1. Init => ScopeKept
  BY DEF Init, ScopeKept
<1>2. TypeOK /\ GatesHeld /\ ScopeKept => CardsAreExclusiveInAProcess
  <2> SUFFICES ASSUME TypeOK, GatesHeld, ScopeKept,
                      NEW s \in Sessions, NEW t \in Sessions, s # t,
                      Process[s] = Process[t], pc[s] = "using", pc[t] = "using",
                      NEW c \in Needs[s] \cap Needs[t]
               PROVE  FALSE
    BY DEF CardsAreExclusiveInAProcess
  <2>1. \E k \in Keys : k \in want[s] /\ k \in want[t]
    <3>1. want[s] \subseteq Keys
      BY DEF TypeOK
    <3>2. /\ want[s] = IF scoped[Process[s]] THEN Needs[s] ELSE {Whole}
          /\ want[t] = IF scoped[Process[t]] THEN Needs[t] ELSE {Whole}
      BY DEF ScopeKept
    <3>3. QED
      BY <3>1, <3>2
  <2>2. QED
    BY <2>1 DEF GatesHeld
<1>3. QED
  BY <1>1, <1>2, StepScope, KeysAreHeld, GpuTypeCorrect, PTL DEF Spec

------------------------------------------------------------------------------
(* Connections. *)

\* A session keeps a connection that is linked to it, and drops what it leaves.
LEMMA StepLinks ==
  ASSUME "cancel_release" \notin Events
  PROVE  LockInv /\ NoConnectionOutlivesItsSession /\ [Next]_vars
           => NoConnectionOutlivesItsSession'
<1> SUFFICES ASSUME LockInv, NoConnectionOutlivesItsSession, [Next]_vars
             PROVE  NoConnectionOutlivesItsSession'
  OBVIOUS
<1> USE DEF LockInv
<1>1. ASSUME NEW s \in Sessions, Drop(s), conn' = [conn EXCEPT ![s] = NoConn]
      PROVE  NoConnectionOutlivesItsSession'
  BY <1>1, GpuAssumption DEF Drop, NoConnectionOutlivesItsSession, TypeOK
<1>2. ASSUME NEW s \in Sessions, GiveUpAtPg(s) \/ Close(s) \/ NoPostgres(s)
      PROVE  NoConnectionOutlivesItsSession'
  BY <1>1, <1>2 DEF GiveUpAtPg, Close, NoPostgres, Leave
<1>3. ASSUME NEW s \in Sessions, GiveUpAtGates(s) PROVE NoConnectionOutlivesItsSession'
  <2>1. pc[s] = "gates" /\ link' = link /\ conn' = [conn EXCEPT ![s] = NoConn]
    BY <1>3 DEF GiveUpAtGates, Leave, pg
  <2>2. conn[s] = NoConn
    BY <2>1 DEF TypeOK
  <2>3. conn' = conn
    BY <2>1, <2>2 DEF TypeOK
  <2>4. QED
    BY <2>1, <2>3 DEF NoConnectionOutlivesItsSession
<1>4. ASSUME NEW s \in Sessions, Connect(s) PROVE NoConnectionOutlivesItsSession'
  <2>1. PICK c \in Conns : /\ pc[s] = "connect" /\ link[c] = "free"
                           /\ link' = [link EXCEPT ![c] = s]
                           /\ conn' = [conn EXCEPT ![s] = c]
    BY <1>4 DEF Connect
  <2>2. conn[s] = NoConn
    BY <2>1 DEF TypeOK
  <2>3. \A d \in Conns : link[d] # s
    BY <2>2, GpuAssumption DEF NoConnectionOutlivesItsSession
  <2>4. QED
    BY <2>1, <2>3 DEF NoConnectionOutlivesItsSession, TypeOK
<1>5. ASSUME NEW s \in Sessions,
             \/ Request(s) \/ TakeGate(s) \/ TakeBase(s) \/ TakeKey(s)
             \/ Use(s) \/ Finish(s) \/ UnlockBase(s) \/ UnlockKey(s)
      PROVE  NoConnectionOutlivesItsSession'
  <2>1. UNCHANGED <<conn, link>>
    BY <1>5 DEF Request, TakeGate, TakeBase, TakeKey, Use, Finish, UnlockBase,
                UnlockKey, pg
  <2>2. QED
    BY <2>1 DEF NoConnectionOutlivesItsSession
<1>6. ASSUME NEW c \in Conns, Collect(c) \/ Reap(c)
      PROVE  NoConnectionOutlivesItsSession'
  <2>1. /\ conn' = conn
        /\ link' = [link EXCEPT ![c] = "dropped"] \/ link' = [link EXCEPT ![c] = "free"]
    BY <1>6 DEF Collect, Reap
  <2>2. \A d \in Conns : link'[d] \in Sessions => link'[d] = link[d]
    BY <2>1, GpuAssumption DEF TypeOK
  <2>3. QED
    BY <2>1, <2>2 DEF NoConnectionOutlivesItsSession
<1>7. ASSUME NEW p \in Procs, Flip(p) PROVE NoConnectionOutlivesItsSession'
  BY <1>7 DEF Flip, pg, NoConnectionOutlivesItsSession
<1>8. ASSUME NEW p \in Procs, Crash(p) PROVE NoConnectionOutlivesItsSession'
  <2> SUFFICES ASSUME NEW c \in Conns, link'[c] \in Sessions
               PROVE  conn'[link'[c]] = c
    BY DEF NoConnectionOutlivesItsSession
  <2>1. link[c] = link'[c] /\ ~(link[c] \in Sessions /\ Process[link[c]] = p)
    BY <1>8, GpuAssumption DEF Crash
  <2>2. conn'[link[c]] = conn[link[c]]
    BY <1>8, <2>1 DEF Crash
  <2>3. QED
    BY <2>1, <2>2 DEF NoConnectionOutlivesItsSession
<1>9. CASE UNCHANGED vars
  BY <1>9 DEF vars, pg, NoConnectionOutlivesItsSession
<1>10. QED
  BY <1>2, <1>3, <1>4, <1>5, <1>6, <1>7, <1>8, <1>9
  DEF Next, Take, Unlock, CancelUnlock

\* Every exit path but a cancellation in the middle of the unlock ends with the
\* connection closed: no advisory lock stays with a session that is over.
THEOREM NoConnectionLeaks ==
  ASSUME "cancel_release" \notin Events
  PROVE  Spec => []NoConnectionOutlivesItsSession
<1>1. Init => NoConnectionOutlivesItsSession
  BY GpuAssumption DEF Init, NoConnectionOutlivesItsSession
<1>2. QED
  BY <1>1, LockInvariant, StepLinks, PTL DEF Spec

------------------------------------------------------------------------------
(* The order in which keys are taken. *)

\* A session waits at a gate above all those it holds.
GateOrder ==
  \A s \in Sessions :
    /\ pc[s] = "gates" => /\ want[s] \ Gates(s) # {}
                          /\ \A j \in Gates(s), k \in want[s] \ Gates(s) : j < k
    /\ pc[s] = "connect" => want[s] # {}

\* The same for the advisory locks, the shared base key first.
TakesInOrder(s) ==
  /\ keys[conn[s]] \subseteq want[s] /\ keys[conn[s]] # want[s]
  /\ \A j \in keys[conn[s]], k \in want[s] \ keys[conn[s]] : j < k
  /\ AsksForBase(s) => keys[conn[s]] = {}
  /\ conn[s] \in shared => NeedsBase(s)
KeyOrder == \A s \in Sessions : pc[s] = "take" => TakesInOrder(s)

\* The requests at the server are in the order they came.
QueueOrder ==
  \A s \in Sessions : s \notin ahead[s] /\ \A t \in ahead[s] : ahead[t] \subseteq ahead[s]

\* A step of s that leaves the gates of the others to them.
LEMMA OthersGateOrder ==
  ASSUME TypeOK, GateOrder, NEW s \in Sessions,
         \A t \in Sessions \ {s} :
           pc'[t] = pc[t] /\ want'[t] = want[t] /\ Gates(t)' = Gates(t),
         pc'[s] = "gates" =>
           /\ want'[s] \ Gates(s)' # {}
           /\ \A j \in Gates(s)', k \in want'[s] \ Gates(s)' : j < k,
         pc'[s] = "connect" => want'[s] # {}
  PROVE  GateOrder'
<1> SUFFICES ASSUME NEW t \in Sessions
             PROVE  /\ pc'[t] = "gates" =>
                         /\ want'[t] \ Gates(t)' # {}
                         /\ \A j \in Gates(t)', k \in want'[t] \ Gates(t)' : j < k
                    /\ pc'[t] = "connect" => want'[t] # {}
  BY DEF GateOrder
<1>1. CASE t = s
  BY <1>1
<1>2. CASE t # s
  BY <1>2 DEF GateOrder
<1>3. QED
  BY <1>1, <1>2

LEMMA KeyIsNatural == Keys \subseteq Nat
  BY GpuAssumption DEF Keys, Whole

LEMMA StepGateOrder ==
  LockInv /\ NoGateIsOrphaned /\ GateOrder /\ [Next]_vars => GateOrder'
<1> SUFFICES ASSUME LockInv, NoGateIsOrphaned, GateOrder, [Next]_vars PROVE GateOrder'
  OBVIOUS
<1> USE DEF LockInv
<1>1. ASSUME NEW s \in Sessions, Request(s) PROVE GateOrder'
  <2>1. /\ pc' = [pc EXCEPT ![s] = IF want'[s] = {} THEN "using" ELSE "gates"]
        /\ pc[s] = "out" /\ gate' = gate
        /\ \A t \in Sessions \ {s} : want'[t] = want[t]
    BY <1>1 DEF Request, Goto, TypeOK
  <2>2. Gates(s)' = {}
    <3>1. Process[s] \in Procs /\ s # NoSession
      BY GpuAssumption
    <3>2. \A k \in Keys : gate[Process[s]][k] # s
      BY <2>1, <3>1 DEF NoGateIsOrphaned
    <3>3. QED
      BY <2>1, <3>2 DEF Gates
  <2>3. \A t \in Sessions : Gates(t)' = Gates(t)
    BY <2>1 DEF Gates
  <2>4. QED
    BY <2>1, <2>2, <2>3, OthersGateOrder DEF TypeOK
<1>2. ASSUME NEW s \in Sessions, TakeGate(s) PROVE GateOrder'
  <2>1. PICK k \in Keys :
          /\ pc[s] = "gates" /\ IsNext(k, Gates(s), s)
          /\ gate[Process[s]][k] = NoSession
          /\ gate' = [gate EXCEPT ![Process[s]][k] = s]
          /\ pc' = [pc EXCEPT ![s] =
                      IF Gates(s) \cup {k} = want[s] THEN "connect" ELSE "gates"]
          /\ want' = want
    BY <1>2 DEF TakeGate, MayTakeGate, Goto
  <2>2. ASSUME NEW p \in Procs, NEW j \in Keys
        PROVE  gate'[p][j] = IF p = Process[s] /\ j = k THEN s ELSE gate[p][j]
    BY <2>1 DEF TypeOK
  <2>3. Gates(s)' = Gates(s) \cup {k}
    BY <2>2, GpuAssumption DEF Gates
  <2>4. ASSUME NEW t \in Sessions \ {s} PROVE Gates(t)' = Gates(t)
    BY <2>1, <2>2, GpuAssumption DEF Gates
  <2>5. Gates(s) \subseteq want[s]
    BY GpuAssumption DEF Gates, NoGateIsOrphaned
  <2>6. ASSUME NEW j \in Gates(s) \cup {k}, NEW i \in want[s] \ (Gates(s) \cup {k})
        PROVE  j < i
    <3>1. k \in Nat /\ i \in Nat /\ k <= i /\ k # i
      BY <2>1, KeyIsNatural DEF IsNext, TypeOK
    <3>2. QED
      BY <2>1, <3>1 DEF GateOrder
  <2>7. pc'[s] = "gates" => want[s] \ (Gates(s) \cup {k}) # {}
    BY <2>1, <2>5 DEF IsNext, TypeOK
  <2>8. want[s] # {}
    BY <2>1 DEF IsNext
  <2>9. QED
    BY <2>1, <2>3, <2>4, <2>6, <2>7, <2>8, OthersGateOrder DEF TypeOK
<1>3. ASSUME NEW s \in Sessions,
             \/ GiveUpAtGates(s) \/ GiveUpAtPg(s) \/ Close(s) \/ CancelUnlock(s)
      PROVE  GateOrder'
  <2>1. /\ pc' = [pc EXCEPT ![s] = "out"] /\ want' = [want EXCEPT ![s] = {}]
        /\ gate' = [gate EXCEPT ![Process[s]] =
                      [k \in Keys |-> IF @[k] = s THEN NoSession ELSE @[k]]]
    BY <1>3 DEF GiveUpAtGates, GiveUpAtPg, Close, CancelUnlock, Leave, Goto, FreeGates
  <2>2. ASSUME NEW t \in Sessions \ {s} PROVE Gates(t)' = Gates(t)
    BY <2>1, GpuAssumption DEF Gates, TypeOK
  <2>3. QED
    BY <2>1, <2>2, OthersGateOrder DEF TypeOK
<1>4. ASSUME NEW s \in Sessions,
             \/ Connect(s) \/ TakeBase(s) \/ TakeKey(s) \/ NoPostgres(s)
             \/ Use(s) \/ Finish(s) \/ UnlockBase(s) \/ UnlockKey(s)
      PROVE  GateOrder'
  <2>1. /\ gate' = gate /\ want' = want
        /\ pc'[s] \notin {"gates", "connect"}
        /\ \A t \in Sessions \ {s} : pc'[t] = pc[t]
    BY <1>4 DEF Connect, TakeBase, MayTakeBase, TakeKey, MayTakeKey, NoPostgres, Use,
                Finish, UnlockBase, UnlockKey, Goto, TypeOK
  <2>2. \A t \in Sessions : Gates(t)' = Gates(t)
    BY <2>1 DEF Gates
  <2>3. QED
    BY <2>1, <2>2, OthersGateOrder
<1>5. ASSUME UNCHANGED <<pc, want, gate>> PROVE GateOrder'
  BY <1>5 DEF GateOrder, Gates
<1>6. ASSUME NEW p \in Procs, Crash(p) PROVE GateOrder'
  <2>1. /\ pc' = [s \in Sessions |-> IF Process[s] = p THEN "out" ELSE pc[s]]
        /\ want' = [s \in Sessions |-> IF Process[s] = p THEN {} ELSE want[s]]
        /\ \A q \in Procs : q # p => gate'[q] = gate[q]
    BY <1>6 DEF Crash, TypeOK
  <2>2. \A t \in Sessions : Process[t] # p => Gates(t)' = Gates(t)
    BY <2>1, GpuAssumption DEF Gates
  <2>3. SUFFICES ASSUME NEW t \in Sessions, Process[t] # p
                 PROVE  /\ pc'[t] = "gates" =>
                             /\ want'[t] \ Gates(t)' # {}
                             /\ \A j \in Gates(t)', k \in want'[t] \ Gates(t)' : j < k
                        /\ pc'[t] = "connect" => want'[t] # {}
    BY <2>1 DEF GateOrder
  <2>4. QED
    BY <2>1, <2>2, <2>3 DEF GateOrder
<1>7. QED
  BY <1>1, <1>2, <1>3, <1>4, <1>5, <1>6 DEF Next, Take, Unlock, Collect, Reap, Flip, vars

\* A step of s that leaves the others' requests and locks alone.
LEMMA OthersKeyOrder ==
  ASSUME LockInv, KeyOrder, NEW s \in Sessions, want' = want,
         \A t \in Sessions \ {s} :
           /\ pc'[t] = pc[t] /\ conn'[t] = conn[t]
           /\ conn[t] # NoConn => /\ keys'[conn[t]] = keys[conn[t]]
                                  /\ conn[t] \in shared' <=> conn[t] \in shared,
         pc'[s] = "take" => TakesInOrder(s)'
  PROVE  KeyOrder'
<1> SUFFICES ASSUME NEW t \in Sessions, t # s, pc'[t] = "take" PROVE TakesInOrder(t)'
  BY DEF KeyOrder
<1>1. pc[t] = "take" /\ conn[t] # NoConn
  BY DEF LockInv, SessionOK
<1>2. QED
  BY <1>1 DEF KeyOrder, TakesInOrder, AsksForBase, NeedsBase

LEMMA StepKeyOrder ==
  LockInv /\ GateOrder /\ KeyOrder /\ [Next]_vars => KeyOrder'
<1> SUFFICES ASSUME LockInv, GateOrder, KeyOrder, [Next]_vars PROVE KeyOrder'
  OBVIOUS
<1> USE DEF LockInv
<1>1. ASSUME NEW s \in Sessions, Connect(s) PROVE KeyOrder'
  <2>1. PICK c \in Conns : /\ link[c] = "free" /\ pc[s] = "connect"
                           /\ conn' = [conn EXCEPT ![s] = c]
                           /\ pc' = [pc EXCEPT ![s] = "take"]
                           /\ want' = want /\ shared' = shared /\ keys' = keys
    BY <1>1 DEF Connect, Goto
  <2>2. keys[c] = {} /\ c \notin shared /\ want[s] # {}
    BY <2>1 DEF PgOK, GateOrder
  <2>3. TakesInOrder(s)'
    BY <2>1, <2>2 DEF TakesInOrder, TypeOK
  <2>4. QED
    BY <2>1, <2>3, OthersKeyOrder DEF TypeOK
<1>2. ASSUME NEW s \in Sessions, TakeBase(s) PROVE KeyOrder'
  <2>1. /\ pc[s] = "take" /\ AsksForBase(s) /\ shared' = shared \cup {conn[s]}
        /\ UNCHANGED <<pc, want, conn, keys>>
    BY <1>2 DEF TakeBase, MayTakeBase
  <2>2. TakesInOrder(s)'
    BY <2>1 DEF KeyOrder, TakesInOrder, AsksForBase, NeedsBase
  <2>3. \A t \in Sessions \ {s} : conn[t] # NoConn => conn[t] # conn[s]
    BY OwnConnection
  <2>4. QED
    BY <2>1, <2>2, <2>3, OthersKeyOrder
<1>3. ASSUME NEW s \in Sessions, TakeKey(s) PROVE KeyOrder'
  <2>1. PICK k \in Keys :
          /\ pc[s] = "take" /\ AsksFor(s, k)
          /\ keys' = [keys EXCEPT ![conn[s]] = @ \cup {k}]
          /\ IF keys[conn[s]] \cup {k} = want[s]
               THEN pc' = [pc EXCEPT ![s] = "mirror"] ELSE pc' = pc
          /\ UNCHANGED <<want, conn, shared>>
    BY <1>3 DEF TakeKey, MayTakeKey, Goto
  <2>2. conn[s] \in Conns /\ TakesInOrder(s)
    BY <2>1 DEF KeyOrder, SessionOK, TypeOK
  <2>3. ASSUME pc'[s] = "take" PROVE TakesInOrder(s)'
    <3>1. keys'[conn[s]] = keys[conn[s]] \cup {k} /\ keys'[conn[s]] # want[s]
      BY <2>1, <2>2, <2>3 DEF TypeOK
    <3>2. k \in want[s] \ keys[conn[s]] /\ ~AsksForBase(s)
      BY <2>1 DEF AsksFor, IsNext
    <3>3. ASSUME NEW i \in want[s] \ (keys[conn[s]] \cup {k}) PROVE k < i
      <4>1. k \in Nat /\ i \in Nat /\ k <= i /\ k # i
        BY <2>1, KeyIsNatural DEF AsksFor, IsNext, TypeOK
      <4>2. QED
        BY <4>1
    <3>4. ~AsksForBase(s)'
      BY <2>1, <3>2 DEF AsksForBase, NeedsBase
    <3>5. QED
      BY <2>1, <2>2, <3>1, <3>2, <3>3, <3>4 DEF TakesInOrder, NeedsBase
  <2>4. \A t \in Sessions \ {s} : conn[t] # NoConn => keys'[conn[t]] = keys[conn[t]]
    BY <2>1, OwnConnection DEF TypeOK
  <2>5. \A t \in Sessions \ {s} : pc'[t] = pc[t]
    BY <2>1 DEF TypeOK
  <2>6. QED
    BY <2>1, <2>3, <2>4, <2>5, OthersKeyOrder
<1>4. ASSUME NEW s \in Sessions,
             \/ Request(s) \/ TakeGate(s) \/ Use(s) \/ Finish(s) \/ NoPostgres(s)
             \/ GiveUpAtGates(s) \/ GiveUpAtPg(s) \/ Close(s) \/ CancelUnlock(s)
      PROVE  KeyOrder'
  <2>1. keys' = keys /\ shared' = shared
    BY <1>4 DEF Request, TakeGate, Use, Finish, NoPostgres, GiveUpAtGates, GiveUpAtPg,
                Close, CancelUnlock, Drop, pg
  <2>2. CASE \/ GiveUpAtGates(s) \/ GiveUpAtPg(s) \/ Close(s) \/ CancelUnlock(s)
    <3>1. Leave(s)
      BY <2>2 DEF GiveUpAtGates, GiveUpAtPg, Close, CancelUnlock
    <3>2. /\ pc'[s] # "take"
          /\ \A t \in Sessions \ {s} :
               pc'[t] = pc[t] /\ want'[t] = want[t] /\ conn'[t] = conn[t]
      BY <3>1 DEF Leave, Goto, TypeOK
    <3>3. QED
      BY <2>1, <3>2 DEF KeyOrder, TakesInOrder, AsksForBase, NeedsBase
  <2>3. CASE \/ Request(s) \/ TakeGate(s) \/ Use(s) \/ Finish(s) \/ NoPostgres(s)
    <3>1. /\ pc'[s] # "take"
          /\ \A t \in Sessions \ {s} :
               pc'[t] = pc[t] /\ want'[t] = want[t] /\ conn'[t] = conn[t]
      <4>1. CASE Request(s) \/ TakeGate(s)
        <5>1. conn' = conn /\ \A t \in Sessions \ {s} : want'[t] = want[t]
          BY <4>1 DEF Request, TakeGate, TypeOK
        <5>2. \E l \in {"using", "gates", "connect"} : pc' = [pc EXCEPT ![s] = l]
          BY <4>1 DEF Request, TakeGate, Goto
        <5>3. QED
          BY <5>1, <5>2 DEF TypeOK
      <4>2. CASE Use(s) \/ Finish(s) \/ NoPostgres(s)
        BY <4>2 DEF Use, Finish, NoPostgres, Goto, TypeOK
      <4>3. QED
        BY <2>3, <4>1, <4>2
    <3>2. QED
      BY <2>1, <3>1 DEF KeyOrder, TakesInOrder, AsksForBase, NeedsBase
  <2>4. QED
    BY <1>4, <2>2, <2>3
<1>5. ASSUME NEW s \in Sessions, UnlockBase(s) \/ UnlockKey(s) PROVE KeyOrder'
  <2>1. /\ UNCHANGED <<pc, want, conn>> /\ pc[s] = "unlock"
        /\ \A c \in Conns : c # conn[s] => /\ keys'[c] = keys[c]
                                           /\ c \in shared' <=> c \in shared
    BY <1>5 DEF UnlockBase, UnlockKey, TypeOK
  <2>2. \A t \in Sessions \ {s} : conn[t] # NoConn => conn[t] # conn[s] /\ conn[t] \in Conns
    BY OwnConnection
  <2>3. QED
    BY <2>1, <2>2, OthersKeyOrder
<1>6. ASSUME NEW c \in Conns, Collect(c) \/ Reap(c) PROVE KeyOrder'
  <2>1. /\ UNCHANGED <<pc, want, conn>>
        /\ \A d \in Conns : d # c => /\ keys'[d] = keys[d]
                                     /\ d \in shared' <=> d \in shared
    BY <1>6 DEF Collect, Reap, TypeOK
  <2>2. \A t \in Sessions : conn[t] # NoConn => conn[t] # c /\ conn[t] \in Conns
    BY <1>6, GpuAssumption DEF Collect, Reap, TypeOK
  <2>3. QED
    BY <2>1, <2>2 DEF KeyOrder, TakesInOrder, AsksForBase, NeedsBase, SessionOK
<1>7. ASSUME NEW p \in Procs, Crash(p) PROVE KeyOrder'
  <2>1. /\ pc' = [s \in Sessions |-> IF Process[s] = p THEN "out" ELSE pc[s]]
        /\ want' = [s \in Sessions |-> IF Process[s] = p THEN {} ELSE want[s]]
        /\ conn' = [s \in Sessions |-> IF Process[s] = p THEN NoConn ELSE conn[s]]
        /\ UNCHANGED <<shared, keys>>
    BY <1>7 DEF Crash
  <2>2. QED
    BY <2>1 DEF KeyOrder, TakesInOrder, AsksForBase, NeedsBase
<1>8. ASSUME UNCHANGED <<pc, want, conn, shared, keys>> PROVE KeyOrder'
  BY <1>8 DEF KeyOrder, TakesInOrder, AsksForBase, NeedsBase
<1>9. QED
  BY <1>1, <1>2, <1>3, <1>4, <1>5, <1>6, <1>7, <1>8 DEF Next, Take, Unlock, Flip, vars, pg

LEMMA StepQueueOrder == TypeOK /\ QueueOrder /\ [Next]_vars => QueueOrder'
<1> SUFFICES ASSUME TypeOK, QueueOrder, [Next]_vars PROVE QueueOrder'
  OBVIOUS
<1>1. ASSUME NEW s \in Sessions, Dequeue(s) PROVE QueueOrder'
  BY <1>1 DEF Dequeue, QueueOrder, TypeOK, Queue
<1>2. ASSUME NEW s \in Sessions, Enqueue(s) PROVE QueueOrder'
  BY <1>2 DEF Enqueue, QueueOrder, TypeOK, Queue
<1>3. ASSUME NEW p \in Procs, Crash(p) PROVE QueueOrder'
  <2> DEFINE Dies(s) == s \in Sessions /\ Process[s] = p
  <2>1. ahead' = [s \in Sessions |->
                    IF Dies(s) THEN {} ELSE {t \in ahead[s] : ~Dies(t)}]
    BY <1>3 DEF Crash
  <2>2. QED
    BY <2>1 DEF QueueOrder, TypeOK, Queue
<1>4. CASE UNCHANGED ahead
  BY <1>4 DEF QueueOrder
<1>5. QED
  BY <1>1, <1>2, <1>3, <1>4
  DEF Next, vars, Request, TakeGate, GiveUpAtGates, Connect, Take, TakeBase,
      TakeKey, GiveUpAtPg, NoPostgres, Use, Finish, Unlock, UnlockBase, UnlockKey,
      Close, CancelUnlock, Leave, Collect, Reap, Flip

WaitInv ==
  /\ LockInv /\ NoGateIsOrphaned
  /\ GateOrder /\ KeyOrder /\ QueueOrder

LEMMA WaitInvariant == Spec => []WaitInv
<1>1. Init => GateOrder /\ KeyOrder /\ QueueOrder
  BY DEF Init, GateOrder, KeyOrder, QueueOrder
<1>2. QED
  BY <1>1, LockInvariant, NoWedgedGate, StepGateOrder, StepKeyOrder, StepQueueOrder, PTL
  DEF Spec, WaitInv, LockInv

------------------------------------------------------------------------------
(* Nobody waits in a circle. *)

Waiting(s) == pc[s] \in {"gates", "connect", "take"}

\* The keys s has where it waits, and the one it waits for.
Got(s) == IF pc[s] = "gates" THEN Gates(s) ELSE keys[conn[s]]
AwaitsKey(s, k) == IsNext(k, Got(s), s)

\* s cannot go on before t does: t has the gate it needs; or a connection,
\* when there is no other; or a lock that conflicts with its request, or an
\* earlier request that does.
WaitsForGate(s, t) ==
  pc[s] = "gates" /\ \E k \in Keys : AwaitsKey(s, k) /\ gate[Process[s]][k] = t
WaitsForConn(s, t) == pc[s] = "connect" /\ conn[t] # NoConn
WaitsForBase(s, t) ==
  /\ pc[s] = "take" /\ AsksForBase(s)
  /\ \/ conn[t] # NoConn /\ Whole \in keys[conn[t]]
     \/ t \in ahead[s] /\ AsksFor(t, Whole)
WaitsForKey(s, t) ==
  /\ pc[s] = "take"
  /\ \E k \in Keys :
       /\ AsksFor(s, k)
       /\ \/ conn[t] # NoConn /\ k \in keys[conn[t]]
          \/ t \in ahead[s] /\ AsksFor(t, k)
          \/ k = Whole /\ t # s /\ conn[t] \in shared
          \/ k = Whole /\ t \in ahead[s] /\ AsksForBase(t)
WaitsFor(s, t) ==
  \/ WaitsForGate(s, t) \/ WaitsForConn(s, t)
  \/ WaitsForBase(s, t) \/ WaitsForKey(s, t)

NoCircularWait ==
  \A W \in SUBSET Sessions : (\A s \in W : \E t \in W : WaitsFor(s, t)) => W = {}

Smaller(A, B) == A \subseteq B /\ A # B

\* Some finite set among several has none of the others within it.
LEMMA MinimalSet ==
  ASSUME NEW S, NEW W, W # {}, NEW f \in [W -> SUBSET S],
         \A s \in W : IsFiniteSet(f[s])
  PROVE  \E s \in W : \A t \in W : ~Smaller(f[t], f[s])
<1> DEFINE T == {f[s] : s \in W}
<1>1. T \subseteq FiniteSubsetsOf(S) /\ T # {}
  BY DEF FiniteSubsetsOf
<1>2. \E A \in T : \A B \in T : ~ (<<B, A>> \in StrictSubsetOrdering(S))
  <2> HIDE DEF T
  <2>1. QED
    BY <1>1, FS_StrictSubsetOrderingWellFounded, WFMin
<1>3. PICK s \in W : \A t \in W : ~ (<<f[t], f[s]>> \in StrictSubsetOrdering(S))
  BY <1>2
<1>4. QED
  BY <1>3 DEF StrictSubsetOrdering, Smaller

\* Among naturals there is a least one, and among finitely many a largest one.
LEMMA LeastValue ==
  ASSUME NEW W, W # {}, NEW f \in [W -> Nat]
  PROVE  \E s \in W : \A t \in W : f[s] <= f[t]
<1> DEFINE below == [s \in W |-> 0..f[s]]
<1>1. ASSUME NEW s \in W PROVE below[s] = 0..f[s] /\ IsFiniteSet(below[s])
  <2>1. f[s] \in Int /\ 0 \in Int
    OBVIOUS
  <2>2. QED
    BY <2>1, FS_Interval
<1>2. below \in [W -> SUBSET Nat]
  OBVIOUS
<1> HIDE DEF below
<1>3. \A s \in W : IsFiniteSet(below[s])
  BY <1>1
<1>4. PICK s \in W : \A t \in W : ~Smaller(below[t], below[s])
  BY <1>2, <1>3, MinimalSet
<1>5. ASSUME NEW t \in W PROVE f[s] <= f[t]
  <2>1. 0..f[t] \subseteq 0..f[s] => 0..f[t] = 0..f[s]
    BY <1>1, <1>4 DEF Smaller
  <2>2. QED
    BY <2>1
<1>6. QED
  BY <1>5

LEMMA LargestValue ==
  ASSUME NEW W, IsFiniteSet(W), W # {}, NEW f \in [W -> Nat]
  PROVE  \E s \in W : \A t \in W : f[t] <= f[s]
<1> DEFINE above == [s \in W |-> {t \in W : f[s] < f[t]}]
<1>1. above \in [W -> SUBSET W]
  OBVIOUS
<1>2. \A s \in W : above[s] = {t \in W : f[s] < f[t]}
  OBVIOUS
<1> HIDE DEF above
<1>3. \A s \in W : IsFiniteSet(above[s])
  BY <1>1, FS_Subset
<1>4. PICK s \in W : \A t \in W : ~Smaller(above[t], above[s])
  BY <1>1, <1>3, MinimalSet
<1>5. ASSUME NEW t \in W, f[s] < f[t] PROVE FALSE
  <2>1. f[s] \in Nat /\ f[t] \in Nat
    OBVIOUS
  <2>2. above[t] \subseteq above[s]
    <3>1. \A u \in W : f[t] < f[u] => f[s] < f[u]
      BY <1>5, <2>1
    <3>2. QED
      BY <1>2, <3>1
  <2>3. above[t] = above[s]
    BY <1>4, <2>2 DEF Smaller
  <2>4. QED
    BY <1>2, <1>5, <2>1, <2>3
<1>6. QED
  BY <1>5

\* A session that waits at a gate, or for a lock other than the shared base key,
\* waits for the least of the keys it still lacks.
LEMMA NextExists ==
  ASSUME TypeOK, NEW s \in Sessions, NEW G, want[s] \ G # {}
  PROVE  \E k \in Keys : IsNext(k, G, s)
<1> DEFINE T == want[s] \ G
           f == [k \in T |-> k]
<1>1. T \subseteq Keys /\ f \in [T -> Nat]
  BY KeyIsNatural DEF TypeOK
<1>2. PICK k \in T : \A j \in T : f[k] <= f[j]
  BY <1>1, LeastValue
<1>3. QED
  BY <1>1, <1>2 DEF IsNext

LEMMA NextIsUnique ==
  ASSUME NEW s \in Sessions, NEW G, NEW j \in Keys, NEW k \in Keys,
         IsNext(j, G, s), IsNext(k, G, s)
  PROVE  j = k
<1>1. j \in Nat /\ k \in Nat /\ j <= k /\ k <= j
  BY KeyIsNatural DEF IsNext
<1>2. QED
  BY <1>1

\* The level at which a session waits: the key it asks for.
Level(s) ==
  IF pc[s] = "take" /\ AsksForBase(s) THEN Whole ELSE CHOOSE k \in Keys : AwaitsKey(s, k)

LEMMA LevelIs ==
  ASSUME WaitInv, NEW s \in Sessions, pc[s] \in {"gates", "take"}
  PROVE  /\ Level(s) \in Keys
         /\ pc[s] = "gates" => AwaitsKey(s, Level(s))
         /\ pc[s] = "take" => IF AsksForBase(s) THEN Level(s) = Whole
                                                ELSE AsksFor(s, Level(s))
         /\ \A k \in Keys : pc[s] = "gates" /\ AwaitsKey(s, k) => k = Level(s)
         /\ \A k \in Keys : pc[s] = "take" /\ AsksFor(s, k) => k = Level(s)
<1>1. CASE pc[s] = "take" /\ AsksForBase(s)
  BY <1>1 DEF Level, AsksFor, Keys
<1>2. CASE ~(pc[s] = "take" /\ AsksForBase(s))
  <2>1. want[s] \ Got(s) # {}
    BY <1>2 DEF WaitInv, GateOrder, KeyOrder, TakesInOrder, Got
  <2>2. \E k \in Keys : AwaitsKey(s, k)
    BY <2>1, NextExists DEF AwaitsKey, WaitInv, LockInv
  <2>3. Level(s) \in Keys /\ AwaitsKey(s, Level(s))
    BY <1>2, <2>2 DEF Level
  <2>4. \A k \in Keys : AwaitsKey(s, k) => k = Level(s)
    BY <2>3, NextIsUnique DEF AwaitsKey
  <2>5. pc[s] = "take" => \A k \in Keys : AsksFor(s, k) <=> AwaitsKey(s, k)
    BY <1>2 DEF AsksFor, AwaitsKey, Got
  <2>6. QED
    BY <1>2, <2>3, <2>4, <2>5
<1>3. QED
  BY <1>1, <1>2

\* Who waits at the gates waits for one who is past them or waits higher up.
LEMMA GateWaitsHigher ==
  ASSUME WaitInv, NEW s \in Sessions, NEW t \in Sessions, WaitsForGate(s, t)
  PROVE  pc[t] # "out" /\ (pc[t] = "gates" => Level(s) < Level(t))
<1>1. PICK k \in Keys : pc[s] = "gates" /\ AwaitsKey(s, k) /\ gate[Process[s]][k] = t
  BY DEF WaitsForGate
<1>2. k = Level(s)
  BY <1>1, LevelIs
<1>3. Process[s] \in Procs /\ t # NoSession
  BY GpuAssumption
<1>4. pc[t] # "out" /\ Process[t] = Process[s] /\ k \in Gates(t)
  BY <1>1, <1>3 DEF WaitInv, NoGateIsOrphaned, Gates
<1>5. ASSUME pc[t] = "gates" PROVE k < Level(t)
  <2>1. Level(t) \in want[t] \ Gates(t)
    BY <1>5, LevelIs DEF AwaitsKey, IsNext, Got
  <2>2. QED
    BY <1>4, <1>5, <2>1 DEF WaitInv, GateOrder
<1>6. QED
  BY <1>2, <1>4, <1>5

\* Who waits for Postgres waits for one who has its gates, and who waits higher
\* up, or at the same level before it, if it waits at all.
LEMMA LockWaitsHigher ==
  ASSUME WaitInv, NEW s \in Sessions, NEW t \in Sessions,
         WaitsForBase(s, t) \/ WaitsForKey(s, t)
  PROVE  /\ pc[t] \in {"take", "mirror", "using", "unlock"}
         /\ pc[t] = "take" => \/ Level(s) < Level(t)
                              \/ Level(s) = Level(t) /\ t \in ahead[s]
<1> USE DEF WaitInv, LockInv
<1>1. pc[s] = "take" /\ conn[s] # NoConn /\ NoConn \notin Conns
  BY GpuAssumption DEF WaitsForBase, WaitsForKey, SessionOK
<1>2. conn[t] # NoConn \/ t \in ahead[s]
  BY <1>1 DEF WaitsForBase, WaitsForKey, TypeOK
<1>3. pc[t] \in {"take", "mirror", "using", "unlock"}
  BY <1>2 DEF TypeOK, Queue
<1>4. ASSUME pc[t] = "take"
      PROVE  Level(s) < Level(t) \/ (Level(s) = Level(t) /\ t \in ahead[s])
  <2>1. /\ Level(s) \in Nat /\ Level(t) \in Nat
        /\ TakesInOrder(s) /\ TakesInOrder(t)
    BY <1>1, <1>4, LevelIs, KeyIsNatural DEF KeyOrder
  <2>2. ASSUME NEW k \in keys[conn[t]] PROVE k < Level(t)
    <3>1. ~AsksForBase(t)
      BY <2>1 DEF TakesInOrder
    <3>2. Level(t) \in want[t] \ keys[conn[t]]
      BY <1>4, <3>1, LevelIs DEF AsksFor, IsNext
    <3>3. QED
      BY <2>1, <3>2 DEF TakesInOrder
  <2>3. ASSUME t # s, Whole \notin keys[conn[t]], conn[t] \in shared, Level(s) = Whole
        PROVE  Level(s) < Level(t)
    <3>1. want[t] = Needs[t] /\ ~AsksForBase(t)
      BY <1>4, <2>1, <2>3 DEF TakesInOrder, NeedsBase, AsksForBase, SessionOK
    <3>2. Level(t) \in Cards
      BY <1>4, <3>1, LevelIs, GpuAssumption DEF AsksFor, IsNext
    <3>3. QED
      BY <2>1, <2>3, <3>2, GpuAssumption DEF Whole
  <2>4. CASE WaitsForBase(s, t)
    <3>1. Level(s) = Whole /\ Whole \in Keys
      BY <1>1, <2>4, LevelIs DEF WaitsForBase, Keys
    <3>2. QED
      BY <1>4, <2>2, <2>4, <3>1, LevelIs DEF WaitsForBase
  <2>5. CASE WaitsForKey(s, t)
    <3>1. PICK k \in Keys :
            /\ AsksFor(s, k)
            /\ \/ conn[t] # NoConn /\ k \in keys[conn[t]]
               \/ t \in ahead[s] /\ AsksFor(t, k)
               \/ k = Whole /\ t # s /\ conn[t] \in shared
               \/ k = Whole /\ t \in ahead[s] /\ AsksForBase(t)
      BY <2>5 DEF WaitsForKey
    <3>2. Level(s) = k
      BY <1>1, <3>1, LevelIs
    <3>3. QED
      BY <1>4, <2>2, <2>3, <3>1, <3>2, LevelIs
  <2>6. QED
    BY <2>4, <2>5
<1>5. QED
  BY <1>3, <1>4

\* Of several sessions that wait, one waits highest up.
LEMMA HighestLevel ==
  ASSUME WaitInv, IsFiniteSet(Sessions), NEW W \in SUBSET Sessions, W # {},
         \A s \in W : pc[s] \in {"gates", "take"}
  PROVE  \E s \in W : \A t \in W : Level(t) <= Level(s)
<1> DEFINE level == [s \in W |-> Level(s)]
<1>1. level \in [W -> Nat] /\ \A s \in W : level[s] = Level(s)
  BY LevelIs, KeyIsNatural
<1>2. IsFiniteSet(W)
  BY FS_Subset
<1> HIDE DEF level
<1>3. QED
  BY <1>1, <1>2, LargestValue

\* Of several sessions that wait at one level, one has none of the others before it.
LEMMA FirstInLine ==
  ASSUME WaitInv, IsFiniteSet(Sessions), NEW M \in SUBSET Sessions, M # {}
  PROVE  \E s \in M : \A t \in M : t \notin ahead[s]
<1> DEFINE before == [s \in M |-> ahead[s]]
<1>1. before \in [M -> SUBSET Sessions] /\ \A s \in M : before[s] = ahead[s]
  BY DEF WaitInv, LockInv, TypeOK, Queue
<1> HIDE DEF before
<1>2. PICK s \in M : \A t \in M : ~Smaller(ahead[t], ahead[s])
  BY <1>1, FS_Subset, MinimalSet
<1>3. QED
  BY <1>2 DEF WaitInv, QueueOrder, Smaller

LEMMA NoCircle == ASSUME IsFiniteSet(Sessions) PROVE WaitInv => NoCircularWait
<1> SUFFICES ASSUME WaitInv, NEW W \in SUBSET Sessions,
                    \A s \in W : \E t \in W : WaitsFor(s, t), W # {}
             PROVE  FALSE
  BY DEF NoCircularWait
<1> DEFINE T == {s \in W : pc[s] = "take"}
<1>1. \A s \in W : Waiting(s)
  BY DEF WaitsFor, WaitsForGate, WaitsForConn, WaitsForBase, WaitsForKey, Waiting
<1>2. \A s \in W : pc[s] \in {"gates", "take"} => Level(s) \in Nat
  BY LevelIs, KeyIsNatural
<1>3. CASE T = {}
  <2>1. \A s \in W : pc[s] = "gates"
    BY <1>1, <1>3 DEF Waiting, WaitsFor, WaitsForGate, WaitsForConn, WaitsForBase,
                      WaitsForKey, WaitInv, LockInv, TypeOK
  <2>2. PICK s \in W : \A t \in W : Level(t) <= Level(s)
    BY <2>1, HighestLevel
  <2>3. PICK t \in W : WaitsForGate(s, t)
    BY <2>1 DEF WaitsFor, WaitsForConn, WaitsForBase, WaitsForKey
  <2>4. Level(s) < Level(t)
    BY <2>1, <2>3, GateWaitsHigher
  <2>5. QED
    BY <1>2, <2>1, <2>2, <2>4
<1>4. CASE T # {}
  <2>1. ASSUME NEW s \in T
        PROVE  \E t \in T : \/ Level(s) < Level(t)
                            \/ Level(s) = Level(t) /\ t \in ahead[s]
    <3>1. PICK t \in W : WaitsForBase(s, t) \/ WaitsForKey(s, t)
      BY DEF WaitsFor, WaitsForGate, WaitsForConn
    <3>2. t \in T
      BY <1>1, <3>1, LockWaitsHigher DEF Waiting
    <3>3. Level(s) < Level(t) \/ (Level(s) = Level(t) /\ t \in ahead[s])
      BY <3>1, <3>2, LockWaitsHigher
    <3>4. QED
      BY <3>2, <3>3
  <2>2. PICK m \in T : \A t \in T : Level(t) <= Level(m)
    <3>1. T \in SUBSET Sessions /\ \A s \in T : pc[s] \in {"gates", "take"}
      OBVIOUS
    <3> HIDE DEF T
    <3>2. QED
      BY <1>4, <3>1, HighestLevel
  <2> DEFINE M == {s \in T : Level(s) = Level(m)}
  <2>3. PICK s \in M : \A t \in M : t \notin ahead[s]
    <3>1. M \in SUBSET Sessions /\ M # {}
      OBVIOUS
    <3> HIDE DEF M
    <3>2. QED
      BY <3>1, FirstInLine
  <2>4. PICK t \in T : \/ Level(s) < Level(t)
                       \/ Level(s) = Level(t) /\ t \in ahead[s]
    BY <2>1
  <2>5. Level(s) = Level(m) /\ Level(t) <= Level(m) /\ Level(m) \in Nat /\ Level(t) \in Nat
    BY <1>2, <2>2
  <2>6. t \in M /\ t \in ahead[s]
    BY <2>4, <2>5
  <2>7. QED
    BY <2>3, <2>6
<1>5. QED
  BY <1>3, <1>4

\* "Ascending order is the deadlock proof" (_acquire_gates), for the gates, the
\* connections and the advisory locks together: however many sessions wait, no
\* set of them waits for one another.
THEOREM NobodyWaitsInACircle ==
  ASSUME IsFiniteSet(Sessions) PROVE Spec => []NoCircularWait
  BY NoCircle, WaitInvariant, PTL

------------------------------------------------------------------------------
(* So somebody can always go on. *)

\* The guards of the steps that end a wait.
CanGoOn(s) ==
  \/ \E k \in Keys : MayTakeGate(s, k) \/ MayTakeKey(s, k)
  \/ pc[s] = "connect" /\ \E c \in Conns : link[c] = "free"
  \/ MayTakeBase(s)

\* A connection that only the garbage collector or the server will give back.
Abandoned(c) ==
  link[c] = "dropped" \/ (link[c] \in Sessions /\ conn[link[c]] # c)

SomebodyGoesOn ==
  (\E s \in Sessions : Waiting(s)) =>
    \/ \E s \in Sessions : Waiting(s) /\ CanGoOn(s)
    \/ \E s \in Sessions : pc[s] \in {"mirror", "using", "unlock"}
    \/ \E c \in Conns : Abandoned(c)

\* A connection that is not free is somebody's, or abandoned.
LEMMA OwnerOf ==
  ASSUME LockInv, NEW c \in Conns, ~Abandoned(c),
         link[c] # "free" \/ c \in shared \/ keys[c] # {}
  PROVE  \E t \in Sessions : conn[t] = c /\ conn[t] # NoConn
<1>1. link[c] \in Sessions
  BY DEF LockInv, PgOK, TypeOK, Abandoned
<1>2. QED
  BY <1>1, GpuAssumption DEF Abandoned

\* WaitsFor misses no reason to wait.
LEMMA StuckWaitsForSomebody ==
  ASSUME WaitInv, Conns # {}, \A c \in Conns : ~Abandoned(c),
         NEW s \in Sessions, Waiting(s), ~CanGoOn(s)
  PROVE  \E t \in Sessions : WaitsFor(s, t)
<1> USE DEF WaitInv, LockInv
<1>1. CASE pc[s] = "gates"
  <2>1. PICK k \in Keys : IsNext(k, Gates(s), s)
    BY <1>1, NextExists DEF GateOrder
  <2>2. gate[Process[s]][k] # NoSession /\ gate[Process[s]][k] \in Sessions \cup {NoSession}
    BY <1>1, <2>1, GpuAssumption DEF CanGoOn, MayTakeGate, TypeOK
  <2>3. WaitsForGate(s, gate[Process[s]][k])
    BY <1>1, <2>1 DEF WaitsForGate, AwaitsKey, Got
  <2>4. QED
    BY <2>2, <2>3 DEF WaitsFor
<1>2. CASE pc[s] = "connect"
  <2>1. PICK c \in Conns : link[c] # "free"
    BY <1>2 DEF CanGoOn
  <2>2. PICK t \in Sessions : conn[t] # NoConn
    BY <2>1, OwnerOf
  <2>3. QED
    BY <1>2, <2>2 DEF WaitsFor, WaitsForConn
<1>3. CASE pc[s] = "take" /\ AsksForBase(s)
  <2>1. \/ \E c \in Conns : Whole \in keys[c]
        \/ \E t \in ahead[s] : AsksFor(t, Whole)
    BY <1>3 DEF CanGoOn, MayTakeBase
  <2>2. CASE \E t \in ahead[s] : AsksFor(t, Whole)
    <3>1. PICK t \in ahead[s] : AsksFor(t, Whole)
      BY <2>2
    <3>2. t \in Sessions
      BY DEF TypeOK, Queue
    <3>3. QED
      BY <1>3, <3>1, <3>2 DEF WaitsFor, WaitsForBase
  <2>3. CASE \E c \in Conns : Whole \in keys[c]
    <3>1. PICK t \in Sessions : conn[t] # NoConn /\ Whole \in keys[conn[t]]
      BY <2>3, OwnerOf
    <3>2. QED
      BY <1>3, <3>1 DEF WaitsFor, WaitsForBase
  <2>4. QED
    BY <2>1, <2>2, <2>3
<1>4. CASE pc[s] = "take" /\ ~AsksForBase(s)
  <2>1. PICK k \in Keys : AsksFor(s, k)
    <3>1. want[s] \ keys[conn[s]] # {}
      BY <1>4 DEF KeyOrder, TakesInOrder
    <3>2. \E k \in Keys : IsNext(k, keys[conn[s]], s)
      BY <3>1, NextExists
    <3>3. QED
      BY <1>4, <3>2 DEF AsksFor
  <2>2. SUFFICES \E t \in Sessions :
                   \/ conn[t] # NoConn /\ k \in keys[conn[t]]
                   \/ t \in ahead[s] /\ AsksFor(t, k)
                   \/ k = Whole /\ t # s /\ conn[t] \in shared
                   \/ k = Whole /\ t \in ahead[s] /\ AsksForBase(t)
    BY <1>4, <2>1 DEF WaitsFor, WaitsForKey
  <2>3. ahead[s] \subseteq Sessions
    BY DEF TypeOK, Queue
  <2>4. CASE \E t \in ahead[s] : AsksFor(t, k) \/ (k = Whole /\ AsksForBase(t))
    BY <2>3, <2>4
  <2>5. CASE \E c \in Conns : k \in keys[c]
    BY <2>5, OwnerOf
  <2>6. CASE k = Whole /\ ~(shared \subseteq {conn[s]})
    <3>1. PICK c \in shared : c # conn[s]
      BY <2>6
    <3>2. c \in Conns
      BY DEF TypeOK
    <3>3. PICK t \in Sessions : conn[t] = c
      BY <3>2, OwnerOf
    <3>4. QED
      BY <2>6, <3>1, <3>3
  <2>7. QED
    BY <1>4, <2>1, <2>4, <2>5, <2>6 DEF CanGoOn, MayTakeKey
<1>5. QED
  BY <1>1, <1>2, <1>3, <1>4 DEF Waiting

LEMMA NoDeadlock ==
  ASSUME IsFiniteSet(Sessions), Conns # {} PROVE WaitInv => SomebodyGoesOn
<1> SUFFICES ASSUME WaitInv, NEW w \in Sessions, Waiting(w),
                    \A s \in Sessions : Waiting(s) => ~CanGoOn(s),
                    \A s \in Sessions : pc[s] \notin {"mirror", "using", "unlock"},
                    \A c \in Conns : ~Abandoned(c)
             PROVE  FALSE
  BY DEF SomebodyGoesOn
<1> DEFINE W == {s \in Sessions : Waiting(s)}
<1>1. ASSUME NEW s \in W PROVE \E t \in W : WaitsFor(s, t)
  <2>1. PICK t \in Sessions : WaitsFor(s, t)
    BY StuckWaitsForSomebody
  <2>2. CASE WaitsForGate(s, t)
    <3>1. pc[t] # "out"
      BY <2>2, GateWaitsHigher
    <3>2. Waiting(t)
      BY <3>1 DEF WaitInv, LockInv, TypeOK, Labels, Waiting
    <3>3. QED
      BY <2>1, <3>2
  <2>3. CASE WaitsForConn(s, t)
    BY <2>1, <2>3 DEF WaitsForConn, WaitInv, LockInv, TypeOK, Waiting
  <2>4. CASE WaitsForBase(s, t) \/ WaitsForKey(s, t)
    BY <2>1, <2>4, LockWaitsHigher DEF Waiting
  <2>5. QED
    BY <2>1, <2>2, <2>3, <2>4 DEF WaitsFor
<1>2. W \in SUBSET Sessions /\ w \in W
  OBVIOUS
<1> HIDE DEF W
<1>3. QED
  BY <1>1, <1>2, NoCircle DEF NoCircularWait

\* The GPU lock does not deadlock: while a session waits, one that waits can take
\* its next gate, connection or lock, or one that waits for nothing is on its
\* way, or a connection is about to be given back.
THEOREM GpuLockIsDeadlockFree ==
  ASSUME IsFiniteSet(Sessions), Conns # {} PROVE Spec => []SomebodyGoesOn
  BY NoDeadlock, WaitInvariant, PTL
==============================================================================
