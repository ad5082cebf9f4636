------------------------------- MODULE GpuLock -------------------------------
(***************************************************************************)
(* GPUScheduler.lock(): sessions of several worker processes contend for   *)
(* the graphics cards.  A session first takes the gates of its own process *)
(* (see PriorityGate), then Postgres advisory locks on a connection of its *)
(* own.  Device scoping, a setting each process caches by itself, decides  *)
(* whether it locks the cards it needs or the whole GPU.                   *)
(*                                                                         *)
(* A step is what a session does between two awaits.  A gate is here a     *)
(* lock that any of those who wait may get; Postgres serves the requests   *)
(* that conflict with each other in the order they came.                   *)
(***************************************************************************)
EXTENDS Integers, FiniteSets

CONSTANTS
  Procs,
  Sessions,
  Process,    \* the process of each session
  Cards,      \* cards, numbered as device_lock_key orders them
  Needs,      \* the cards each session's role is mapped to
  Conns,      \* Postgres connections
  NoSession, NoConn,
  Events      \* what may happen, a subset of EventKinds

EventKinds ==
  { "flip",            \* a process learns that the scoping setting was toggled
    "timeout",         \* a wait exceeds gpu_lock_acquire_timeout_seconds
    "cancel",          \* a session's task is cancelled before or while it uses the GPU
    "cancel_release",  \* ... or while it unlocks
    "unlock_fails",    \* an unlock fails or times out
    "nopg",            \* Postgres cannot be reached
    "crash" }          \* a process dies

Whole == 0   \* GPU_ADVISORY_LOCK_KEY
Keys == Cards \cup {Whole}

ASSUME GpuAssumption ==
  /\ Process \in [Sessions -> Procs]
  /\ Cards \subseteq Nat \ {Whole}
  /\ Needs \in [Sessions -> SUBSET Cards]
  /\ NoSession \notin Sessions /\ NoConn \notin Conns
  /\ "free" \notin Sessions /\ "dropped" \notin Sessions
  /\ Events \subseteq EventKinds

VARIABLES
  scoped,  \* per process: gpu_lock_per_device_enabled as it last read it
  pc,      \* where each session is
  want,    \* want_keys
  gate,    \* _gates: per process and key, the session that holds the gate
  conn,    \* pg_hold: the connection a session holds its advisory locks on
  link,    \* per connection: the session that opened it, "free", or "dropped"
           \*   while the server has yet to notice that the client is gone
  shared,  \* connections that hold the whole-GPU key in SHARED mode
  keys,    \* per connection: the keys it holds exclusively
  ahead    \* per session that waits for an advisory lock: who asked before it

pg   == <<link, shared, keys>>
vars == <<scoped, pc, want, gate, conn, pg, ahead>>

Labels == {"out", "gates", "connect", "take", "mirror", "using", "unlock"}

Init ==
  /\ scoped \in [Procs -> BOOLEAN]
  /\ pc = [s \in Sessions |-> "out"]
  /\ want = [s \in Sessions |-> {}]
  /\ gate = [p \in Procs |-> [k \in Keys |-> NoSession]]
  /\ conn = [s \in Sessions |-> NoConn]
  /\ link = [c \in Conns |-> "free"]
  /\ shared = {}
  /\ keys = [c \in Conns |-> {}]
  /\ ahead = [s \in Sessions |-> {}]

Goto(s, label) == pc' = [pc EXCEPT ![s] = label]

\* The queue for advisory locks, which s leaves, or joins at the end.
Queue == {s \in Sessions : pc[s] = "take"}
\* Mutant: the others still count it as ahead of them.
DequeueOnlyItself(s) == ahead' = [ahead EXCEPT ![s] = {}]
Dequeue(s) == ahead' = [t \in Sessions |-> IF t = s THEN {} ELSE ahead[t] \ {s}]
Enqueue(s) ==
  ahead' = [t \in Sessions |-> IF t = s THEN Queue \ {s} ELSE ahead[t] \ {s}]

------------------------------------------------------------------------------
(* The gates of the process. *)

\* resolve_lock_keys
Request(s) ==
  LET k == IF scoped[Process[s]] THEN Needs[s] ELSE {Whole} IN
  /\ pc[s] = "out"
  /\ want' = [want EXCEPT ![s] = k]
  /\ Goto(s, IF k = {} THEN "using" ELSE "gates")
  /\ UNCHANGED <<scoped, gate, conn, pg, ahead>>

Gates(s) == {k \in Keys : gate[Process[s]][k] = s}

\* "Ascending order is the deadlock proof."  Mutant: any order.
IsNextInAnyOrder(k, got, s) == k \in want[s] \ got
IsNext(k, got, s) == k \in want[s] \ got /\ \A j \in want[s] \ got : k <= j

MayTakeGate(s, k) ==
  pc[s] = "gates" /\ IsNext(k, Gates(s), s) /\ gate[Process[s]][k] = NoSession

TakeGate(s) ==
  /\ \E k \in Keys :
       /\ MayTakeGate(s, k)
       /\ gate' = [gate EXCEPT ![Process[s]][k] = s]
       /\ Goto(s, IF Gates(s) \cup {k} = want[s] THEN "connect" ELSE "gates")
  /\ UNCHANGED <<scoped, want, conn, pg, ahead>>

\* _release_gates: only this session's own.  Mutant: all that the instance
\* lists, as it once did.
FreeGatesOfTheInstance(s) ==
  gate' = [gate EXCEPT ![Process[s]] = [k \in Keys |-> NoSession]]
FreeGates(s) ==
  gate' = [gate EXCEPT ![Process[s]] =
             [k \in Keys |-> IF @[k] = s THEN NoSession ELSE @[k]]]

\* The session is over, however it ended.
Leave(s) ==
  /\ FreeGates(s)
  /\ Goto(s, "out")
  /\ want' = [want EXCEPT ![s] = {}]
  /\ conn' = [conn EXCEPT ![s] = NoConn]
  /\ Dequeue(s)
  /\ UNCHANGED scoped

GiveUpAtGates(s) ==
  /\ pc[s] = "gates" /\ Events \cap {"timeout", "cancel"} # {}
  /\ Leave(s)
  /\ UNCHANGED pg

------------------------------------------------------------------------------
(* The advisory locks: _acquire_pg_advisory_lock. *)

Connect(s) ==
  /\ pc[s] = "connect"
  /\ \E c \in Conns :
       /\ link[c] = "free"
       /\ link' = [link EXCEPT ![c] = s]
       /\ conn' = [conn EXCEPT ![s] = c]
  /\ Goto(s, "take")
  /\ Enqueue(s)
  /\ UNCHANGED <<scoped, want, gate, shared, keys>>

\* Mutant: a scoped session takes its device keys only, as it did before the
\* two kinds of session were seen on one card.
NeedsBaseNever(s) == FALSE
NeedsBase(s) == want[s] # {Whole}

AsksForBase(s) == NeedsBase(s) /\ conn[s] \notin shared
AsksFor(s, k) == ~AsksForBase(s) /\ IsNext(k, keys[conn[s]], s)

\* The server serves a request that conflicts with no lock held and with no
\* request before it.
MayTakeBase(s) ==
  /\ pc[s] = "take" /\ AsksForBase(s)
  /\ \A c \in Conns : Whole \notin keys[c]
  /\ \A t \in ahead[s] : ~AsksFor(t, Whole)

MayTakeKey(s, k) ==
  /\ pc[s] = "take" /\ AsksFor(s, k)
  /\ \A d \in Conns : k \notin keys[d]
  /\ \A t \in ahead[s] : ~AsksFor(t, k)
  /\ k = Whole => shared \subseteq {conn[s]} /\ \A t \in ahead[s] : ~AsksForBase(t)

TakeBase(s) ==
  /\ MayTakeBase(s)
  /\ shared' = shared \cup {conn[s]}
  /\ Enqueue(s)
  /\ UNCHANGED <<scoped, pc, want, gate, conn, link, keys>>

TakeKey(s) ==
  LET c == conn[s] IN
  /\ \E k \in Keys :
       /\ MayTakeKey(s, k)
       /\ keys' = [keys EXCEPT ![c] = @ \cup {k}]
       /\ IF keys[c] \cup {k} = want[s] THEN Goto(s, "mirror") /\ Dequeue(s)
                                       ELSE Enqueue(s) /\ UNCHANGED pc
  /\ UNCHANGED <<scoped, want, gate, conn, link, shared>>

\* terminate() or close(); the server releases the locks when it notices.
Drop(s) ==
  /\ link' = [c \in Conns |-> IF c = conn[s] THEN "dropped" ELSE link[c]]
  /\ UNCHANGED <<shared, keys>>

\* A timeout or a cancellation while it waits for Postgres, or a cancellation
\* in the clean-up of the queue mirror (_drop_acquired).  Mutants: the gates
\* stay held; the connection is left to the garbage collector.
GiveUpAtPgKeepsTheGates(s) ==
  /\ \/ pc[s] \in {"connect", "take"} /\ Events \cap {"timeout", "cancel"} # {}
     \/ pc[s] = "mirror" /\ "cancel" \in Events
  /\ Drop(s)
  /\ Goto(s, "out")
  /\ want' = [want EXCEPT ![s] = {}]
  /\ conn' = [conn EXCEPT ![s] = NoConn]
  /\ Dequeue(s)
  /\ UNCHANGED <<scoped, gate>>
GiveUpAtPgLeaks(s) ==
  /\ \/ pc[s] \in {"connect", "take"} /\ Events \cap {"timeout", "cancel"} # {}
     \/ pc[s] = "mirror" /\ "cancel" \in Events
  /\ Leave(s)
  /\ UNCHANGED pg
GiveUpAtPg(s) ==
  /\ \/ pc[s] \in {"connect", "take"} /\ Events \cap {"timeout", "cancel"} # {}
     \/ pc[s] = "mirror" /\ "cancel" \in Events
  /\ Drop(s)
  /\ Leave(s)

\* Without Postgres the session goes on with the gates of its process alone.
NoPostgres(s) ==
  /\ "nopg" \in Events
  /\ pc[s] \in {"connect", "take"}
  /\ Drop(s)
  /\ conn' = [conn EXCEPT ![s] = NoConn]
  /\ Goto(s, "mirror")
  /\ Dequeue(s)
  /\ UNCHANGED <<scoped, want, gate>>

Use(s) ==
  /\ pc[s] = "mirror"
  /\ Goto(s, "using")
  /\ UNCHANGED <<scoped, want, gate, conn, pg, ahead>>

------------------------------------------------------------------------------
(* The end of a session: _release_pg_advisory_lock, then the gates. *)

\* The body returns, raises or is cancelled.
Finish(s) ==
  /\ pc[s] = "using"
  /\ Goto(s, "unlock")
  /\ UNCHANGED <<scoped, want, gate, conn, pg, ahead>>

UnlockBase(s) ==
  /\ pc[s] = "unlock"
  /\ conn[s] \in shared
  /\ shared' = shared \ {conn[s]}
  /\ UNCHANGED <<scoped, pc, want, gate, conn, link, keys, ahead>>

UnlockKey(s) ==
  LET c == conn[s] IN
  /\ pc[s] = "unlock"
  /\ c # NoConn /\ c \notin shared
  /\ \E k \in keys[c] : /\ \A j \in keys[c] : j <= k
                        /\ keys' = [keys EXCEPT ![c] = @ \ {k}]
  /\ UNCHANGED <<scoped, pc, want, gate, conn, link, shared, ahead>>

Close(s) ==
  /\ pc[s] = "unlock"
  /\ \/ conn[s] = NoConn
     \/ conn[s] # NoConn /\ conn[s] \notin shared /\ keys[conn[s]] = {}
     \/ "unlock_fails" \in Events
  /\ Drop(s)
  /\ Leave(s)

\* The cancellation passes the handlers of _release_pg_advisory_lock by.
CancelUnlock(s) ==
  /\ "cancel_release" \in Events
  /\ pc[s] = "unlock" /\ conn[s] # NoConn
  /\ Leave(s)
  /\ UNCHANGED pg

\* Connection.__del__ terminates a connection nobody refers to any more.
Collect(c) ==
  /\ link[c] \in Sessions /\ conn[link[c]] # c
  /\ link' = [link EXCEPT ![c] = "dropped"]
  /\ UNCHANGED <<scoped, pc, want, gate, conn, shared, keys, ahead>>

\* The server notices that the client is gone, and releases its locks.
Reap(c) ==
  /\ link[c] = "dropped"
  /\ link' = [link EXCEPT ![c] = "free"]
  /\ shared' = shared \ {c}
  /\ keys' = [keys EXCEPT ![c] = {}]
  /\ UNCHANGED <<scoped, pc, want, gate, conn, ahead>>

------------------------------------------------------------------------------
(* Processes. *)

Flip(p) ==
  /\ "flip" \in Events
  /\ scoped' = [scoped EXCEPT ![p] = ~@]
  /\ UNCHANGED <<pc, want, gate, conn, pg, ahead>>

Crash(p) ==
  LET Dies(s) == s \in Sessions /\ Process[s] = p IN
  /\ "crash" \in Events
  /\ pc' = [s \in Sessions |-> IF Dies(s) THEN "out" ELSE pc[s]]
  /\ want' = [s \in Sessions |-> IF Dies(s) THEN {} ELSE want[s]]
  /\ conn' = [s \in Sessions |-> IF Dies(s) THEN NoConn ELSE conn[s]]
  /\ link' = [c \in Conns |-> IF Dies(link[c]) THEN "dropped" ELSE link[c]]
  /\ gate' = [gate EXCEPT ![p] = [k \in Keys |-> NoSession]]
  /\ ahead' = [s \in Sessions |-> IF Dies(s) THEN {} ELSE {t \in ahead[s] : ~Dies(t)}]
  /\ UNCHANGED <<scoped, shared, keys>>

Take(s) == TakeBase(s) \/ TakeKey(s)
Unlock(s) == UnlockBase(s) \/ UnlockKey(s) \/ Close(s)

Next ==
  \/ \E s \in Sessions :
       \/ Request(s) \/ TakeGate(s) \/ GiveUpAtGates(s)
       \/ Connect(s) \/ Take(s) \/ GiveUpAtPg(s) \/ NoPostgres(s)
       \/ Use(s) \/ Finish(s) \/ Unlock(s) \/ CancelUnlock(s)
  \/ \E c \in Conns : Collect(c) \/ Reap(c)
  \/ \E p \in Procs : Flip(p) \/ Crash(p)

\* Sessions go on and end; a gate passes nobody by for ever (PriorityGate); the
\* garbage collector and the server get round to every connection.
Fairness ==
  /\ \A s \in Sessions :
       /\ SF_vars(TakeGate(s)) /\ SF_vars(Connect(s))
       /\ WF_vars(Take(s)) /\ WF_vars(Use(s)) /\ WF_vars(Finish(s)) /\ WF_vars(Unlock(s))
  /\ \A c \in Conns : WF_vars(Collect(c)) /\ WF_vars(Reap(c))

Spec == Init /\ [][Next]_vars
FairSpec == Spec /\ Fairness

------------------------------------------------------------------------------
(* Properties. *)

\* Every variable keeps its type, and only a session that is past connecting
\* has a connection, which is its own.
TypeOK ==
  /\ scoped \in [Procs -> BOOLEAN]
  /\ pc \in [Sessions -> Labels]
  /\ want \in [Sessions -> SUBSET Keys]
  /\ gate \in [Procs -> [Keys -> Sessions \cup {NoSession}]]
  /\ conn \in [Sessions -> Conns \cup {NoConn}]
  /\ link \in [Conns -> Sessions \cup {"free", "dropped"}]
  /\ shared \in SUBSET Conns
  /\ keys \in [Conns -> SUBSET Keys]
  /\ ahead \in [Sessions -> SUBSET Queue]
  /\ \A s \in Sessions : conn[s] # NoConn =>
       link[conn[s]] = s /\ pc[s] \in {"take", "mirror", "using", "unlock"}

\* "All four combinations are then correct" (_acquire_pg_advisory_lock): no two
\* sessions use one card at a time, whatever each of their processes believes
\* of the scoping setting, and however sessions before them ended.
CardsAreExclusive ==
  \A s, t \in Sessions :
    s # t /\ pc[s] = "using" /\ pc[t] = "using" => Needs[s] \cap Needs[t] = {}

\* "Falls back to the in-process asyncio.Lock only": without Postgres the
\* sessions of one process still exclude each other.
CardsAreExclusiveInAProcess ==
  \A s, t \in Sessions :
    s # t /\ Process[s] = Process[t] /\ pc[s] = "using" /\ pc[t] = "using"
      => Needs[s] \cap Needs[t] = {}

\* "A lock nobody owns" (_acquire_gates, the #967 wedge): a gate that is held
\* belongs to a session under way in that process, which asked for it.
NoGateIsOrphaned ==
  \A p \in Procs, k \in Keys :
    LET s == gate[p][k] IN
    s # NoSession => Process[s] = p /\ pc[s] # "out" /\ k \in want[s]

\* "Every exit path ends with the connection closed or terminated"
\* (_release_pg_advisory_lock): no connection outlives its session.
NoConnectionOutlivesItsSession ==
  \A c \in Conns : link[c] \in Sessions => conn[link[c]] = c

\* "Ascending order is the deadlock proof" (_acquire_gates): whoever waits for
\* the GPU without a timeout gets it, unless it is cancelled or its process dies.
EveryWaiterServed ==
  \A s \in Sessions : pc[s] \in {"gates", "connect", "take"} ~> pc[s] \in {"using", "out"}
==============================================================================
