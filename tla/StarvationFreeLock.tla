-------------------------- MODULE StarvationFreeLock --------------------------
(***************************************************************************)
(* What the in-process GPU gate promises its callers: one holder at a      *)
(* time, a holder that leaves hands the lock to somebody who is asking, if *)
(* anybody is, and everybody who keeps asking gets it.                     *)
(***************************************************************************)
CONSTANTS Callers, NoCaller

VARIABLES
  holder,  \* who has the lock, or NoCaller
  asking   \* who waits for it

vars == <<holder, asking>>

Init == holder = NoCaller /\ asking = {}

Take(c) ==
  /\ holder = NoCaller
  /\ holder' = c
  /\ UNCHANGED asking

Ask(c) ==
  /\ holder \notin {NoCaller, c}
  /\ c \notin asking
  /\ asking' = asking \cup {c}
  /\ UNCHANGED holder

Withdraw(c) ==
  /\ c \in asking
  /\ asking' = asking \ {c}
  /\ UNCHANGED holder

Leave(c) ==
  /\ holder = c
  /\ \/ asking = {} /\ holder' = NoCaller
     \/ holder' \in asking
  /\ asking' = asking \ {holder'}

Next == \E c \in Callers : Take(c) \/ Ask(c) \/ Withdraw(c) \/ Leave(c)

\* Holders leave; nobody asks for ever.
Served(c) == c \in asking ~> c \notin asking
Liveness == \A c \in Callers : WF_vars(Leave(c)) /\ Served(c)

Spec == Init /\ [][Next]_vars /\ Liveness
==============================================================================
