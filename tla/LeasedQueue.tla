----------------------------- MODULE LeasedQueue -----------------------------
(***************************************************************************)
(* What the content queue promises.  A queued task is leased by one run;   *)
(* while that run lives nobody takes the task from it; a task whose run    *)
(* died is queued again or settled; a settled task stays settled; and no   *)
(* task is attempted more than MaxAttempts times.                          *)
(***************************************************************************)
EXTENDS Naturals

CONSTANTS Tasks, Runs, Nobody, MaxAttempts

VARIABLES state, holder, attempts

vars == <<state, holder, attempts>>

States == {"queued", "leased", "settled"}

TypeOK ==
  /\ state \in [Tasks -> States]
  /\ holder \in [Tasks -> Runs \cup {Nobody}]
  /\ attempts \in [Tasks -> 0..MaxAttempts]

Init ==
  /\ state = [t \in Tasks |-> "queued"]
  /\ holder = [t \in Tasks |-> Nobody]
  /\ attempts = [t \in Tasks |-> 0]

Move(t, from, to, run) ==
  /\ state[t] = from
  /\ state' = [state EXCEPT ![t] = to]
  /\ holder' = [holder EXCEPT ![t] = run]

\* A run that leases nothing takes a queued task.
Lease(r, t) ==
  /\ \A u \in Tasks : holder[u] # r
  /\ attempts[t] < MaxAttempts
  /\ Move(t, "queued", "leased", r)
  /\ attempts' = [attempts EXCEPT ![t] = @ + 1]

\* The run delivers an outcome ...
Settle(r, t) == holder[t] = r /\ Move(t, "leased", "settled", Nobody) /\ UNCHANGED attempts

\* ... or ends without one.
Lose(r, t) == holder[t] = r /\ Move(t, "leased", "leased", Nobody) /\ UNCHANGED attempts

\* Recovery: tasks nobody holds any more are queued again or settled, several
\* at a time.
Recover ==
  \E lost \in SUBSET {t \in Tasks : state[t] = "leased" /\ holder[t] = Nobody},
     outcome \in [Tasks -> {"queued", "settled"}] :
       /\ lost # {}
       /\ state' = [t \in Tasks |-> IF t \in lost THEN outcome[t] ELSE state[t]]
       /\ UNCHANGED <<holder, attempts>>

Next ==
  \/ \E t \in Tasks, r \in Runs : Lease(r, t) \/ Settle(r, t) \/ Lose(r, t)
  \/ Recover

Spec == Init /\ [][Next]_vars
==============================================================================
