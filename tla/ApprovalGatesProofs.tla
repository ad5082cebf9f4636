------------------------- MODULE ApprovalGatesProofs -------------------------
(***************************************************************************)
(* Why nothing passes the gate unreviewed.  An approval is good for one    *)
(* attempt and one draft: while it is the last row of the history nothing  *)
(* drafts again, and what ends it, the sweep or a rollback, also takes the *)
(* attempt or the row away.                                                *)
(***************************************************************************)
EXTENDS ApprovalGates, SequenceTheorems, TLAPS

\* None of the events that the code is not ready for.
Calm ==
  Events \cap {"continue_stale", "timeout_late", "readfail_resumed", "readfail_regen",
               "redeploy_paused", "race"} = {}

Busy(d) == pc[d] # "idle" /\ ~Pausing(d)
OneBusy == \A d, e \in Drivers : Busy(d) /\ Busy(e) => d = e

\* An approval of this attempt is the last row of the history.
ApprovalIsLast ==
  \A i \in 1..Len(history) : history[i].kind = "approved" =>
    /\ history[i].at <= retry
    /\ history[i].at = retry => i = Len(history)

\* What an approval, a refusal and the checkpoint say of the draft.
ApprovedDraft ==
  Approved =>
    /\ draft \in reviewed /\ draft \notin refused
    /\ ~pending /\ ~gate /\ ~old /\ status \notin {"pending", "awaiting_gate"}
    /\ status = "in_progress" => ck \in {"gate", "tail", "end"}
PassedDraft ==
  /\ ck = "gate" => draft \notin passed
  /\ ck \in {"tail", "end"} => draft \in passed
  /\ passed \cup refused \subseteq 0..draft

Paused ==
  /\ status = "awaiting_gate" <=> gate
  /\ gate => ck = "gate" /\ ~old /\ ~pending /\ draft \notin refused

\* Where a process is when nobody but it drives the task.
SurfaceKnows(d) ==
  /\ pc[d] \in {"approve", "reject", "redraft"} =>
       gate /\ seen[d] = [draft |-> draft, retry |-> retry]
  /\ pc[d] = "redraft" => d \notin Worker
  /\ pc[d] = "log" => status = "rejected" /\ ~Approved
  /\ pc[d] = "resume" =>
       /\ ~old
       /\ Approved \/ (pending /\ ck = "gate" /\ row[d] = 0 /\ d \notin Worker)
  /\ pc[d] = "resume" /\ (row[d] # 0 \/ d \in Worker) =>
       Approved /\ ck = "gate" /\ row[d] = Len(history)
  /\ pc[d] = "undo" => Approved /\ ck = "gate" /\ row[d] = Len(history)

GraphKnows(d) ==
  /\ pc[d] \in Live /\ ~Pausing(d) => status = "in_progress"
  /\ pc[d] \in InGraph /\ ~Pausing(d) => ~old
  /\ pc[d] \in {"draft", "redo", "pause"} => ~Approved /\ d \notin Worker
  /\ pc[d] = "draft" => ~resumed[d]
  /\ pc[d] \in {"gate", "regen", "pause"} => ck = "gate"
  /\ pc[d] = "gate" =>
       IF resumed[d] THEN Approved \/ (pending /\ d \notin Worker)
                     ELSE ~Approved /\ d \notin Worker
  /\ pc[d] = "regen" =>
       /\ decision[d] = "approved" => Approved /\ resumed[d]
       /\ decision[d] = "none" => ~Approved /\ d \notin Worker /\ (resumed[d] => pending)
  /\ pc[d] \in {"gate", "regen"} /\ draft \in refused => pending
  /\ pc[d] = "pause" => ~pending /\ draft \notin refused
  /\ pc[d] \in {"pause", "interrupt"} => ~resumed[d] /\ d \notin Worker
  /\ pc[d] \in {"tail", "mark"} => ck = "tail"
  /\ pc[d] \in InGraph /\ d \in Worker => row[d] = Len(history) /\ Approved

\* A queued task has no driver.
Queued == status = "pending" => \A d \in Drivers : ~Busy(d)

GateInv ==
  /\ OneBusy /\ ApprovalIsLast /\ ApprovedDraft /\ PassedDraft /\ Paused /\ Queued
  /\ \A d \in Drivers : SurfaceKnows(d) /\ GraphKnows(d)
  /\ NoUnreviewedPass /\ RefusalStands

------------------------------------------------------------------------------
(* Types. *)

\* What a rollback does to the history.
LEMMA Deleting ==
  ASSUME NEW h \in Seq(Decision), NEW i \in Nat
  PROVE  LET g == [h EXCEPT ![i].kind = "deleted"] IN
         /\ g \in Seq(Decision) /\ Len(g) = Len(h)
         /\ \A j \in 1..Len(h) : g[j] = IF j = i THEN [h[j] EXCEPT !.kind = "deleted"] ELSE h[j]
<1> DEFINE g == [h EXCEPT ![i].kind = "deleted"]
<1>1. CASE i \in 1..Len(h)
  <2> DEFINE e == [h[i] EXCEPT !.kind = "deleted"]
  <2>1. h[i] \in Decision
    BY <1>1
  <2>2. e \in Decision
    BY <2>1 DEF Decision
  <2>3. g = [h EXCEPT ![i] = e]
    BY <1>1
  <2> HIDE DEF e
  <2>4. /\ [h EXCEPT ![i] = e] \in Seq(Decision)
        /\ Len([h EXCEPT ![i] = e]) = Len(h)
        /\ \A j \in 1..Len(h) : [h EXCEPT ![i] = e][j] = IF j = i THEN e ELSE h[j]
    BY <1>1, <2>2, ExceptSeq
  <2> QED
    BY <2>3, <2>4 DEF e
<1>2. CASE i \notin 1..Len(h)
  <2>1. DOMAIN h = 1..Len(h)
    OBVIOUS
  <2>2. g = h
    BY <1>2, <2>1
  <2> QED
    BY <1>2, <2>2
<1> QED
  BY <1>1, <1>2

LEMMA StepTyped == TypeOK /\ [Next]_vars => TypeOK'
<1> SUFFICES ASSUME TypeOK, [Next]_vars PROVE TypeOK'
  OBVIOUS
<1> USE GatesAssumption
    DEF TypeOK, Drivers, Surfaces, Node, Labels, Live, InGraph, Status, Goto, Fault, SetGate,
        task, graph, process, ghosts
<1>1. ASSUME NEW d \in Drivers, Draft(d) PROVE TypeOK'
  BY <1>1 DEF Draft
<1>2. ASSUME NEW d \in Drivers, GateRead(d) PROVE TypeOK'
  <2>1. pc' \in [Drivers -> Labels]
    <3>1. pc' = [pc EXCEPT ![d] = "idle"] \/ pc' = [pc EXCEPT ![d] = "regen"]
      BY <1>2, Zenon DEF GateRead
    <3> QED
      BY <3>1
  <2>2. decision' \in [Drivers -> {"none", "approved"}]
    BY <1>2 DEF GateRead
  <2>3. faults' \in 0..MaxFaults
    BY <1>2 DEF GateRead
  <2> QED
    BY <1>2, <2>1, <2>2, <2>3 DEF GateRead
<1>3. ASSUME NEW d \in Drivers, GateRegen(d) PROVE TypeOK'
  <2>1. pc' \in [Drivers -> Labels]
    <3>1. \E l \in {"redo", "idle", "tail", "pause"} : pc' = [pc EXCEPT ![d] = l]
      BY <1>3 DEF GateRegen, Pass
    <3> QED
      BY <3>1
  <2>2. /\ pending' \in BOOLEAN /\ ck' \in {"none"} \cup Node
        /\ passed' \subseteq Nat /\ reviewed' \subseteq Nat
    <3>1. /\ pending' \in {FALSE, pending} /\ ck' \in {"tail", ck}
          /\ passed' \in {passed, passed \cup {draft}}
          /\ reviewed' \in {reviewed, reviewed \cup {draft}}
      BY <1>3 DEF GateRegen, Pass
    <3> QED
      BY <3>1
  <2>3. UNCHANGED <<status, gate, retry, regens, history, old, draft, target, process,
                    faults, refused>>
    BY <1>3 DEF GateRegen
  <2> QED
    BY <2>1, <2>2, <2>3
<1>4. ASSUME NEW d \in Drivers, Redo(d) PROVE TypeOK'
  BY <1>4 DEF Redo
<1>5. ASSUME NEW d \in Drivers, GatePause(d) PROVE TypeOK'
  BY <1>5 DEF GatePause
<1>6. ASSUME NEW d \in Drivers, Interrupt(d) PROVE TypeOK'
  <2>1. pc' \in [Drivers -> Labels]
    <3>1. pc' = [pc EXCEPT ![d] = "tail"] \/ pc' = [pc EXCEPT ![d] = "idle"]
      BY <1>6 DEF Interrupt, Pass
    <3> QED
      BY <3>1
  <2>2. ck' \in {"tail", ck} /\ passed' \in {passed, passed \cup {draft}}
    BY <1>6 DEF Interrupt, Pass
  <2>3. UNCHANGED <<task, old, draft, target, process, faults, reviewed, refused>>
    BY <1>6 DEF Interrupt
  <2> QED
    BY <2>1, <2>2, <2>3
<1>7. ASSUME NEW d \in Drivers, Republish(d) PROVE TypeOK'
  BY <1>7 DEF Republish
<1>8. ASSUME NEW d \in Drivers, MarkDone(d) PROVE TypeOK'
  BY <1>8 DEF MarkDone
<1>9. ASSUME NEW d \in Drivers, Raise(d) PROVE TypeOK'
  BY <1>9 DEF Raise, AfterRaise
<1>10. ASSUME NEW s \in Surfaces, Approve(s) PROVE TypeOK'
  <2>1. [kind |-> "approved", at |-> seen[s].retry] \in Decision
    BY DEF Decision
  <2>2. history' \in Seq(Decision) /\ Len(history) + 1 \in Nat
    BY <1>10, <2>1, AppendProperties DEF Approve
  <2>3. row' \in [Drivers -> Nat] /\ pc' \in [Drivers -> Labels]
    BY <1>10, <2>2 DEF Approve
  <2>4. reviewed' \subseteq Nat
    <3>1. seen[s].draft \in Nat
      OBVIOUS
    <3>2. reviewed' = reviewed \cup {seen[s].draft}
      BY <1>10 DEF Approve
    <3> QED
      BY <3>1, <3>2
  <2>6. gate' = FALSE /\ status' = "in_progress"
    BY <1>10 DEF Approve
  <2>5. UNCHANGED <<retry, pending, regens, graph, target, seen, resumed, decision, faults,
                    refused, passed>>
    BY <1>10 DEF Approve
  <2> QED
    BY <2>2, <2>3, <2>4, <2>5, <2>6
<1>11. ASSUME NEW s \in Surfaces, Reject(s) PROVE TypeOK'
  BY <1>11 DEF Reject
<1>12. ASSUME NEW s \in Surfaces, LogRejection(s) PROVE TypeOK'
  <2>1. [kind |-> "rejected", at |-> retry] \in Decision
    BY DEF Decision
  <2>2. history' \in Seq(Decision)
    BY <1>12, <2>1, AppendProperties DEF LogRejection
  <2> QED
    BY <1>12, <2>2 DEF LogRejection
<1>13. ASSUME NEW s \in Surfaces, Redraft(s) PROVE TypeOK'
  <2>1. CASE BelowCap
    <3>1. regens' \in 0..RegenCap
      BY <1>13, <2>1 DEF Redraft, BelowCap
    <3>2. status' = "in_progress" /\ gate' = FALSE /\ pending' = TRUE
      BY <1>13, <2>1, Zenon DEF Redraft
    <3>4. row' \in [Drivers -> Nat]
      <4>1. row' = [row EXCEPT ![s] = 0]
        BY <1>13, <2>1, Zenon DEF Redraft
      <4> QED
        BY <4>1
    <3>6. pc' \in [Drivers -> Labels]
      <4>1. pc' = [pc EXCEPT ![s] = "resume"]
        BY <1>13, <2>1, Zenon DEF Redraft
      <4> QED
        BY <4>1
    <3>5. refused' \subseteq Nat
      <4>1. seen[s].draft \in Nat
        OBVIOUS
      <4>2. refused' = refused \cup {seen[s].draft}
        BY <1>13, <2>1, Zenon DEF Redraft
      <4> QED
        BY <4>1, <4>2
    <3>3. UNCHANGED <<retry, history, graph, target, seen, resumed, decision, faults,
                      reviewed, passed>>
      BY <1>13 DEF Redraft
    <3> QED
      BY <3>1, <3>2, <3>3, <3>4, <3>5, <3>6
  <2>2. CASE ~BelowCap
    <3>1. pc' = [pc EXCEPT ![s] = "idle"]
      BY <1>13, <2>2, Zenon DEF Redraft
    <3>2. pc' \in [Drivers -> Labels]
      BY <3>1
    <3>3. UNCHANGED <<task, graph, target, process, faults, ghosts>>
      BY <1>13, <2>2, Zenon DEF Redraft
    <3> QED
      BY <3>2, <3>3
  <2> QED
    BY <2>1, <2>2
<1>14. ASSUME NEW s \in Surfaces, Resume(s) PROVE TypeOK'
  <2>1. pc' \in [Drivers -> Labels]
    <3>1. \/ pc' = [pc EXCEPT ![s] = "draft"]
          \/ pc' = [pc EXCEPT ![s] = IF ck = "end" THEN "idle" ELSE ck] /\ ck # "none"
      BY <1>14, Zenon DEF Resume
    <3>2. ck # "none" => ck \in Node
      OBVIOUS
    <3> QED
      BY <3>1, <3>2
  <2>2. /\ ck' \in {"none"} \cup Node /\ old' \in BOOLEAN
        /\ resumed' \in [Drivers -> BOOLEAN]
    BY <1>14 DEF Resume
  <2>3. UNCHANGED <<task, draft, target, seen, row, decision, faults, ghosts>>
    BY <1>14 DEF Resume
  <2> QED
    BY <2>1, <2>2, <2>3
<1>15. ASSUME NEW s \in Surfaces, Rollback(s) PROVE TypeOK'
  <2>1. history' \in Seq(Decision)
    <3>1. CASE history' = [history EXCEPT ![row[s]].kind = "deleted"]
      <4>1. row[s] \in Nat /\ history \in Seq(Decision)
        OBVIOUS
      <4> QED
        BY <3>1, <4>1, Deleting
    <3> QED
      BY <1>15, <3>1 DEF Rollback
  <2>2. faults' \in 0..MaxFaults
    <3>1. Fault("undo_fails") \/ UNCHANGED faults
      BY <1>15, Zenon DEF Rollback
    <3> QED
      BY <3>1
  <2>3. status' \in Status /\ pc' \in [Drivers -> Labels]
    BY <1>15 DEF Rollback
  <2>4. gate' = TRUE \/ gate' = gate
    BY <1>15 DEF Rollback
  <2>5. UNCHANGED <<retry, pending, regens, graph, target, process, ghosts>>
    BY <1>15 DEF Rollback
  <2> QED
    BY <2>1, <2>2, <2>3, <2>4, <2>5
<1>16. ASSUME NEW s \in Surfaces, Look(s) PROVE TypeOK'
  BY <1>16 DEF Look
<1>17. ASSUME NEW s \in Surfaces, ContinueResume(s) PROVE TypeOK'
  BY <1>17 DEF ContinueResume
<1>18. ASSUME NEW s \in Surfaces, SetupFails(s) PROVE TypeOK'
  BY <1>18 DEF SetupFails
<1>19. ASSUME NEW s \in Surfaces, Timeout(s) PROVE TypeOK'
  BY <1>19 DEF Timeout
<1>20. CASE Claim
  BY <1>20 DEF Claim
<1>21. CASE Sweep
  <2>1. CASE retry < MaxRetries
    <3>1. retry' \in 0..MaxRetries /\ status' = "pending" /\ ck' = "none" /\ old' = FALSE
      BY <1>21, <2>1 DEF Sweep
    <3>2. UNCHANGED <<gate, pending, regens, history, draft, target, pc, process, faults, ghosts>>
      BY <1>21 DEF Sweep
    <3> QED
      BY <3>1, <3>2
  <2>2. CASE ~(retry < MaxRetries)
    BY <1>21, <2>2 DEF Sweep
  <2> QED
    BY <2>1, <2>2
<1>22. CASE Die
  BY <1>22 DEF Die
<1>23. CASE Redeploy
  BY <1>23 DEF Redeploy
<1>24. CASE UNCHANGED vars
  BY <1>24 DEF vars
<1> QED
  BY <1>1, <1>2, <1>3, <1>4, <1>5, <1>6, <1>7, <1>8, <1>9, <1>10, <1>11, <1>12, <1>13, <1>14, <1>15, <1>16, <1>17, <1>18, <1>19, <1>20, <1>21, <1>22, <1>23, <1>24 DEF Next, Driver, Surface

LEMMA InitGates == Init => TypeOK /\ GateInv
<1> SUFFICES ASSUME Init PROVE TypeOK /\ GateInv
  OBVIOUS
<1>1. history \in Seq(Decision) /\ Len(history) = 0
  BY DEF Init
<1>2. TypeOK
  <2>1. /\ status \in Status /\ gate \in BOOLEAN /\ pending \in BOOLEAN
        /\ ck \in {"none"} \cup Node /\ old \in BOOLEAN /\ target \in BOOLEAN
    BY DEF Init, Status
  <2>2. /\ retry \in 0..MaxRetries /\ regens \in 0..RegenCap /\ draft \in Nat
        /\ faults \in 0..MaxFaults
    BY GatesAssumption DEF Init
  <2>3. /\ pc \in [Drivers -> Labels] /\ row \in [Drivers -> Nat]
        /\ seen \in [Drivers -> [draft : Nat, retry : 0..MaxRetries]]
    BY GatesAssumption DEF Init, Labels
  <2>4. /\ resumed \in [Drivers -> BOOLEAN] /\ decision \in [Drivers -> {"none", "approved"}]
        /\ reviewed \subseteq Nat /\ refused \subseteq Nat /\ passed \subseteq Nat
    BY DEF Init
  <2> QED
    BY <1>1, <2>1, <2>2, <2>3, <2>4 DEF TypeOK
<1>3. ~Approved
  BY <1>1 DEF Approved
<1>4. ApprovalIsLast
  BY <1>1 DEF ApprovalIsLast
<1>5. \A d \in Drivers : pc[d] = "idle"
  BY DEF Init
<1>6. \A d \in Drivers : SurfaceKnows(d) /\ GraphKnows(d)
  BY <1>5 DEF SurfaceKnows, GraphKnows, Live, InGraph
<1>7. OneBusy /\ ApprovedDraft /\ PassedDraft /\ Paused /\ Queued
  BY <1>3, <1>5 DEF Init, OneBusy, Busy, ApprovedDraft, PassedDraft, Paused, Queued
<1> QED
  BY <1>2, <1>4, <1>6, <1>7 DEF Init, GateInv, NoUnreviewedPass, RefusalStands

\* The types of the gate's row, its history and its processes (TypeOK).
THEOREM GatesTyped == Spec => []TypeOK
<1>1. Init => TypeOK
  BY InitGates
<1> QED
  BY <1>1, StepTyped, PTL DEF Spec

------------------------------------------------------------------------------
(* The history. *)

\* Where no approval of this attempt is latest there is none at all.
LEMMA EarlierAttempts ==
  ASSUME TypeOK, ApprovalIsLast, ~Approved,
         NEW i \in 1..Len(history), history[i].kind = "approved"
  PROVE  history[i].at \in Nat /\ history[i].at < retry
<1>1. Len(history) \in Nat /\ history[i] \in Decision /\ retry \in Nat
  BY GatesAssumption DEF TypeOK
<1>2. history[i].at \in Nat /\ history[i].at <= retry
  BY <1>1 DEF ApprovalIsLast, Decision
<1>3. history[i].at # retry
  <2> SUFFICES ASSUME history[i].at = retry PROVE FALSE
    OBVIOUS
  <2>1. i = Len(history)
    BY DEF ApprovalIsLast
  <2>2. history[i] = [kind |-> "approved", at |-> retry]
    BY <1>1 DEF Decision
  <2> QED
    BY <1>1, <2>1, <2>2 DEF Approved
<1> QED
  BY <1>1, <1>2, <1>3

LEMMA ApprovalAppended ==
  ASSUME TypeOK, ApprovalIsLast, ~Approved, UNCHANGED retry,
         history' = Append(history, [kind |-> "approved", at |-> retry])
  PROVE  Approved' /\ ApprovalIsLast' /\ Len(history') = Len(history) + 1
<1> DEFINE a == [kind |-> "approved", at |-> retry]
<1>1. a \in Decision /\ history \in Seq(Decision) /\ Len(history) \in Nat /\ retry \in Nat
  BY GatesAssumption DEF TypeOK, Decision
<1>2. /\ Len(history') = Len(history) + 1
      /\ \A i \in 1..Len(history) : history'[i] = history[i]
      /\ history'[Len(history) + 1] = a
  BY <1>1, AppendProperties
<1> HIDE DEF a
<1>3. Approved'
  BY <1>1, <1>2 DEF Approved, a
<1>4. ASSUME NEW i \in 1..Len(history'), history'[i].kind = "approved"
      PROVE  history'[i].at <= retry /\ (history'[i].at = retry => i = Len(history'))
  <2>1. CASE i = Len(history')
    BY <1>1, <1>2, <2>1 DEF a
  <2>2. CASE i # Len(history')
    <3>1. i \in 1..Len(history)
      BY <1>1, <1>2, <2>2
    <3>2. history'[i] = history[i]
      BY <1>2, <3>1
    <3>3. history[i].at \in Nat /\ history[i].at < retry
      BY <1>4, <3>1, <3>2, EarlierAttempts
    <3> QED
      BY <1>1, <3>2, <3>3
  <2> QED
    BY <2>1, <2>2
<1> QED
  BY <1>2, <1>3, <1>4 DEF ApprovalIsLast

LEMMA RejectionAppended ==
  ASSUME TypeOK, ApprovalIsLast, ~Approved, UNCHANGED retry,
         history' = Append(history, [kind |-> "rejected", at |-> retry])
  PROVE  ~Approved' /\ ApprovalIsLast'
<1> DEFINE a == [kind |-> "rejected", at |-> retry]
<1>1. a \in Decision /\ a.kind = "rejected" /\ history \in Seq(Decision)
      /\ Len(history) \in Nat /\ retry \in Nat
  BY GatesAssumption DEF TypeOK, Decision
<1>2. /\ Len(history') = Len(history) + 1
      /\ \A i \in 1..Len(history) : history'[i] = history[i]
      /\ history'[Len(history) + 1] = a
  BY <1>1, AppendProperties
<1> HIDE DEF a
<1>3. ASSUME NEW i \in 1..Len(history'), history'[i].kind = "approved"
      PROVE  history'[i].at \in Nat /\ history'[i].at < retry
  <2>1. i \in 1..Len(history)
    BY <1>1, <1>2, <1>3
  <2>2. history'[i] = history[i]
    BY <1>2, <2>1
  <2> QED
    BY <1>3, <2>1, <2>2, EarlierAttempts
<1>4. ApprovalIsLast'
  BY <1>1, <1>3 DEF ApprovalIsLast
<1>5. ~Approved'
  BY <1>1, <1>3 DEF Approved
<1> QED
  BY <1>4, <1>5

LEMMA ApprovalDeleted ==
  ASSUME TypeOK, ApprovalIsLast, Approved, UNCHANGED retry,
         history' = [history EXCEPT ![Len(history)].kind = "deleted"]
  PROVE  ~Approved' /\ ApprovalIsLast'
<1>1. history \in Seq(Decision) /\ Len(history) \in Nat /\ retry \in Nat
  BY GatesAssumption DEF TypeOK
<1>2. /\ Len(history') = Len(history)
      /\ \A j \in 1..Len(history) :
           history'[j] = IF j = Len(history) THEN [history[j] EXCEPT !.kind = "deleted"]
                                             ELSE history[j]
  BY <1>1, Deleting
<1>3. ASSUME NEW i \in 1..Len(history'), history'[i].kind = "approved"
      PROVE  history'[i].at \in Nat /\ history'[i].at < retry
  <2>1. i \in 1..Len(history) /\ history[i] \in Decision
    BY <1>1, <1>2
  <2>2. i # Len(history)
    BY <1>2, <1>3, <2>1 DEF Decision
  <2>3. history'[i] = history[i]
    BY <1>2, <2>1, <2>2
  <2>4. history[i].at <= retry /\ history[i].at # retry
    BY <1>3, <2>1, <2>2, <2>3 DEF ApprovalIsLast
  <2>5. history[i].at \in Nat
    BY <2>1 DEF Decision
  <2> QED
    BY <1>1, <2>3, <2>4, <2>5
<1>4. ApprovalIsLast'
  BY <1>1, <1>3 DEF ApprovalIsLast
<1>5. ~Approved'
  BY <1>1, <1>3 DEF Approved
<1> QED
  BY <1>4, <1>5

LEMMA NewAttempt ==
  ASSUME TypeOK, ApprovalIsLast, retry' = retry + 1, UNCHANGED history
  PROVE  ~Approved' /\ ApprovalIsLast'
<1>1. retry \in Nat /\ Len(history) \in Nat
  BY GatesAssumption DEF TypeOK
<1>2. ASSUME NEW i \in 1..Len(history), history[i].kind = "approved"
      PROVE  history[i].at \in Nat /\ history[i].at < retry'
  <2>1. history[i] \in Decision /\ history[i].at <= retry
    BY <1>2 DEF TypeOK, ApprovalIsLast
  <2> QED
    BY <1>1, <2>1 DEF Decision
<1>3. ApprovalIsLast'
  BY <1>1, <1>2 DEF ApprovalIsLast
<1>4. ~Approved'
  BY <1>1, <1>2 DEF Approved
<1> QED
  BY <1>3, <1>4

LEMMA SameHistory ==
  ASSUME UNCHANGED <<history, retry>>
  PROVE  Approved' = Approved /\ ApprovalIsLast' = ApprovalIsLast
BY DEF Approved, ApprovalIsLast

------------------------------------------------------------------------------
(* One step of a process, while every other is idle or has just paused. *)

Alone(d) == \A e \in Drivers \ {d} : ~Busy(e)

\* What a step of d has to show.
Shows(d) ==
  /\ ApprovedDraft /\ PassedDraft /\ Paused /\ NoUnreviewedPass /\ RefusalStands
  /\ SurfaceKnows(d) /\ GraphKnows(d)

LEMMA BusyIsAlone ==
  ASSUME GateInv, NEW d \in Drivers, Busy(d)
  PROVE  Alone(d) /\ status # "pending"
BY DEF GateInv, OneBusy, Queued, Alone

LEMMA Others ==
  ASSUME TypeOK, GateInv, NEW d \in Drivers, Alone(d),
         \A e \in Drivers \ {d} : pc'[e] = pc[e] /\ resumed'[e] = resumed[e],
         ApprovalIsLast', Shows(d)', status' # "pending"
  PROVE  GateInv'
<1>1. ASSUME NEW e \in Drivers \ {d}
      PROVE  ~Busy(e)' /\ SurfaceKnows(e)' /\ GraphKnows(e)'
  <2>1. ~Busy(e) /\ pc'[e] = pc[e] /\ resumed'[e] = resumed[e] /\ GraphKnows(e)
    BY DEF Alone, GateInv
  <2>2. CASE pc[e] = "idle"
    BY <2>1, <2>2, Zenon DEF Busy, SurfaceKnows, GraphKnows, Live, InGraph, Pausing
  <2>3. CASE pc[e] = "interrupt" /\ ~resumed[e]
    <3>1. e \notin Worker
      BY <2>1, <2>3 DEF GraphKnows
    <3>2. pc'[e] = "interrupt" /\ ~resumed'[e]
      BY <2>1, <2>3
    <3> QED
      BY <3>1, <3>2 DEF Busy, SurfaceKnows, GraphKnows, Live, InGraph, Pausing
  <2> QED
    BY <2>1, <2>2, <2>3 DEF Busy, Pausing
<1>2. OneBusy'
  BY <1>1 DEF OneBusy
<1> QED
  BY <1>1, <1>2 DEF GateInv, Queued, Shows

LEMMA DraftShows == ASSUME TypeOK, GateInv, NEW d \in Drivers, Draft(d) PROVE GateInv'
<1>1. /\ pc[d] = "draft" /\ draft' = draft + 1 /\ ck' = "gate" /\ pc' = [pc EXCEPT ![d] = "gate"]
      /\ UNCHANGED status /\ UNCHANGED gate /\ UNCHANGED retry /\ UNCHANGED pending
      /\ UNCHANGED history /\ UNCHANGED old /\ UNCHANGED resumed /\ UNCHANGED row
      /\ UNCHANGED reviewed /\ UNCHANGED refused /\ UNCHANGED passed
  BY DEF Draft, Goto, task, process, ghosts
<1>2. Busy(d) /\ status = "in_progress" /\ ~gate /\ ~old /\ ~Approved /\ d \notin Worker /\ ~resumed[d]
  BY <1>1 DEF GateInv, Paused, GraphKnows, Busy, Pausing, Live, InGraph
<1>3. Approved' = Approved /\ ApprovalIsLast'
  BY <1>1, SameHistory DEF GateInv
<1>4. draft \in Nat /\ passed \cup refused \subseteq 0..draft
  BY DEF TypeOK, GateInv, PassedDraft
<1>5. draft' \notin passed /\ draft' \notin refused /\ passed \cup refused \subseteq 0..draft'
  BY <1>1, <1>4
<1>6. pc'[d] = "gate"
  BY <1>1 DEF TypeOK
<1>7. ApprovedDraft' /\ Paused' /\ NoUnreviewedPass' /\ RefusalStands'
  BY <1>1, <1>2, <1>3, Zenon DEF ApprovedDraft, Paused, GateInv, NoUnreviewedPass, RefusalStands
<1>8. PassedDraft'
  BY <1>1, <1>5 DEF PassedDraft
<1>9. SurfaceKnows(d)' /\ GraphKnows(d)'
  BY <1>1, <1>2, <1>3, <1>5, <1>6 DEF SurfaceKnows, GraphKnows, Live, InGraph, Pausing
<1> QED
  BY <1>1, <1>2, <1>3, <1>7, <1>8, <1>9, BusyIsAlone, Others DEF TypeOK, Shows

\* What holds while d drives the graph.
LEMMA DrivingFacts ==
  ASSUME GateInv, NEW d \in Drivers, pc[d] \in Live, ~Pausing(d)
  PROVE  /\ Busy(d) /\ Alone(d) /\ status = "in_progress" /\ ~gate
         /\ pc[d] \in InGraph => ~old
<1>1. Busy(d) /\ status = "in_progress" /\ GraphKnows(d)
  BY DEF GateInv, GraphKnows, Busy, Live, InGraph
<1>2. ~gate
  BY <1>1 DEF GateInv, Paused
<1> QED
  BY <1>1, <1>2, BusyIsAlone DEF GraphKnows

LEMMA GateReadShows == ASSUME TypeOK, GateInv, Calm, NEW d \in Drivers, GateRead(d) PROVE GateInv'
<1>1. /\ pc[d] = "gate"
      /\ UNCHANGED status /\ UNCHANGED gate /\ UNCHANGED retry /\ UNCHANGED pending
      /\ UNCHANGED history /\ UNCHANGED old /\ UNCHANGED resumed /\ UNCHANGED row
      /\ UNCHANGED ck /\ UNCHANGED draft
      /\ UNCHANGED reviewed /\ UNCHANGED refused /\ UNCHANGED passed
  BY DEF GateRead, task, graph, ghosts
<1>2. pc[d] \in Live /\ ~Pausing(d) /\ pc[d] \in InGraph
  BY <1>1 DEF Pausing, Live, InGraph
<1>3. Alone(d) /\ status = "in_progress" /\ ~gate /\ ~old
  BY <1>2, DrivingFacts
<1>4. Approved' = Approved /\ ApprovalIsLast'
  BY <1>1, SameHistory DEF GateInv
<1>5. /\ ck = "gate" /\ (draft \in refused => pending)
      /\ IF resumed[d] THEN Approved \/ (pending /\ d \notin Worker) ELSE ~Approved /\ d \notin Worker
      /\ d \in Worker => row[d] = Len(history) /\ Approved
  BY <1>1, <1>2, Zenon DEF GateInv, GraphKnows
<1>6. \/ pc' = [pc EXCEPT ![d] = "idle"] /\ UNCHANGED decision
      \/ /\ pc' = [pc EXCEPT ![d] = "regen"]
         /\ decision' = [decision EXCEPT ![d] = IF Approved THEN "approved" ELSE "none"]
      \/ /\ ~resumed[d] /\ pc' = [pc EXCEPT ![d] = "regen"]
         /\ decision' = [decision EXCEPT ![d] = "none"]
  BY DEF GateRead, Goto, Allowed, Fault, Calm
<1>7. ApprovedDraft' /\ Paused' /\ NoUnreviewedPass' /\ RefusalStands'
  BY <1>1, <1>3, <1>4, Zenon DEF ApprovedDraft, Paused, GateInv, NoUnreviewedPass, RefusalStands
<1>8. PassedDraft'
  BY <1>1 DEF GateInv, PassedDraft
<1>9. pc'[d] \in {"idle", "regen"} /\ \A e \in Drivers \ {d} : pc'[e] = pc[e]
  BY <1>6 DEF TypeOK
<1>10. SurfaceKnows(d)' /\ GraphKnows(d)'
  <2>1. CASE pc'[d] = "idle"
    BY <2>1 DEF SurfaceKnows, GraphKnows, Live, InGraph, Pausing
  <2>2. CASE pc'[d] = "regen"
    <3>1. \/ decision'[d] = "approved" /\ Approved
          \/ decision'[d] = "none" /\ ~Approved
      BY <1>5, <1>6, <2>2 DEF TypeOK
    <3> QED
      BY <1>1, <1>3, <1>4, <1>5, <2>2, <3>1, Zenon
         DEF SurfaceKnows, GraphKnows, Live, InGraph, Pausing
  <2> QED
    BY <1>9, <2>1, <2>2
<1> QED
  BY <1>1, <1>3, <1>4, <1>7, <1>8, <1>9, <1>10, Others DEF Shows

LEMMA GateRegenShows ==
  ASSUME TypeOK, GateInv, Calm, NEW d \in Drivers, GateRegen(d) PROVE GateInv'
<1>1. /\ pc[d] = "regen"
      /\ UNCHANGED status /\ UNCHANGED gate /\ UNCHANGED retry
      /\ UNCHANGED history /\ UNCHANGED old /\ UNCHANGED resumed /\ UNCHANGED row
      /\ UNCHANGED draft /\ UNCHANGED refused /\ UNCHANGED decision
  BY DEF GateRegen, process
<1>2. pc[d] \in Live /\ ~Pausing(d) /\ pc[d] \in InGraph
  BY <1>1 DEF Pausing, Live, InGraph
<1>3. Alone(d) /\ status = "in_progress" /\ ~gate /\ ~old
  BY <1>2, DrivingFacts
<1>4. Approved' = Approved /\ ApprovalIsLast'
  BY <1>1, SameHistory DEF GateInv
<1>5. /\ ck = "gate" /\ (draft \in refused => pending)
      /\ decision[d] = "approved" => Approved /\ resumed[d]
      /\ decision[d] = "none" => ~Approved /\ d \notin Worker /\ (resumed[d] => pending)
      /\ d \in Worker => row[d] = Len(history) /\ Approved
  BY <1>1, <1>2, Zenon DEF GateInv, GraphKnows
<1>6. Approved => draft \in reviewed /\ draft \notin refused /\ ~pending
  BY DEF GateInv, ApprovedDraft
<1>7. draft \in Nat /\ passed \subseteq reviewed /\ passed \cap refused = {}
      /\ passed \cup refused \subseteq 0..draft
  BY DEF TypeOK, GateInv, NoUnreviewedPass, RefusalStands, PassedDraft
<1>8. decision[d] \in {"none", "approved"}
  BY DEF TypeOK
<1>9. CASE pending /\ pc' = [pc EXCEPT ![d] = "redo"] /\ UNCHANGED <<ck, reviewed, passed>> /\ ~pending'
  <2>1. ~Approved /\ d \notin Worker
    BY <1>5, <1>6, <1>8, <1>9
  <2>2. pc'[d] = "redo" /\ \A e \in Drivers \ {d} : pc'[e] = pc[e]
    BY <1>9 DEF TypeOK
  <2>3. ApprovedDraft' /\ Paused' /\ NoUnreviewedPass' /\ RefusalStands'
    BY <1>1, <1>3, <1>4, <1>9, <2>1, Zenon DEF ApprovedDraft, Paused, GateInv, NoUnreviewedPass, RefusalStands
  <2>4. PassedDraft'
    BY <1>1, <1>9 DEF GateInv, PassedDraft
  <2>5. SurfaceKnows(d)' /\ GraphKnows(d)'
    BY <1>1, <1>3, <1>4, <2>1, <2>2, Zenon DEF SurfaceKnows, GraphKnows, Live, InGraph, Pausing
  <2> QED
    BY <1>1, <1>3, <1>4, <2>2, <2>3, <2>4, <2>5, Others DEF Shows
<1>10. CASE pc' = [pc EXCEPT ![d] = "idle"] /\ UNCHANGED <<pending, ck, reviewed, passed>>
  <2>1. pc'[d] = "idle" /\ \A e \in Drivers \ {d} : pc'[e] = pc[e]
    BY <1>10 DEF TypeOK
  <2>2. UNCHANGED pending /\ UNCHANGED ck /\ UNCHANGED reviewed /\ UNCHANGED passed
    BY <1>10
  <2>3. ApprovedDraft' /\ Paused' /\ NoUnreviewedPass' /\ RefusalStands'
    BY <1>1, <1>3, <1>4, <2>2, Zenon DEF ApprovedDraft, Paused, GateInv, NoUnreviewedPass, RefusalStands
  <2>4. PassedDraft'
    BY <1>1, <2>2 DEF GateInv, PassedDraft
  <2>5. SurfaceKnows(d)' /\ GraphKnows(d)'
    BY <2>1 DEF SurfaceKnows, GraphKnows, Live, InGraph, Pausing
  <2> QED
    BY <1>1, <1>3, <1>4, <2>1, <2>3, <2>4, <2>5, Others DEF Shows
<1>11. CASE /\ ~pending /\ UNCHANGED pending /\ pc' = [pc EXCEPT ![d] = "tail"] /\ ck' = "tail"
            /\ passed' = passed \cup {draft}
            /\ (reviewed' = reviewed /\ decision[d] = "approved") \/ reviewed' = reviewed \cup {draft}
  <2>1. pc'[d] = "tail" /\ \A e \in Drivers \ {d} : pc'[e] = pc[e]
    BY <1>11 DEF TypeOK
  <2>2. draft \notin refused /\ draft \in reviewed' /\ reviewed \subseteq reviewed'
    BY <1>5, <1>6, <1>11
  <2>3. NoUnreviewedPass' /\ RefusalStands'
    BY <1>1, <1>7, <1>11, <2>2 DEF NoUnreviewedPass, RefusalStands
  <2>4. PassedDraft'
    BY <1>1, <1>7, <1>11 DEF PassedDraft
  <2>5. ApprovedDraft' /\ Paused'
    BY <1>1, <1>3, <1>4, <1>11, <2>2, Zenon DEF ApprovedDraft, Paused, GateInv
  <2>6. SurfaceKnows(d)' /\ GraphKnows(d)'
    BY <1>1, <1>3, <1>4, <1>5, <1>11, <2>1, Zenon
       DEF SurfaceKnows, GraphKnows, Live, InGraph, Pausing
  <2> QED
    BY <1>1, <1>3, <1>4, <2>1, <2>3, <2>4, <2>5, <2>6, Others DEF Shows
<1>12. CASE /\ ~pending /\ decision[d] = "none" /\ pc' = [pc EXCEPT ![d] = "pause"]
            /\ UNCHANGED <<pending, ck, reviewed, passed>>
  <2>1. pc'[d] = "pause" /\ \A e \in Drivers \ {d} : pc'[e] = pc[e]
    BY <1>12 DEF TypeOK
  <2>2. UNCHANGED pending /\ UNCHANGED ck /\ UNCHANGED reviewed /\ UNCHANGED passed
    BY <1>12
  <2>3. ApprovedDraft' /\ Paused' /\ NoUnreviewedPass' /\ RefusalStands'
    BY <1>1, <1>3, <1>4, <2>2, Zenon DEF ApprovedDraft, Paused, GateInv, NoUnreviewedPass, RefusalStands
  <2>4. PassedDraft'
    BY <1>1, <2>2 DEF GateInv, PassedDraft
  <2>5. SurfaceKnows(d)' /\ GraphKnows(d)'
    <3>1. ~Approved /\ d \notin Worker /\ ~resumed[d] /\ ~pending /\ draft \notin refused
      BY <1>5, <1>12, Zenon
    <3>2. ~Approved' /\ ~resumed'[d] /\ ~pending' /\ draft' \notin refused'
      BY <1>1, <1>4, <2>2, <3>1, Zenon
    <3>3. ck' = "gate" /\ status' = "in_progress" /\ ~old'
      BY <1>1, <1>3, <1>5, <2>2, Zenon
    <3> QED
      BY <2>1, <3>1, <3>2, <3>3 DEF SurfaceKnows, GraphKnows, Live, InGraph, Pausing
  <2> QED
    BY <1>1, <1>3, <1>4, <2>1, <2>3, <2>4, <2>5, Others DEF Shows
<1>13. \/ pending /\ pc' = [pc EXCEPT ![d] = "redo"] /\ UNCHANGED <<ck, reviewed, passed>> /\ pending' = FALSE
       \/ pc' = [pc EXCEPT ![d] = "idle"] /\ UNCHANGED <<pending, ck, reviewed, passed>>
       \/ /\ ~pending /\ UNCHANGED pending /\ pc' = [pc EXCEPT ![d] = "tail"] /\ ck' = "tail"
          /\ passed' = passed \cup {draft}
          /\ (reviewed' = reviewed /\ decision[d] = "approved") \/ reviewed' = reviewed \cup {draft}
       \/ /\ ~pending /\ decision[d] = "none" /\ pc' = [pc EXCEPT ![d] = "pause"]
          /\ UNCHANGED <<pending, ck, reviewed, passed>>
  <2>1. NoRegenRead => ~pending
    BY DEF NoRegenRead, Allowed, Calm
  <2> QED
    BY <2>1 DEF GateRegen, RegenRead, Graduates, Pass, Goto
<1> QED
  BY <1>9, <1>10, <1>11, <1>12, <1>13

LEMMA RedoShows == ASSUME TypeOK, GateInv, NEW d \in Drivers, Redo(d) PROVE GateInv'
<1>1. /\ pc[d] = "redo" /\ ck' = "draft" /\ pc' = [pc EXCEPT ![d] = "draft"]
      /\ resumed' = [resumed EXCEPT ![d] = FALSE]
      /\ UNCHANGED status /\ UNCHANGED gate /\ UNCHANGED retry /\ UNCHANGED pending
      /\ UNCHANGED history /\ UNCHANGED old /\ UNCHANGED draft
      /\ UNCHANGED reviewed /\ UNCHANGED refused /\ UNCHANGED passed
  BY DEF Redo, Goto, task, ghosts
<1>2. pc[d] \in Live /\ ~Pausing(d) /\ pc[d] \in InGraph
  BY <1>1 DEF Pausing, Live, InGraph
<1>3. Alone(d) /\ status = "in_progress" /\ ~gate /\ ~old
  BY <1>2, DrivingFacts
<1>4. Approved' = Approved /\ ApprovalIsLast'
  BY <1>1, SameHistory DEF GateInv
<1>5. ~Approved /\ d \notin Worker
  BY <1>1, Zenon DEF GateInv, GraphKnows
<1>6. /\ pc'[d] = "draft" /\ ~resumed'[d]
      /\ \A e \in Drivers \ {d} : pc'[e] = pc[e] /\ resumed'[e] = resumed[e]
  BY <1>1 DEF TypeOK
<1>7. ApprovedDraft' /\ Paused' /\ NoUnreviewedPass' /\ RefusalStands'
  BY <1>1, <1>3, <1>4, <1>5, Zenon DEF ApprovedDraft, Paused, GateInv, NoUnreviewedPass, RefusalStands
<1>8. PassedDraft'
  BY <1>1 DEF GateInv, PassedDraft
<1>9. SurfaceKnows(d)' /\ GraphKnows(d)'
  BY <1>1, <1>3, <1>4, <1>5, <1>6, Zenon DEF SurfaceKnows, GraphKnows, Live, InGraph, Pausing
<1> QED
  BY <1>1, <1>3, <1>4, <1>6, <1>7, <1>8, <1>9, Others DEF Shows

LEMMA GatePauseShows == ASSUME TypeOK, GateInv, NEW d \in Drivers, GatePause(d) PROVE GateInv'
<1>1. /\ pc[d] = "pause" /\ gate' = TRUE /\ status' = "awaiting_gate"
      /\ pc' = [pc EXCEPT ![d] = "interrupt"]
      /\ UNCHANGED retry /\ UNCHANGED pending /\ UNCHANGED history
      /\ UNCHANGED old /\ UNCHANGED draft /\ UNCHANGED ck /\ UNCHANGED resumed
      /\ UNCHANGED reviewed /\ UNCHANGED refused /\ UNCHANGED passed
  BY DEF GatePause, Goto, SetGate, graph, process, ghosts
<1>2. pc[d] \in Live /\ ~Pausing(d) /\ pc[d] \in InGraph
  BY <1>1 DEF Pausing, Live, InGraph
<1>3. Alone(d) /\ ~old
  BY <1>2, DrivingFacts
<1>4. Approved' = Approved /\ ApprovalIsLast'
  BY <1>1, SameHistory DEF GateInv
<1>5. ~Approved /\ d \notin Worker /\ ~resumed[d] /\ ck = "gate" /\ ~pending /\ draft \notin refused
  BY <1>1, Zenon DEF GateInv, GraphKnows
<1>6. pc'[d] = "interrupt" /\ \A e \in Drivers \ {d} : pc'[e] = pc[e]
  BY <1>1 DEF TypeOK
<1>7. ApprovedDraft' /\ Paused' /\ NoUnreviewedPass' /\ RefusalStands'
  BY <1>1, <1>3, <1>4, <1>5, Zenon DEF ApprovedDraft, Paused, GateInv, NoUnreviewedPass, RefusalStands
<1>8. PassedDraft'
  BY <1>1 DEF GateInv, PassedDraft
<1>9. SurfaceKnows(d)' /\ GraphKnows(d)'
  <2>1. ~resumed'[d] /\ Pausing(d)'
    BY <1>1, <1>5, <1>6, Zenon DEF Pausing
  <2> QED
    BY <1>5, <1>6, <2>1 DEF SurfaceKnows, GraphKnows, Live, InGraph
<1> QED
  BY <1>1, <1>3, <1>4, <1>6, <1>7, <1>8, <1>9, Others DEF Shows

LEMMA RepublishShows == ASSUME TypeOK, GateInv, NEW d \in Drivers, Republish(d) PROVE GateInv'
<1>1. /\ pc[d] = "tail" /\ pc' = [pc EXCEPT ![d] = "mark"]
      /\ UNCHANGED status /\ UNCHANGED gate /\ UNCHANGED retry /\ UNCHANGED pending
      /\ UNCHANGED history /\ UNCHANGED ck /\ UNCHANGED old /\ UNCHANGED draft
      /\ UNCHANGED resumed /\ UNCHANGED row
      /\ UNCHANGED reviewed /\ UNCHANGED refused /\ UNCHANGED passed
  BY DEF Republish, Goto, task, graph, process, ghosts
<1>2. pc[d] \in Live /\ ~Pausing(d) /\ pc[d] \in InGraph
  BY <1>1 DEF Pausing, Live, InGraph
<1>3. Alone(d) /\ status = "in_progress" /\ ~gate /\ ~old
  BY <1>2, DrivingFacts
<1>4. Approved' = Approved /\ ApprovalIsLast'
  BY <1>1, SameHistory DEF GateInv
<1>5. ck = "tail" /\ (d \in Worker => row[d] = Len(history) /\ Approved)
  BY <1>1, <1>2, Zenon DEF GateInv, GraphKnows
<1>6. pc'[d] = "mark" /\ \A e \in Drivers \ {d} : pc'[e] = pc[e]
  BY <1>1 DEF TypeOK
<1>7. ApprovedDraft' /\ Paused' /\ NoUnreviewedPass' /\ RefusalStands'
  BY <1>1, <1>3, <1>4, Zenon DEF ApprovedDraft, Paused, GateInv, NoUnreviewedPass, RefusalStands
<1>8. PassedDraft'
  BY <1>1 DEF GateInv, PassedDraft
<1>9. SurfaceKnows(d)' /\ GraphKnows(d)'
  BY <1>1, <1>3, <1>4, <1>5, <1>6, Zenon DEF SurfaceKnows, GraphKnows, Live, InGraph, Pausing
<1> QED
  BY <1>1, <1>3, <1>4, <1>6, <1>7, <1>8, <1>9, Others DEF Shows

LEMMA MarkDoneShows == ASSUME TypeOK, GateInv, NEW d \in Drivers, MarkDone(d) PROVE GateInv'
<1>1. /\ pc[d] = "mark" /\ pc' = [pc EXCEPT ![d] = "idle"] /\ ck' = "end"
      /\ UNCHANGED gate /\ UNCHANGED retry /\ UNCHANGED pending
      /\ UNCHANGED history /\ UNCHANGED old /\ UNCHANGED draft /\ UNCHANGED resumed
      /\ UNCHANGED reviewed /\ UNCHANGED refused /\ UNCHANGED passed
  BY DEF MarkDone, Goto, process, ghosts
<1>2. pc[d] \in Live /\ ~Pausing(d) /\ pc[d] \in InGraph
  BY <1>1 DEF Pausing, Live, InGraph
<1>3. Alone(d) /\ status = "in_progress" /\ ~gate /\ ~old
  BY <1>2, DrivingFacts
<1>4. Approved' = Approved /\ ApprovalIsLast'
  BY <1>1, SameHistory DEF GateInv
<1>5. status' = "completed" /\ ck = "tail"
  BY <1>1, <1>3, Zenon DEF MarkDone, GateInv, GraphKnows
<1>6. pc'[d] = "idle" /\ \A e \in Drivers \ {d} : pc'[e] = pc[e]
  BY <1>1 DEF TypeOK
<1>7. ApprovedDraft' /\ Paused' /\ NoUnreviewedPass' /\ RefusalStands'
  BY <1>1, <1>3, <1>4, <1>5, Zenon DEF ApprovedDraft, Paused, GateInv, NoUnreviewedPass, RefusalStands
<1>8. PassedDraft'
  BY <1>1, <1>5 DEF GateInv, PassedDraft
<1>9. SurfaceKnows(d)' /\ GraphKnows(d)'
  BY <1>6 DEF SurfaceKnows, GraphKnows, Live, InGraph, Pausing
<1> QED
  BY <1>1, <1>3, <1>4, <1>5, <1>6, <1>7, <1>8, <1>9, Others DEF Shows

LEMMA RaiseShows == ASSUME TypeOK, GateInv, NEW d \in Drivers, Raise(d) PROVE GateInv'
<1>1. /\ pc[d] \in {"tail", "mark"} /\ pc' = [pc EXCEPT ![d] = "idle"]
      /\ status' \in {status, "failed"}
      /\ UNCHANGED gate /\ UNCHANGED retry /\ UNCHANGED pending
      /\ UNCHANGED history /\ UNCHANGED ck /\ UNCHANGED old /\ UNCHANGED draft /\ UNCHANGED resumed
      /\ UNCHANGED reviewed /\ UNCHANGED refused /\ UNCHANGED passed
  BY DEF Raise, AfterRaise, Goto, graph, process, ghosts
<1>2. pc[d] \in Live /\ ~Pausing(d) /\ pc[d] \in InGraph
  BY <1>1 DEF Pausing, Live, InGraph
<1>3. Alone(d) /\ status = "in_progress" /\ ~gate /\ ~old
  BY <1>2, DrivingFacts
<1>4. Approved' = Approved /\ ApprovalIsLast'
  BY <1>1, SameHistory DEF GateInv
<1>5. status' \in {"in_progress", "failed"} /\ (Approved => ck \in {"gate", "tail", "end"})
  BY <1>1, <1>3 DEF GateInv, ApprovedDraft
<1>6. pc'[d] = "idle" /\ \A e \in Drivers \ {d} : pc'[e] = pc[e]
  BY <1>1 DEF TypeOK
<1>7. ApprovedDraft' /\ Paused' /\ NoUnreviewedPass' /\ RefusalStands'
  BY <1>1, <1>3, <1>4, <1>5 DEF ApprovedDraft, Paused, GateInv, NoUnreviewedPass, RefusalStands
<1>8. PassedDraft'
  BY <1>1 DEF GateInv, PassedDraft
<1>9. SurfaceKnows(d)' /\ GraphKnows(d)'
  BY <1>6 DEF SurfaceKnows, GraphKnows, Live, InGraph, Pausing
<1> QED
  BY <1>1, <1>3, <1>4, <1>5, <1>6, <1>7, <1>8, <1>9, Others DEF Shows

\* A driver that has paused the task ends its run, whoever acts meanwhile.
LEMMA InterruptShows == ASSUME TypeOK, GateInv, NEW d \in Drivers, Interrupt(d) PROVE GateInv'
<1>1. pc[d] = "interrupt" /\ ~resumed[d]
  BY DEF Interrupt, GateInv, GraphKnows
<1>2. /\ pc' = [pc EXCEPT ![d] = "idle"]
      /\ UNCHANGED status /\ UNCHANGED gate /\ UNCHANGED retry /\ UNCHANGED pending
      /\ UNCHANGED history /\ UNCHANGED ck /\ UNCHANGED old /\ UNCHANGED draft
      /\ UNCHANGED seen /\ UNCHANGED row /\ UNCHANGED resumed /\ UNCHANGED decision
      /\ UNCHANGED reviewed /\ UNCHANGED refused /\ UNCHANGED passed
  BY <1>1 DEF Interrupt, Goto, task, process
<1>3. Approved' = Approved /\ ApprovalIsLast'
  BY <1>2, SameHistory DEF GateInv
<1>4. pc'[d] = "idle" /\ \A e \in Drivers \ {d} : pc'[e] = pc[e]
  BY <1>2 DEF TypeOK
<1>5. ASSUME NEW e \in Drivers
      PROVE  (Busy(e)' => Busy(e)) /\ SurfaceKnows(e)' /\ GraphKnows(e)'
  <2>1. CASE e = d
    BY <1>4, <2>1 DEF Busy, SurfaceKnows, GraphKnows, Live, InGraph, Pausing
  <2>2. CASE e # d
    <3>1. pc'[e] = pc[e] /\ SurfaceKnows(e) /\ GraphKnows(e)
      BY <1>4, <2>2 DEF GateInv
    <3>2. Busy(e)' <=> Busy(e)
      BY <1>2, <3>1, Zenon DEF Busy, Pausing
    <3>3. SurfaceKnows(e)'
      BY <1>2, <1>3, <3>1, Zenon DEF SurfaceKnows
    <3>4. GraphKnows(e)'
      BY <1>2, <1>3, <3>1, Zenon DEF GraphKnows, Pausing
    <3> QED
      BY <3>2, <3>3, <3>4
  <2> QED
    BY <2>1, <2>2
<1>6. OneBusy' /\ Queued'
  BY <1>2, <1>5 DEF OneBusy, Queued, GateInv
<1>7. ApprovedDraft' /\ Paused' /\ NoUnreviewedPass' /\ RefusalStands'
  BY <1>2, <1>3, Zenon DEF ApprovedDraft, Paused, GateInv, NoUnreviewedPass, RefusalStands
<1>8. PassedDraft'
  BY <1>2 DEF GateInv, PassedDraft
<1> QED
  BY <1>3, <1>5, <1>6, <1>7, <1>8 DEF GateInv

------------------------------------------------------------------------------
(* The surfaces. *)

LEMMA LookShows == ASSUME TypeOK, GateInv, Calm, NEW d \in Surfaces, Look(d) PROVE GateInv'
<1>1. /\ gate /\ NobodyElse /\ d \in Drivers
      /\ \E op \in {"approve", "reject", "redraft"} :
           (op = "redraft" => d \in Cli) /\ pc' = [pc EXCEPT ![d] = op]
      /\ seen' = [seen EXCEPT ![d] = [draft |-> draft, retry |-> retry]]
  BY DEF Look, Allowed, Calm, Goto, Drivers
<1>2. /\ UNCHANGED status /\ UNCHANGED gate /\ UNCHANGED retry /\ UNCHANGED pending
      /\ UNCHANGED history /\ UNCHANGED ck /\ UNCHANGED old /\ UNCHANGED draft
      /\ UNCHANGED resumed /\ UNCHANGED row
      /\ UNCHANGED reviewed /\ UNCHANGED refused /\ UNCHANGED passed
  BY DEF Look, task, graph, ghosts
<1>3. Alone(d)
  BY <1>1 DEF NobodyElse, Alone, Busy
<1>4. Approved' = Approved /\ ApprovalIsLast'
  BY <1>2, SameHistory DEF GateInv
<1>5. /\ pc'[d] \in {"approve", "reject", "redraft"} /\ (pc'[d] = "redraft" => d \notin Worker)
      /\ seen'[d] = [draft |-> draft, retry |-> retry]
      /\ \A e \in Drivers \ {d} : pc'[e] = pc[e]
  BY <1>1, GatesAssumption DEF TypeOK
<1>6. status' = "awaiting_gate"
  BY <1>1, <1>2 DEF GateInv, Paused
<1>7. ApprovedDraft' /\ Paused' /\ NoUnreviewedPass' /\ RefusalStands'
  BY <1>2, <1>4, Zenon DEF ApprovedDraft, Paused, GateInv, NoUnreviewedPass, RefusalStands
<1>8. PassedDraft'
  BY <1>2 DEF GateInv, PassedDraft
<1>9. SurfaceKnows(d)' /\ GraphKnows(d)'
  BY <1>1, <1>2, <1>5 DEF SurfaceKnows, GraphKnows, Live, InGraph, Pausing
<1> QED
  BY <1>1, <1>2, <1>3, <1>4, <1>5, <1>6, <1>7, <1>8, <1>9, Others DEF Shows

LEMMA ApproveShows == ASSUME TypeOK, GateInv, NEW d \in Surfaces, Approve(d) PROVE GateInv'
<1>1. /\ pc[d] = "approve" /\ d \in Drivers
      /\ gate' = FALSE /\ status' = "in_progress"
      /\ UNCHANGED retry /\ UNCHANGED pending /\ UNCHANGED ck /\ UNCHANGED old /\ UNCHANGED draft
      /\ UNCHANGED resumed /\ UNCHANGED refused /\ UNCHANGED passed
  BY DEF Approve, SetGate, graph, Drivers
<1>2. /\ history' = Append(history, [kind |-> "approved", at |-> seen[d].retry])
      /\ row' = [row EXCEPT ![d] = Len(history) + 1]
      /\ reviewed' = reviewed \cup {seen[d].draft}
      /\ pc' = [pc EXCEPT ![d] = "resume"] \/ pc' = [pc EXCEPT ![d] = "idle"]
  BY DEF Approve, Goto
<1>3. Busy(d) /\ Alone(d) /\ gate /\ seen[d] = [draft |-> draft, retry |-> retry]
  BY <1>1, BusyIsAlone DEF GateInv, SurfaceKnows, Busy, Pausing
<1>4. ~Approved /\ ck = "gate" /\ ~old /\ ~pending /\ draft \notin refused
  BY <1>3, Zenon DEF GateInv, Paused, ApprovedDraft
<1>5. seen[d].retry = retry /\ seen[d].draft = draft
  BY <1>3
<1>6. Approved' /\ ApprovalIsLast' /\ Len(history') = Len(history) + 1
  BY <1>1, <1>2, <1>4, <1>5, ApprovalAppended DEF GateInv
<1>7. draft \in reviewed' /\ reviewed \subseteq reviewed'
  BY <1>2, <1>5
<1>8. /\ pc'[d] \in {"resume", "idle"} /\ row'[d] = Len(history')
      /\ \A e \in Drivers \ {d} : pc'[e] = pc[e]
  BY <1>1, <1>2, <1>6 DEF TypeOK
<1>9. ApprovedDraft' /\ Paused'
  BY <1>1, <1>4, <1>7, Zenon DEF ApprovedDraft, Paused
<1>10. PassedDraft' /\ NoUnreviewedPass' /\ RefusalStands'
  BY <1>1, <1>7 DEF GateInv, PassedDraft, NoUnreviewedPass, RefusalStands
<1>11. SurfaceKnows(d)' /\ GraphKnows(d)'
  BY <1>1, <1>4, <1>6, <1>8 DEF SurfaceKnows, GraphKnows, Live, InGraph, Pausing
<1> QED
  BY <1>1, <1>3, <1>6, <1>8, <1>9, <1>10, <1>11, Others DEF Shows

LEMMA RejectShows == ASSUME TypeOK, GateInv, NEW d \in Surfaces, Reject(d) PROVE GateInv'
<1>1. /\ pc[d] = "reject" /\ d \in Drivers
      /\ gate' = FALSE /\ status' = "rejected" /\ pc' = [pc EXCEPT ![d] = "log"]
      /\ refused' = refused \cup {seen[d].draft}
      /\ UNCHANGED retry /\ UNCHANGED pending /\ UNCHANGED ck /\ UNCHANGED old /\ UNCHANGED draft
      /\ UNCHANGED resumed /\ UNCHANGED reviewed /\ UNCHANGED passed /\ UNCHANGED history
  BY DEF Reject, SetGate, graph, process, Drivers, Goto
<1>2. Busy(d) /\ Alone(d) /\ gate /\ seen[d] = [draft |-> draft, retry |-> retry]
  BY <1>1, BusyIsAlone DEF GateInv, SurfaceKnows, Busy, Pausing
<1>3. Approved' = Approved /\ ApprovalIsLast'
  BY <1>1, SameHistory DEF GateInv
<1>4. ~Approved /\ ck = "gate" /\ draft \notin passed /\ seen[d].draft = draft
  BY <1>2 DEF GateInv, Paused, ApprovedDraft, PassedDraft
<1>5. pc'[d] = "log" /\ \A e \in Drivers \ {d} : pc'[e] = pc[e]
  BY <1>1 DEF TypeOK
<1>6. ApprovedDraft' /\ Paused'
  BY <1>1, <1>3, <1>4, Zenon DEF ApprovedDraft, Paused
<1>7. draft \in Nat
  BY DEF TypeOK
<1>8. PassedDraft' /\ NoUnreviewedPass' /\ RefusalStands'
  BY <1>1, <1>4, <1>7 DEF GateInv, PassedDraft, NoUnreviewedPass, RefusalStands
<1>9. SurfaceKnows(d)' /\ GraphKnows(d)'
  BY <1>1, <1>3, <1>4, <1>5 DEF SurfaceKnows, GraphKnows, Live, InGraph, Pausing
<1> QED
  BY <1>1, <1>2, <1>3, <1>5, <1>6, <1>8, <1>9, Others DEF Shows

LEMMA LogRejectionShows ==
  ASSUME TypeOK, GateInv, NEW d \in Surfaces, LogRejection(d) PROVE GateInv'
<1>1. /\ pc[d] = "log" /\ d \in Drivers /\ pc' = [pc EXCEPT ![d] = "idle"]
      /\ history' = Append(history, [kind |-> "rejected", at |-> retry])
      /\ UNCHANGED status /\ UNCHANGED gate /\ UNCHANGED retry /\ UNCHANGED pending
      /\ UNCHANGED ck /\ UNCHANGED old /\ UNCHANGED draft /\ UNCHANGED resumed
      /\ UNCHANGED reviewed /\ UNCHANGED refused /\ UNCHANGED passed
  BY DEF LogRejection, graph, process, ghosts, Drivers, Goto
<1>2. Busy(d) /\ Alone(d) /\ status = "rejected" /\ ~Approved
  BY <1>1, BusyIsAlone DEF GateInv, SurfaceKnows, Busy, Pausing
<1>3. ~Approved' /\ ApprovalIsLast'
  BY <1>1, <1>2, RejectionAppended DEF GateInv
<1>4. pc'[d] = "idle" /\ \A e \in Drivers \ {d} : pc'[e] = pc[e]
  BY <1>1 DEF TypeOK
<1>5. ApprovedDraft' /\ Paused' /\ NoUnreviewedPass' /\ RefusalStands'
  BY <1>1, <1>3, Zenon DEF ApprovedDraft, Paused, GateInv, NoUnreviewedPass, RefusalStands
<1>6. PassedDraft'
  BY <1>1 DEF GateInv, PassedDraft
<1>7. SurfaceKnows(d)' /\ GraphKnows(d)'
  BY <1>4 DEF SurfaceKnows, GraphKnows, Live, InGraph, Pausing
<1> QED
  BY <1>1, <1>2, <1>3, <1>4, <1>5, <1>6, <1>7, Others DEF Shows

LEMMA RedraftShows ==
  ASSUME TypeOK, GateInv, NEW d \in Surfaces, Redraft(d) PROVE GateInv'
<1>1. /\ pc[d] = "redraft" /\ d \in Drivers
      /\ UNCHANGED retry /\ UNCHANGED history
      /\ UNCHANGED ck /\ UNCHANGED old /\ UNCHANGED draft /\ UNCHANGED resumed
      /\ UNCHANGED reviewed /\ UNCHANGED passed
  BY DEF Redraft, graph, Drivers
<1>2. Busy(d) /\ Alone(d) /\ gate /\ seen[d] = [draft |-> draft, retry |-> retry] /\ status # "pending"
  BY <1>1, BusyIsAlone DEF GateInv, SurfaceKnows, Busy, Pausing
<1>3. Approved' = Approved /\ ApprovalIsLast'
  BY <1>1, SameHistory DEF GateInv
<1>4. ~Approved /\ ck = "gate" /\ draft \notin passed /\ seen[d].draft = draft /\ ~old
  BY <1>2 DEF GateInv, Paused, ApprovedDraft, PassedDraft
<1>5. draft \in Nat
  BY DEF TypeOK
<1>6. CASE BelowCap
  <2>1. /\ gate' = FALSE /\ status' = "in_progress" /\ pending' = TRUE
        /\ refused' = refused \cup {seen[d].draft}
        /\ row' = [row EXCEPT ![d] = 0] /\ pc' = [pc EXCEPT ![d] = "resume"]
    BY <1>6, Zenon DEF Redraft, SetGate, Goto
  <2>2. d \notin Worker
    BY <1>1, Zenon DEF GateInv, SurfaceKnows
  <2>3. pc'[d] = "resume" /\ row'[d] = 0 /\ \A e \in Drivers \ {d} : pc'[e] = pc[e]
    BY <1>1, <2>1 DEF TypeOK
  <2>4. ApprovedDraft' /\ Paused'
    BY <1>1, <1>3, <1>4, <2>1, Zenon DEF ApprovedDraft, Paused
  <2>5. PassedDraft' /\ NoUnreviewedPass' /\ RefusalStands'
    BY <1>1, <1>4, <1>5, <2>1 DEF GateInv, PassedDraft, NoUnreviewedPass, RefusalStands
  <2>6. SurfaceKnows(d)' /\ GraphKnows(d)'
    BY <1>1, <1>4, <2>1, <2>2, <2>3 DEF SurfaceKnows, GraphKnows, Live, InGraph, Pausing
  <2> QED
    BY <1>1, <1>2, <1>3, <2>1, <2>3, <2>4, <2>5, <2>6, Others DEF Shows
<1>7. CASE ~BelowCap
  <2>1. /\ pc' = [pc EXCEPT ![d] = "idle"]
        /\ UNCHANGED status /\ UNCHANGED gate /\ UNCHANGED pending /\ UNCHANGED refused
    BY <1>7, Zenon DEF Redraft, Goto
  <2>2. pc'[d] = "idle" /\ \A e \in Drivers \ {d} : pc'[e] = pc[e]
    BY <1>1, <2>1 DEF TypeOK
  <2>3. ApprovedDraft' /\ Paused' /\ NoUnreviewedPass' /\ RefusalStands'
    BY <1>1, <1>3, <2>1, Zenon DEF ApprovedDraft, Paused, GateInv, NoUnreviewedPass, RefusalStands
  <2>4. PassedDraft'
    BY <1>1, <2>1 DEF GateInv, PassedDraft
  <2>5. SurfaceKnows(d)' /\ GraphKnows(d)'
    BY <2>2 DEF SurfaceKnows, GraphKnows, Live, InGraph, Pausing
  <2> QED
    BY <1>1, <1>2, <1>3, <2>1, <2>2, <2>3, <2>4, <2>5, Others DEF Shows
<1> QED
  BY <1>6, <1>7

LEMMA ContinueResumeShows ==
  ASSUME TypeOK, GateInv, Calm, NEW d \in Surfaces, ContinueResume(d) PROVE GateInv'
<1>1. /\ d \in Cli /\ d \in Drivers /\ ~gate /\ status = "in_progress" /\ NobodyElse /\ Approved
      /\ row' = [row EXCEPT ![d] = 0] /\ pc' = [pc EXCEPT ![d] = "resume"]
  BY DEF ContinueResume, Allowed, Calm, Goto, Drivers
<1>2. /\ UNCHANGED status /\ UNCHANGED gate /\ UNCHANGED retry /\ UNCHANGED pending
      /\ UNCHANGED history /\ UNCHANGED ck /\ UNCHANGED old /\ UNCHANGED draft /\ UNCHANGED resumed
      /\ UNCHANGED reviewed /\ UNCHANGED refused /\ UNCHANGED passed
  BY DEF ContinueResume, task, graph, ghosts
<1>3. Alone(d)
  BY <1>1 DEF NobodyElse, Alone, Busy
<1>4. Approved' = Approved /\ ApprovalIsLast'
  BY <1>2, SameHistory DEF GateInv
<1>5. ~old /\ d \notin Worker
  BY <1>1, GatesAssumption DEF GateInv, ApprovedDraft
<1>6. pc'[d] = "resume" /\ row'[d] = 0 /\ \A e \in Drivers \ {d} : pc'[e] = pc[e]
  BY <1>1 DEF TypeOK
<1>7. ApprovedDraft' /\ Paused' /\ NoUnreviewedPass' /\ RefusalStands'
  BY <1>2, <1>4, Zenon DEF ApprovedDraft, Paused, GateInv, NoUnreviewedPass, RefusalStands
<1>8. PassedDraft'
  BY <1>2 DEF GateInv, PassedDraft
<1>9. SurfaceKnows(d)' /\ GraphKnows(d)'
  BY <1>1, <1>2, <1>4, <1>5, <1>6 DEF SurfaceKnows, GraphKnows, Live, InGraph, Pausing
<1> QED
  BY <1>1, <1>2, <1>3, <1>4, <1>6, <1>7, <1>8, <1>9, Others DEF Shows

LEMMA ResumeShows == ASSUME TypeOK, GateInv, NEW d \in Surfaces, Resume(d) PROVE GateInv'
<1>1. /\ pc[d] = "resume" /\ d \in Drivers
      /\ UNCHANGED status /\ UNCHANGED gate /\ UNCHANGED retry /\ UNCHANGED pending
      /\ UNCHANGED history /\ UNCHANGED draft /\ UNCHANGED row
      /\ UNCHANGED reviewed /\ UNCHANGED refused /\ UNCHANGED passed
  BY DEF Resume, task, ghosts, Drivers
<1>2. pc[d] \in Live /\ ~Pausing(d)
  BY <1>1 DEF Pausing, Live, InGraph
<1>3. Alone(d) /\ status = "in_progress" /\ ~gate
  BY <1>1, <1>2, DrivingFacts
<1>4. Approved' = Approved /\ ApprovalIsLast'
  BY <1>1, SameHistory DEF GateInv
<1>5. /\ ~old /\ (Approved \/ (pending /\ ck = "gate" /\ d \notin Worker))
      /\ d \in Worker => Approved /\ ck = "gate" /\ row[d] = Len(history)
  BY <1>1, Zenon DEF GateInv, SurfaceKnows
<1>6. ck \in {"gate", "tail", "end"} /\ (Approved => draft \notin refused)
  BY <1>3, <1>5 DEF GateInv, ApprovedDraft
<1>7. /\ UNCHANGED ck /\ UNCHANGED old /\ resumed' = [resumed EXCEPT ![d] = TRUE]
      /\ pc' = [pc EXCEPT ![d] = IF ck = "end" THEN "idle" ELSE ck]
  <2>1. ck # "none"
    BY <1>6
  <2> QED
    BY <1>5, <2>1, Zenon DEF Resume, Goto
<1>8. /\ pc'[d] = IF ck = "end" THEN "idle" ELSE ck
      /\ resumed'[d] = TRUE
      /\ \A e \in Drivers \ {d} : pc'[e] = pc[e] /\ resumed'[e] = resumed[e]
  BY <1>1, <1>7 DEF TypeOK
<1>9. ApprovedDraft' /\ Paused' /\ NoUnreviewedPass' /\ RefusalStands'
  BY <1>1, <1>4, <1>7, Zenon DEF ApprovedDraft, Paused, GateInv, NoUnreviewedPass, RefusalStands
<1>10. PassedDraft'
  BY <1>1, <1>7 DEF GateInv, PassedDraft
<1>11. SurfaceKnows(d)' /\ GraphKnows(d)'
  <2>1. CASE ck = "end"
    BY <1>8, <2>1 DEF SurfaceKnows, GraphKnows, Live, InGraph, Pausing
  <2>2. CASE ck = "tail"
    <3>1. pc'[d] = "tail" /\ ck' = "tail" /\ ~old' /\ status' = "in_progress" /\ d \notin Worker
      BY <1>1, <1>3, <1>5, <1>7, <1>8, <2>2
    <3> QED
      BY <3>1 DEF SurfaceKnows, GraphKnows, Live, InGraph, Pausing
  <2>3. CASE ck = "gate"
    <3>1. pc'[d] = "gate" /\ ck' = "gate" /\ ~old' /\ status' = "in_progress" /\ resumed'[d]
      BY <1>1, <1>3, <1>5, <1>7, <1>8, <2>3
    <3>2. /\ Approved' \/ (pending' /\ d \notin Worker)
          /\ draft' \in refused' => pending'
          /\ d \in Worker => row'[d] = Len(history') /\ Approved'
      BY <1>1, <1>4, <1>5, <1>6, Zenon
    <3> QED
      BY <3>1, <3>2 DEF SurfaceKnows, GraphKnows, Live, InGraph, Pausing
  <2> QED
    BY <1>6, <2>1, <2>2, <2>3
<1> QED
  BY <1>1, <1>3, <1>4, <1>8, <1>9, <1>10, <1>11, Others DEF Shows

LEMMA SetupFailsShows ==
  ASSUME TypeOK, GateInv, NEW d \in Surfaces, SetupFails(d) PROVE GateInv'
<1>1. /\ pc[d] = "resume" /\ d \in Drivers
      /\ pc' = [pc EXCEPT ![d] = IF row[d] = 0 THEN "idle" ELSE "undo"]
      /\ UNCHANGED status /\ UNCHANGED gate /\ UNCHANGED retry /\ UNCHANGED pending
      /\ UNCHANGED history /\ UNCHANGED draft /\ UNCHANGED row /\ UNCHANGED ck /\ UNCHANGED old
      /\ UNCHANGED resumed
      /\ UNCHANGED reviewed /\ UNCHANGED refused /\ UNCHANGED passed
  BY DEF SetupFails, task, graph, process, ghosts, Drivers, Goto
<1>2. pc[d] \in Live /\ ~Pausing(d)
  BY <1>1 DEF Pausing, Live, InGraph
<1>3. Alone(d) /\ status = "in_progress" /\ ~gate
  BY <1>1, <1>2, DrivingFacts
<1>4. Approved' = Approved /\ ApprovalIsLast'
  BY <1>1, SameHistory DEF GateInv
<1>5. row[d] # 0 => Approved /\ ck = "gate" /\ row[d] = Len(history)
  BY <1>1, Zenon DEF GateInv, SurfaceKnows
<1>6. /\ pc'[d] = IF row[d] = 0 THEN "idle" ELSE "undo"
      /\ \A e \in Drivers \ {d} : pc'[e] = pc[e]
  BY <1>1 DEF TypeOK
<1>7. ApprovedDraft' /\ Paused' /\ NoUnreviewedPass' /\ RefusalStands'
  BY <1>1, <1>4, Zenon DEF ApprovedDraft, Paused, GateInv, NoUnreviewedPass, RefusalStands
<1>8. PassedDraft'
  BY <1>1 DEF GateInv, PassedDraft
<1>9. SurfaceKnows(d)' /\ GraphKnows(d)'
  <2>1. CASE row[d] = 0
    BY <1>6, <2>1 DEF SurfaceKnows, GraphKnows, Live, InGraph, Pausing
  <2>2. CASE row[d] # 0
    <3>1. pc'[d] = "undo" /\ status' = "in_progress" /\ ck' = "gate"
      BY <1>1, <1>3, <1>5, <1>6, <2>2
    <3>2. Approved' /\ row'[d] = Len(history')
      BY <1>1, <1>4, <1>5, <2>2, Zenon
    <3> QED
      BY <3>1, <3>2 DEF SurfaceKnows, GraphKnows, Live, InGraph, Pausing
  <2> QED
    BY <2>1, <2>2
<1> QED
  BY <1>1, <1>3, <1>4, <1>6, <1>7, <1>8, <1>9, Others DEF Shows

LEMMA TimeoutShows ==
  ASSUME TypeOK, GateInv, Calm, NEW d \in Surfaces, Timeout(d) PROVE GateInv'
<1>1. /\ d \in Worker /\ pc[d] \in InGraph /\ d \in Drivers /\ draft \notin passed
      /\ pc' = [pc EXCEPT ![d] = "undo"]
      /\ UNCHANGED status /\ UNCHANGED gate /\ UNCHANGED retry /\ UNCHANGED pending
      /\ UNCHANGED history /\ UNCHANGED draft /\ UNCHANGED row /\ UNCHANGED ck /\ UNCHANGED old
      /\ UNCHANGED resumed
      /\ UNCHANGED reviewed /\ UNCHANGED refused /\ UNCHANGED passed
  BY DEF Timeout, task, graph, process, ghosts, Drivers, Goto, Allowed, Calm
<1>2. pc[d] \in Live /\ ~Pausing(d)
  BY <1>1, Zenon DEF Pausing, Live, GateInv, GraphKnows
<1>3. Alone(d) /\ status = "in_progress" /\ ~gate
  BY <1>1, <1>2, DrivingFacts
<1>4. Approved' = Approved /\ ApprovalIsLast'
  BY <1>1, SameHistory DEF GateInv
<1>5. Approved /\ row[d] = Len(history)
  BY <1>1, Zenon DEF GateInv, GraphKnows
<1>6. ck = "gate"
  BY <1>1, <1>3, <1>5 DEF GateInv, ApprovedDraft, PassedDraft
<1>7. pc'[d] = "undo" /\ \A e \in Drivers \ {d} : pc'[e] = pc[e]
  BY <1>1 DEF TypeOK
<1>8. ApprovedDraft' /\ Paused' /\ NoUnreviewedPass' /\ RefusalStands'
  BY <1>1, <1>4, Zenon DEF ApprovedDraft, Paused, GateInv, NoUnreviewedPass, RefusalStands
<1>9. PassedDraft'
  BY <1>1 DEF GateInv, PassedDraft
<1>10. SurfaceKnows(d)' /\ GraphKnows(d)'
  BY <1>1, <1>3, <1>4, <1>5, <1>6, <1>7 DEF SurfaceKnows, GraphKnows, Live, InGraph, Pausing
<1> QED
  BY <1>1, <1>3, <1>4, <1>7, <1>8, <1>9, <1>10, Others DEF Shows

LEMMA RollbackShows ==
  ASSUME TypeOK, GateInv, NEW d \in Surfaces, Rollback(d) PROVE GateInv'
<1>1. /\ pc[d] = "undo" /\ d \in Drivers /\ pc' = [pc EXCEPT ![d] = "idle"]
      /\ UNCHANGED retry /\ UNCHANGED pending
      /\ UNCHANGED draft /\ UNCHANGED ck /\ UNCHANGED old /\ UNCHANGED resumed
      /\ UNCHANGED reviewed /\ UNCHANGED refused /\ UNCHANGED passed
  BY DEF Rollback, graph, process, ghosts, Drivers, Goto
<1>2. pc[d] \in Live /\ ~Pausing(d)
  BY <1>1 DEF Pausing, Live, InGraph
<1>3. Alone(d) /\ status = "in_progress"
  BY <1>1, <1>2, DrivingFacts
<1>4. Approved /\ ck = "gate" /\ row[d] = Len(history)
  BY <1>1, Zenon DEF GateInv, SurfaceKnows
<1>5. ~old /\ ~pending /\ draft \notin refused
  BY <1>4, Zenon DEF GateInv, ApprovedDraft
<1>6. pc'[d] = "idle" /\ \A e \in Drivers \ {d} : pc'[e] = pc[e]
  BY <1>1 DEF TypeOK
<1>7. SurfaceKnows(d)' /\ GraphKnows(d)'
  BY <1>6 DEF SurfaceKnows, GraphKnows, Live, InGraph, Pausing
<1>8. PassedDraft' /\ NoUnreviewedPass' /\ RefusalStands'
  BY <1>1 DEF GateInv, PassedDraft, NoUnreviewedPass, RefusalStands
<1>9. CASE /\ gate' = TRUE /\ status' = "awaiting_gate"
           /\ history' = [history EXCEPT ![row[d]].kind = "deleted"]
  <2>1. ~Approved' /\ ApprovalIsLast'
    BY <1>1, <1>4, <1>9, ApprovalDeleted DEF GateInv
  <2>2. ApprovedDraft' /\ Paused'
    BY <1>1, <1>4, <1>5, <1>9, <2>1, Zenon DEF ApprovedDraft, Paused
  <2> QED
    BY <1>1, <1>3, <1>6, <1>7, <1>8, <1>9, <2>1, <2>2, Others DEF Shows
<1>10. CASE UNCHANGED status /\ UNCHANGED gate /\ UNCHANGED history
  <2>1. Approved' = Approved /\ ApprovalIsLast'
    BY <1>1, <1>10, SameHistory DEF GateInv
  <2>2. ApprovedDraft' /\ Paused'
    BY <1>1, <1>10, <2>1, Zenon DEF ApprovedDraft, Paused, GateInv
  <2> QED
    BY <1>1, <1>3, <1>6, <1>7, <1>8, <1>10, <2>1, <2>2, Others DEF Shows
<1> QED
  BY <1>9, <1>10 DEF Rollback, SetGate

------------------------------------------------------------------------------
(* The environment. *)

LEMMA ClaimShows == ASSUME TypeOK, GateInv, Claim PROVE GateInv'
<1>1. /\ status = "pending" /\ status' = "in_progress" /\ ck' = "none" /\ ~old'
      /\ pc' = [pc EXCEPT ![Flow] = "draft"] /\ resumed' = [resumed EXCEPT ![Flow] = FALSE]
      /\ UNCHANGED gate /\ UNCHANGED retry /\ UNCHANGED pending
      /\ UNCHANGED history /\ UNCHANGED draft
      /\ UNCHANGED reviewed /\ UNCHANGED refused /\ UNCHANGED passed
  BY DEF Claim, Goto, ghosts
<1>2. Flow \in Drivers /\ Flow \notin Worker
  BY GatesAssumption DEF Drivers
<1>3. Alone(Flow)
  BY <1>1 DEF GateInv, Queued, Alone
<1>4. Approved' = Approved /\ ApprovalIsLast'
  BY <1>1, SameHistory DEF GateInv
<1>5. ~Approved /\ ~gate
  BY <1>1 DEF GateInv, ApprovedDraft, Paused
<1>6. /\ pc'[Flow] = "draft" /\ ~resumed'[Flow]
      /\ \A e \in Drivers \ {Flow} : pc'[e] = pc[e] /\ resumed'[e] = resumed[e]
  BY <1>1, <1>2 DEF TypeOK
<1>7. ApprovedDraft' /\ Paused' /\ NoUnreviewedPass' /\ RefusalStands'
  BY <1>1, <1>4, <1>5, Zenon DEF ApprovedDraft, Paused, GateInv, NoUnreviewedPass, RefusalStands
<1>8. PassedDraft'
  BY <1>1 DEF GateInv, PassedDraft
<1>9. SurfaceKnows(Flow)' /\ GraphKnows(Flow)'
  BY <1>1, <1>2, <1>4, <1>5, <1>6, Zenon DEF SurfaceKnows, GraphKnows, Live, InGraph, Pausing
<1> QED
  BY <1>1, <1>2, <1>3, <1>4, <1>6, <1>7, <1>8, <1>9, Others DEF Shows

\* Nothing runs, or has paused, once the sweep selects the row.
LEMMA SweptIsIdle ==
  ASSUME TypeOK, GateInv, Stale PROVE \A e \in Drivers : pc[e] = "idle"
<1> SUFFICES ASSUME NEW e \in Drivers PROVE pc[e] = "idle"
  OBVIOUS
<1>1. status = "in_progress" /\ ~gate /\ pc[e] \notin Live
  BY DEF Stale
<1>2. pc[e] \notin {"approve", "reject", "redraft", "log"}
  BY <1>1 DEF GateInv, SurfaceKnows
<1> QED
  BY <1>1, <1>2 DEF TypeOK, Labels

LEMMA SweepShows == ASSUME TypeOK, GateInv, Sweep PROVE GateInv'
<1>1. /\ Stale /\ ck' = "none" /\ ~old' /\ status' \in {"pending", "failed"}
      /\ UNCHANGED gate /\ UNCHANGED pending /\ UNCHANGED history /\ UNCHANGED draft
      /\ UNCHANGED pc
      /\ UNCHANGED reviewed /\ UNCHANGED refused /\ UNCHANGED passed
  BY DEF Sweep, ghosts
<1>2. ~gate /\ \A e \in Drivers : pc'[e] = "idle"
  BY <1>1, SweptIsIdle DEF Stale
<1>3. \/ status' = "pending" /\ retry' = retry + 1
      \/ status' = "failed" /\ UNCHANGED retry
  BY DEF Sweep
<1>4. ApprovalIsLast' /\ ApprovedDraft'
  <2>1. CASE status' = "pending" /\ retry' = retry + 1
    <3>1. ~Approved' /\ ApprovalIsLast'
      BY <1>1, <2>1, NewAttempt DEF GateInv
    <3> QED
      BY <3>1 DEF ApprovedDraft
  <2>2. CASE status' = "failed" /\ UNCHANGED retry
    <3>1. Approved' = Approved /\ ApprovalIsLast'
      BY <1>1, <2>2, SameHistory DEF GateInv
    <3> QED
      BY <1>1, <1>2, <2>2, <3>1, Zenon DEF GateInv, ApprovedDraft
  <2> QED
    BY <1>3, <2>1, <2>2
<1>5. Paused' /\ NoUnreviewedPass' /\ RefusalStands'
  BY <1>1, <1>2 DEF Paused, GateInv, NoUnreviewedPass, RefusalStands
<1>6. PassedDraft'
  BY <1>1 DEF GateInv, PassedDraft
<1>7. \A e \in Drivers : ~Busy(e)' /\ SurfaceKnows(e)' /\ GraphKnows(e)'
  BY <1>2 DEF Busy, SurfaceKnows, GraphKnows, Live, InGraph, Pausing
<1> QED
  BY <1>4, <1>5, <1>6, <1>7 DEF GateInv, OneBusy, Queued

\* A death leaves the row and the other processes as they are.
LEMMA DieShows == ASSUME TypeOK, GateInv, Die PROVE GateInv'
<1>1. /\ \A e \in Drivers : pc'[e] = "idle" \/ pc'[e] = pc[e]
      /\ UNCHANGED status /\ UNCHANGED gate /\ UNCHANGED retry /\ UNCHANGED pending
      /\ UNCHANGED history /\ UNCHANGED ck /\ UNCHANGED old /\ UNCHANGED draft
      /\ UNCHANGED seen /\ UNCHANGED row /\ UNCHANGED resumed /\ UNCHANGED decision
      /\ UNCHANGED reviewed /\ UNCHANGED refused /\ UNCHANGED passed
  BY DEF Die, task, graph, process, ghosts
<1>2. Approved' = Approved /\ ApprovalIsLast'
  BY <1>1, SameHistory DEF GateInv
<1>3. ASSUME NEW e \in Drivers
      PROVE  (Busy(e)' => Busy(e)) /\ SurfaceKnows(e)' /\ GraphKnows(e)'
  <2>1. CASE pc'[e] = "idle"
    BY <2>1 DEF Busy, SurfaceKnows, GraphKnows, Live, InGraph, Pausing
  <2>2. CASE pc'[e] = pc[e]
    <3>1. SurfaceKnows(e) /\ GraphKnows(e)
      BY DEF GateInv
    <3>2. Busy(e)' <=> Busy(e)
      BY <1>1, <2>2, Zenon DEF Busy, Pausing
    <3>3. SurfaceKnows(e)'
      BY <1>1, <1>2, <2>2, <3>1, Zenon DEF SurfaceKnows
    <3>4. GraphKnows(e)'
      BY <1>1, <1>2, <2>2, <3>1, Zenon DEF GraphKnows, Pausing
    <3> QED
      BY <3>2, <3>3, <3>4
  <2> QED
    BY <1>1, <2>1, <2>2
<1>4. OneBusy' /\ Queued'
  BY <1>1, <1>3 DEF OneBusy, Queued, GateInv
<1>5. ApprovedDraft' /\ Paused' /\ NoUnreviewedPass' /\ RefusalStands'
  BY <1>1, <1>2, Zenon DEF ApprovedDraft, Paused, GateInv, NoUnreviewedPass, RefusalStands
<1>6. PassedDraft'
  BY <1>1 DEF GateInv, PassedDraft
<1> QED
  BY <1>2, <1>3, <1>4, <1>5, <1>6 DEF GateInv

\* A new signature meets a task that is neither paused nor approved.
LEMMA RedeployShows == ASSUME TypeOK, GateInv, Calm, Redeploy PROVE GateInv'
<1>1. /\ ~gate /\ ~Approved /\ \A e \in Drivers : pc'[e] = "idle"
      /\ UNCHANGED status /\ UNCHANGED gate /\ UNCHANGED retry /\ UNCHANGED pending
      /\ UNCHANGED history /\ UNCHANGED ck /\ UNCHANGED draft
      /\ UNCHANGED reviewed /\ UNCHANGED refused /\ UNCHANGED passed
  BY DEF Redeploy, Allowed, Calm, task, ghosts
<1>2. Approved' = Approved /\ ApprovalIsLast'
  BY <1>1, SameHistory DEF GateInv
<1>3. \A e \in Drivers : ~Busy(e)' /\ SurfaceKnows(e)' /\ GraphKnows(e)'
  BY <1>1 DEF Busy, SurfaceKnows, GraphKnows, Live, InGraph, Pausing
<1>4. ApprovedDraft' /\ Paused' /\ NoUnreviewedPass' /\ RefusalStands'
  BY <1>1, <1>2, Zenon DEF ApprovedDraft, Paused, GateInv, NoUnreviewedPass, RefusalStands
<1>5. PassedDraft'
  BY <1>1 DEF GateInv, PassedDraft
<1> QED
  BY <1>2, <1>3, <1>4, <1>5 DEF GateInv, OneBusy, Queued

LEMMA StutterShows == ASSUME TypeOK, GateInv, UNCHANGED vars PROVE GateInv'
<1>1. /\ UNCHANGED pc
      /\ UNCHANGED status /\ UNCHANGED gate /\ UNCHANGED retry /\ UNCHANGED pending
      /\ UNCHANGED history /\ UNCHANGED ck /\ UNCHANGED old /\ UNCHANGED draft
      /\ UNCHANGED seen /\ UNCHANGED row /\ UNCHANGED resumed /\ UNCHANGED decision
      /\ UNCHANGED reviewed /\ UNCHANGED refused /\ UNCHANGED passed
  BY DEF vars, task, graph, process, ghosts
<1>2. Approved' = Approved /\ ApprovalIsLast'
  BY <1>1, SameHistory DEF GateInv
<1>3. \A e \in Drivers : (Busy(e)' <=> Busy(e)) /\ SurfaceKnows(e)' /\ GraphKnows(e)'
  <2> SUFFICES ASSUME NEW e \in Drivers
               PROVE  (Busy(e)' <=> Busy(e)) /\ SurfaceKnows(e)' /\ GraphKnows(e)'
    OBVIOUS
  <2>1. SurfaceKnows(e) /\ GraphKnows(e)
    BY DEF GateInv
  <2>2. SurfaceKnows(e)'
    BY <1>1, <1>2, <2>1, Zenon DEF SurfaceKnows
  <2>3. GraphKnows(e)'
    BY <1>1, <1>2, <2>1, Zenon DEF GraphKnows, Pausing
  <2> QED
    BY <1>1, <2>2, <2>3, Zenon DEF Busy, Pausing
<1>4. OneBusy' /\ Queued'
  BY <1>1, <1>3 DEF OneBusy, Queued, GateInv
<1>5. ApprovedDraft' /\ Paused' /\ NoUnreviewedPass' /\ RefusalStands'
  BY <1>1, <1>2, Zenon DEF ApprovedDraft, Paused, GateInv, NoUnreviewedPass, RefusalStands
<1>6. PassedDraft'
  BY <1>1 DEF GateInv, PassedDraft
<1> QED
  BY <1>2, <1>3, <1>4, <1>5, <1>6 DEF GateInv

LEMMA StepGates == ASSUME Calm, TypeOK, GateInv, [Next]_vars PROVE GateInv'
<1>1. ASSUME NEW d \in Drivers, Driver(d) PROVE GateInv'
  BY <1>1, DraftShows, GateReadShows, GateRegenShows, RedoShows, GatePauseShows, InterruptShows,
     RepublishShows, MarkDoneShows DEF Driver
<1>2. ASSUME NEW s \in Surfaces, Surface(s) PROVE GateInv'
  BY <1>2, ApproveShows, RejectShows, LogRejectionShows, RedraftShows, ResumeShows,
     RollbackShows DEF Surface
<1> QED
  BY <1>1, <1>2, RaiseShows, LookShows, ContinueResumeShows, SetupFailsShows, TimeoutShows,
     ClaimShows, SweepShows, DieShows, RedeployShows, StutterShows DEF Next

LEMMA GatesInvariant == ASSUME Calm PROVE Spec => [](TypeOK /\ GateInv)
<1>1. Init => TypeOK /\ GateInv
  BY InitGates
<1>2. TypeOK /\ GateInv /\ [Next]_vars => (TypeOK /\ GateInv)'
  BY StepTyped, StepGates
<1> QED
  BY <1>1, <1>2, PTL DEF Spec

------------------------------------------------------------------------------
(* Results. *)

\* Whatever dies, times out before its gate or is rolled back, a draft goes
\* past the gate only on a decision about that draft (gate_resume.py).
THEOREM NothingPassesUnreviewed == ASSUME Calm PROVE Spec => []NoUnreviewedPass
<1>1. GateInv => NoUnreviewedPass
  BY DEF GateInv
<1> QED
  BY <1>1, GatesInvariant, PTL

\* A draft that was rejected or is to be redone does not go past the gate.
THEOREM RefusalsStand == ASSUME Calm PROVE Spec => []RefusalStands
<1>1. GateInv => RefusalStands
  BY DEF GateInv
<1> QED
  BY <1>1, GatesInvariant, PTL

\* A task shown as paused has its draft before the gate, rollbacks included.
THEOREM PausesAreTrue == ASSUME Calm PROVE Spec => []PauseIsTrue
<1>1. GateInv => PauseIsTrue
  BY DEF GateInv, Paused, PassedDraft, PauseIsTrue
<1> QED
  BY <1>1, GatesInvariant, PTL

\* At most one process drives the graph of a task.
THEOREM GraphHasOneDriver == ASSUME Calm PROVE Spec => []OneDriver
<1>1. GateInv => OneDriver
  BY DEF GateInv, OneBusy, Busy, OneDriver, Driving, Live, InGraph
<1> QED
  BY <1>1, GatesInvariant, PTL
==============================================================================
