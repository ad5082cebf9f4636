------------------------- MODULE PipelineTasksProofs -------------------------
EXTENDS PipelineTasks, FiniteSetTheorems, TLAPS

(* What the shared steps of PipelineTasks preserve. *)

\* A status write keeps the rows typed when the other columns are.
LEMMA SetStatusTyped ==
  ASSUME RowsOK, NEW t \in Tasks, NEW new \in Status, NEW why \in Causes,
         SetStatus(t, new, why), retry' \in [Tasks -> Nat], marker' \in [Tasks -> Markers],
         claims' \in [Tasks -> Nat], regens' \in [Tasks -> Nat]
  PROVE  RowsOK'
<1>1. status' \in [Tasks -> Status] /\ cause' \in [Tasks -> Causes]
  BY DEF RowsOK, SetStatus
<1>2. age' \in [Tasks -> 0..2]
  BY DEF RowsOK, SetStatus
<1> QED
  BY <1>1, <1>2 DEF RowsOK

\* Ending a run keeps the processes typed.
LEMMA ExitTyped ==
  ASSUME ProcsOK, NEW p \in Procs, Exit(p), swept' \in [Slots -> [Tasks -> Buckets]]
  PROVE  ProcsOK'
BY DEF ProcsOK, Exit, Goto, NoWrite, Writes, Outcomes, Causes, Labels

\* So does calling update_task on the task of the process ...
LEMMA UpdateTyped ==
  ASSUME ProcsOK, NEW p \in Procs, job[p] \in Tasks, NEW new \in Outcomes, NEW why \in Causes,
         NEW next \in {"idle", "finalize", "post", "clear"},
         Update(p, new, why, next), UNCHANGED swept
  PROVE  ProcsOK'
BY DEF ProcsOK, Update, Goto, Writes, Labels

\* ... and returning from it.
LEMMA ReturnTyped ==
  ASSUME ProcsOK, NEW p \in Procs, job[p] \in Tasks, Return(p), UNCHANGED swept
  PROVE  ProcsOK'
BY DEF ProcsOK, Return, Goto, NoWrite, Writes, Outcomes, Causes, Labels

\* Every reachable state is well typed.
THEOREM TypeCorrect == Spec => []TypeOK
<1> USE ConstantsAssumption DEF TypeOK, RowsOK, ProcsOK, Procs, Status, Causes, Labels, Buckets, Outcomes, Writes, Markers
<1>1. Init => TypeOK
  BY DEF Init, NoWrite, Unswept
<1>2. TypeOK /\ [Next]_vars => TypeOK'
  <2> SUFFICES ASSUME TypeOK, [Next]_vars PROVE TypeOK'
    OBVIOUS
  <2>1. ASSUME NEW s \in Slots, SweepRead(s) PROVE TypeOK'
    BY <2>1 DEF SweepRead, rows, SetStatus, Goto, Exit, Update, Return, NoWrite, Unswept, Bucket, RetryAfter
  <2>2. ASSUME NEW s \in Slots, SweepWrite(s) PROVE TypeOK'
    BY <2>2 DEF SweepWrite, rows, SetStatus, Goto, Exit, Update, Return, NoWrite, Unswept, Bucket, RetryAfter
  <2>3. ASSUME NEW s \in Slots, SweepRolledBack(s) PROVE TypeOK'
    BY <2>3 DEF SweepRolledBack, rows, SetStatus, Goto, Exit, Update, Return, NoWrite, Unswept, Bucket, RetryAfter
  <2>4. ASSUME NEW s \in Slots, SweepFails(s) PROVE TypeOK'
    BY <2>4 DEF SweepFails, rows, SetStatus, Goto, Exit, Update, Return, NoWrite, Unswept, Bucket, RetryAfter
  <2>5. ASSUME NEW s \in Slots, Claim(s) PROVE TypeOK'
    BY <2>5 DEF Claim, rows, SetStatus, Goto, Exit, Update, Return, NoWrite, Unswept, Bucket, RetryAfter
  <2>6. ASSUME NEW s \in Slots, ClaimNothing(s) PROVE TypeOK'
    BY <2>6 DEF ClaimNothing, rows, SetStatus, Goto, Exit, Update, Return, NoWrite, Unswept, Bucket, RetryAfter
  <2>7. ASSUME NEW s \in Slots, Start(s) PROVE TypeOK'
    BY <2>7 DEF Start, rows, SetStatus, Goto, Exit, Update, Return, NoWrite, Unswept, Bucket, RetryAfter
  <2>8. ASSUME NEW s \in Slots, FlowCrashes(s) PROVE TypeOK'
    BY <2>8 DEF FlowCrashes, rows, SetStatus, Goto, Exit, Update, Return, NoWrite, Unswept, Bucket, RetryAfter
  <2>9. ASSUME NEW s \in Slots, CrashWrite(s) PROVE TypeOK'
    <3>1. want[s].to \in Outcomes /\ want[s].why \in Causes /\ job[s] \in Tasks
      BY <2>9 DEF CrashWrite
    <3>2. RowsOK'
      <4>1. CASE SetStatus(job[s], want[s].to, want[s].why)
        BY <3>1, <4>1, <2>9 DEF CrashWrite, SetStatus
      <4>2. CASE UNCHANGED rows
        BY <4>2, <2>9 DEF CrashWrite, rows
      <4> QED
        BY <4>1, <4>2, <2>9 DEF CrashWrite
    <3>3. ProcsOK'
      BY <2>9, ExitTyped DEF CrashWrite
    <3> QED
      BY <3>2, <3>3
  <2>10. ASSUME NEW s \in Slots, RegistryFault(s) PROVE TypeOK'
    BY <2>10 DEF RegistryFault, rows, SetStatus, Goto, Exit, Update, Return, NoWrite, Unswept, Bucket, RetryAfter
  <2>11. ASSUME NEW s \in Slots, NodeRaises(s) PROVE TypeOK'
    BY <2>11 DEF NodeRaises, rows, SetStatus, Goto, Exit, Update, Return, NoWrite, Unswept, Bucket, RetryAfter
  <2>12. ASSUME NEW s \in Slots, QaApprove(s) PROVE TypeOK'
    BY <2>12 DEF QaApprove, rows, SetStatus, Goto, Exit, Update, Return, NoWrite, Unswept, Bucket, RetryAfter
  <2>13. ASSUME NEW s \in Slots, QaPassUnmarked(s) PROVE TypeOK'
    BY <2>13 DEF QaPassUnmarked, rows, SetStatus, Goto, Exit, Update, Return, NoWrite, Unswept, Bucket, RetryAfter
  <2>14. ASSUME NEW s \in Slots, QaReject(s) PROVE TypeOK'
    <3>1. job[s] \in Tasks
      BY <2>14 DEF QaReject
    <3>2. RowsOK'
      BY <2>14 DEF QaReject, rows
    <3>3. CASE HasMarker(job[s])
      BY <3>1, <3>2, <3>3, <2>14, UpdateTyped DEF QaReject
    <3>4. CASE ~HasMarker(job[s])
      BY <3>1, <3>2, <3>4, <2>14, UpdateTyped DEF QaReject
    <3> QED
      BY <3>3, <3>4
  <2>15. ASSUME NEW s \in Slots, PersistTask(s) PROVE TypeOK'
    <3>1. job[s] \in Tasks
      BY <2>15 DEF PersistTask
    <3>2. CASE /\ SetStatus(job[s], "awaiting_approval", "none")
               /\ Update(s, "awaiting_approval", "none", "finalize")
      <4>1. RowsOK'
        BY <3>1, <3>2, <2>15, SetStatusTyped DEF PersistTask
      <4>2. ProcsOK'
        BY <3>1, <3>2, <2>15, UpdateTyped DEF PersistTask
      <4> QED
        BY <4>1, <4>2
    <3>3. CASE UNCHANGED rows /\ Update(s, "failed", "abort", "idle")
      <4>1. RowsOK'
        BY <3>3, <2>15 DEF PersistTask, rows
      <4>2. ProcsOK'
        BY <3>1, <3>3, <2>15, UpdateTyped DEF PersistTask
      <4> QED
        BY <4>1, <4>2
    <3> QED
      BY <3>2, <3>3, <2>15 DEF PersistTask
  <2>16. ASSUME NEW s \in Slots, Finalize(s) PROVE TypeOK'
    <3>1. RowsOK'
      <4>1. CASE SetStatus(job[s], "awaiting_approval", "none")
        BY <4>1, <2>16, SetStatusTyped DEF Finalize
      <4>2. CASE UNCHANGED rows
        BY <4>2, <2>16 DEF Finalize, rows
      <4> QED
        BY <4>1, <4>2, <2>16 DEF Finalize
    <3>2. ProcsOK'
      BY <2>16 DEF Finalize, Goto, Labels
    <3> QED
      BY <3>1, <3>2
  <2>17. ASSUME NEW s \in Slots, PostPipeline(s) PROVE TypeOK'
    <3>1. RowsOK' /\ job[s] \in Tasks /\ UNCHANGED swept
      BY <2>17 DEF PostPipeline, rows
    <3>2. CASE Exit(s)
      BY <3>1, <3>2, ExitTyped
    <3>3. CASE Update(s, "rejected", "curator", "idle")
      BY <3>1, <3>3, UpdateTyped
    <3> QED
      BY <3>2, <3>3, <2>17 DEF PostPipeline
  <2>18. ASSUME NEW s \in Slots, Kill(s) PROVE TypeOK'
    BY <2>18 DEF Kill, rows, SetStatus, Goto, Exit, Update, Return, NoWrite, Unswept, Bucket, RetryAfter
  <2>19. ASSUME NEW s \in Slots, Heartbeat(s) PROVE TypeOK'
    BY <2>19 DEF Heartbeat, rows, SetStatus, Goto, Exit, Update, Return, NoWrite, Unswept, Bucket, RetryAfter
  <2>20. ASSUME NEW p \in Procs, UpdSelect(p) PROVE TypeOK'
    <3>1. RowsOK' /\ job[p] \in Tasks /\ want[p].to \in Outcomes /\ UNCHANGED swept
      BY <2>20 DEF UpdSelect, rows
    <3>2. CASE Return(p)
      BY <3>1, <3>2, ReturnTyped
    <3>3. CASE Goto(p, "write") /\ UNCHANGED <<job, want>>
      BY <3>1, <3>3 DEF Goto
    <3> QED
      BY <3>2, <3>3, <2>20 DEF UpdSelect
  <2>21. ASSUME NEW p \in Procs, UpdWrite(p) PROVE TypeOK'
    <3>1. job[p] \in Tasks /\ want[p].to \in Outcomes /\ want[p].why \in Causes
      BY <2>21 DEF UpdWrite
    <3>2. marker' \in [Tasks -> Markers]
      BY <3>1, <2>21 DEF UpdWrite
    <3>3. regens' \in [Tasks -> Nat]
      <4>1. CASE want[p].to = "rejected_retry"
        <5>1. regens' = [regens EXCEPT ![job[p]] = regens[job[p]] + 1]
          BY <4>1, <2>21 DEF UpdWrite
        <5>2. regens[job[p]] \in Nat
          BY <3>1
        <5>3. regens[job[p]] + 1 \in Nat
          BY <5>2
        <5> QED
          BY <5>1, <5>3
      <4>2. CASE want[p].to # "rejected_retry"
        BY <4>2, <2>21 DEF UpdWrite
      <4> QED
        BY <4>1, <4>2
    <3>4. status' \in [Tasks -> Status] /\ cause' \in [Tasks -> Causes]
      BY <3>1, <2>21 DEF UpdWrite, SetStatus
    <3>5. RowsOK'
      BY <3>1, <3>2, <3>3, <3>4, <2>21 DEF UpdWrite, SetStatus
    <3>6. ProcsOK'
      BY <3>1, <2>21, ReturnTyped DEF UpdWrite
    <3> QED
      BY <3>5, <3>6
  <2>22. ASSUME NEW p \in Procs, UpdFails(p) PROVE TypeOK'
    BY <2>22 DEF UpdFails, rows, SetStatus, Goto, Exit, Update, Return, NoWrite, Unswept, Bucket, RetryAfter
  <2>23. ASSUME NEW t \in Tasks, GetsOld(t) PROVE TypeOK'
    BY <2>23 DEF GetsOld, rows, SetStatus, Goto, Exit, Update, Return, NoWrite, Unswept, Bucket, RetryAfter
  <2>24. ASSUME NEW t \in Tasks, BrainExpire(t) PROVE TypeOK'
    BY <2>24 DEF BrainExpire, rows, SetStatus, Goto, Exit, Update, Return, NoWrite, Unswept, Bucket, RetryAfter
  <2>25. ASSUME NEW t \in Tasks, OpReject(t) PROVE TypeOK'
    BY <2>25 DEF OpReject, rows, SetStatus, Goto, Exit, Update, Return, NoWrite, Unswept, Bucket, RetryAfter
  <2>26. ASSUME NEW t \in Tasks, OpFinal(t) PROVE TypeOK'
    BY <2>26 DEF OpFinal, rows, SetStatus, Goto, Exit, Update, Return, NoWrite, Unswept, Bucket, RetryAfter
  <2>27. ASSUME NEW t \in Tasks, OpApprove(t) PROVE TypeOK'
    BY <2>27 DEF OpApprove, rows, SetStatus, Goto, Exit, Update, Return, NoWrite, Unswept, Bucket, RetryAfter
  <2>28. ASSUME NEW t \in Tasks, OpCancel(t) PROVE TypeOK'
    BY <2>28 DEF OpCancel, rows, SetStatus, Goto, Exit, Update, Return, NoWrite, Unswept, Bucket, RetryAfter
  <2>29. CASE BrainReap
    BY <2>29 DEF BrainReap, rows, SetStatus, Goto, Exit, Update, Return, NoWrite, Unswept, Bucket, RetryAfter
  <2>30. CASE OpFinalWrite
    <3>1. job[Operator] \in Tasks /\ UNCHANGED swept
      BY <2>30 DEF OpFinalWrite
    <3>2. CASE /\ SetStatus(job[Operator], "rejected_final", "operator")
               /\ Goto(Operator, "clear") /\ UNCHANGED <<job, want>>
      <4>1. RowsOK'
        BY <3>1, <3>2, <2>30, SetStatusTyped DEF OpFinalWrite
      <4>2. ProcsOK'
        BY <3>1, <3>2, <2>30 DEF OpFinalWrite, Goto
      <4> QED
        BY <4>1, <4>2
    <3>3. CASE UNCHANGED rows /\ Exit(Operator)
      <4>1. RowsOK'
        BY <3>3, <2>30 DEF OpFinalWrite, rows
      <4>2. ProcsOK'
        BY <3>1, <3>3, <2>30, ExitTyped DEF OpFinalWrite
      <4> QED
        BY <4>1, <4>2
    <3> QED
      BY <3>2, <3>3, <2>30 DEF OpFinalWrite
  <2>31. CASE OpClear
    BY <2>31 DEF OpClear, rows, SetStatus, Goto, Exit, Update, Return, NoWrite, Unswept, Bucket, RetryAfter
  <2>32. CASE OpApproveWrite
    BY <2>32 DEF OpApproveWrite, rows, SetStatus, Goto, Exit, Update, Return, NoWrite, Unswept, Bucket, RetryAfter
  <2>33. CASE UNCHANGED vars
    BY <2>33 DEF vars, rows
  <2> QED
    BY <2>1, <2>2, <2>3, <2>4, <2>5, <2>6, <2>7, <2>8, <2>9, <2>10, <2>11, <2>12, <2>13, <2>14, <2>15, <2>16, <2>17, <2>18, <2>19, <2>20, <2>21, <2>22, <2>23, <2>24, <2>25, <2>26, <2>27, <2>28, <2>29, <2>30, <2>31, <2>32, <2>33 DEF Next, Sweep, Run, Fault, Upd, Operate, OpStep
<1> QED
  BY <1>1, <1>2, PTL DEF Spec

------------------------------------------------------------------------------
(* RerunsArePaidFor. *)

\* A step that claims nothing keeps the accounts if every task it puts into the
\* queue is charged for it.
LEMMA AccountsKept ==
  ASSUME RowsOK, RowsOK', RerunsArePaidFor, UNCHANGED claims,
         \A t \in Tasks : retry'[t] >= retry[t] /\ regens'[t] >= regens[t],
         \A t \in Tasks : Queued(t)' =>
            \/ Queued(t)
            \/ retry'[t] + regens'[t] > retry[t] + regens[t]
  PROVE  RerunsArePaidFor'
<1> SUFFICES ASSUME NEW t \in Tasks
             PROVE  claims'[t] + (IF Queued(t)' THEN 1 ELSE 0) <= 1 + retry'[t] + regens'[t]
  BY DEF RerunsArePaidFor
<1>1. /\ claims[t] \in Nat /\ retry[t] \in Nat /\ regens[t] \in Nat
      /\ retry'[t] \in Nat /\ regens'[t] \in Nat /\ claims'[t] = claims[t]
  BY DEF RowsOK
<1>2. claims[t] + (IF Queued(t) THEN 1 ELSE 0) <= 1 + retry[t] + regens[t]
  BY DEF RerunsArePaidFor
<1>3. CASE Queued(t)'
  BY <1>1, <1>2, <1>3
<1>4. CASE ~Queued(t)'
  BY <1>1, <1>2, <1>4
<1> QED
  BY <1>3, <1>4

\* In particular a step that leaves the status alone ...
LEMMA AccountsUntouched ==
  ASSUME RerunsArePaidFor, UNCHANGED <<status, retry, claims, regens>>
  PROVE  RerunsArePaidFor'
BY DEF RerunsArePaidFor, Queued

\* ... and one that puts nothing into the queue.
LEMMA NothingQueued ==
  ASSUME RowsOK, RowsOK', RerunsArePaidFor, UNCHANGED <<retry, claims, regens>>,
         \A t \in Tasks : Queued(t)' => Queued(t)
  PROVE  RerunsArePaidFor'
BY AccountsKept DEF RowsOK

\* However sweeps, runs, faults and the operator interleave, every generation
\* of a task beyond the first is charged to retry_count or to the operator.
THEOREM RerunsCharged == Spec => []RerunsArePaidFor
<1> USE ConstantsAssumption DEF Procs
<1>1. Init => RerunsArePaidFor
  BY DEF Init, RerunsArePaidFor, Queued
<1>2. TypeOK /\ TypeOK' /\ RerunsArePaidFor /\ [Next]_vars => RerunsArePaidFor'
  <2> SUFFICES ASSUME RowsOK, ProcsOK, RowsOK', RerunsArePaidFor, [Next]_vars
               PROVE  RerunsArePaidFor'
    BY DEF TypeOK
  <2>1. ASSUME NEW s \in Slots, SweepRead(s) PROVE RerunsArePaidFor'
    BY <2>1, AccountsUntouched DEF SweepRead, rows
  <2>2. ASSUME NEW s \in Slots, SweepWrite(s) PROVE RerunsArePaidFor'
    <3>1. UNCHANGED <<claims, regens>>
      BY <2>2 DEF SweepWrite
    <3>2. ASSUME NEW t \in Tasks
          PROVE  /\ retry'[t] = IF swept[s][t] = "reset" THEN retry[t] + 1 ELSE retry[t]
                 /\ Queued(t)' => Queued(t) \/ swept[s][t] = "reset"
      BY <2>2 DEF SweepWrite, RetryAfter, Queued
    <3>3. \A t \in Tasks : retry[t] \in Nat /\ regens[t] \in Nat
      BY DEF RowsOK
    <3>4. \A t \in Tasks : /\ retry'[t] >= retry[t] /\ regens'[t] >= regens[t]
                           /\ Queued(t)' => \/ Queued(t)
                                           \/ retry'[t] + regens'[t] > retry[t] + regens[t]
      <4> TAKE t \in Tasks
      <4>1. CASE swept[s][t] = "reset"
        <5>1. retry'[t] = retry[t] + 1 /\ regens'[t] = regens[t]
          BY <3>1, <3>2, <4>1
        <5>2. retry[t] \in Nat /\ regens[t] \in Nat
          BY <3>3
        <5> QED
          BY <5>1, <5>2
      <4>2. CASE swept[s][t] # "reset"
        BY <3>1, <3>2, <3>3, <4>2
      <4> QED
        BY <4>1, <4>2
    <3> QED
      BY <3>1, <3>4, AccountsKept
  <2>3. ASSUME NEW s \in Slots, SweepRolledBack(s) PROVE RerunsArePaidFor'
    BY <2>3, AccountsUntouched DEF SweepRolledBack, rows
  <2>4. ASSUME NEW s \in Slots, SweepFails(s) PROVE RerunsArePaidFor'
    BY <2>4, AccountsUntouched DEF SweepFails, rows
  <2>5. ASSUME NEW s \in Slots, Claim(s) PROVE RerunsArePaidFor'
    <3>1. PICK t \in Tasks : /\ Claimable(t)
                            /\ status' = [status EXCEPT ![t] = "in_progress"]
                            /\ claims' = [claims EXCEPT ![t] = @ + 1]
      BY <2>5 DEF Claim
    <3>2. UNCHANGED <<retry, regens>>
      BY <2>5 DEF Claim
    <3> SUFFICES ASSUME NEW u \in Tasks
                 PROVE  claims'[u] + (IF Queued(u)' THEN 1 ELSE 0) <= 1 + retry'[u] + regens'[u]
      BY DEF RerunsArePaidFor
    <3>3. claims[u] + (IF Queued(u) THEN 1 ELSE 0) <= 1 + retry[u] + regens[u]
      BY DEF RerunsArePaidFor
    <3> claims[u] \in Nat /\ retry[u] \in Nat /\ regens[u] \in Nat
      BY DEF RowsOK
    <3>4. CASE u = t
      <4>1. Queued(u) /\ ~Queued(u)' /\ claims'[u] = claims[u] + 1
        BY <3>1, <3>4 DEF RowsOK, Claimable, Queued
      <4> QED
        BY <3>2, <3>3, <4>1
    <3>5. CASE u # t
      <4>1. (Queued(u)' <=> Queued(u)) /\ claims'[u] = claims[u]
        BY <3>1, <3>5 DEF RowsOK, Queued
      <4> QED
        BY <3>2, <3>3, <4>1
    <3> QED
      BY <3>4, <3>5
  <2>6. ASSUME NEW s \in Slots, ClaimNothing(s) PROVE RerunsArePaidFor'
    BY <2>6, AccountsUntouched DEF ClaimNothing, rows
  <2>7. ASSUME NEW s \in Slots, Start(s) PROVE RerunsArePaidFor'
    BY <2>7, AccountsUntouched DEF Start, rows
  <2>8. ASSUME NEW s \in Slots, FlowCrashes(s) PROVE RerunsArePaidFor'
    BY <2>8, AccountsUntouched DEF FlowCrashes, rows
  <2>9. ASSUME NEW s \in Slots, CrashWrite(s) PROVE RerunsArePaidFor'
    <3>1. job[s] \in Tasks /\ want[s].to \in {"awaiting_approval", "failed"}
      BY <2>9 DEF CrashWrite, ProcsOK
    <3> QED
      BY <3>1, <2>9, AccountsKept DEF CrashWrite, SetStatus, Queued, RowsOK, rows
  <2>10. ASSUME NEW s \in Slots, RegistryFault(s) PROVE RerunsArePaidFor'
    BY <2>10, AccountsUntouched DEF RegistryFault, rows
  <2>11. ASSUME NEW s \in Slots, NodeRaises(s) PROVE RerunsArePaidFor'
    BY <2>11, AccountsUntouched DEF NodeRaises, rows
  <2>12. ASSUME NEW s \in Slots, QaApprove(s) PROVE RerunsArePaidFor'
    BY <2>12, AccountsUntouched DEF QaApprove, rows
  <2>13. ASSUME NEW s \in Slots, QaPassUnmarked(s) PROVE RerunsArePaidFor'
    BY <2>13, AccountsUntouched DEF QaPassUnmarked, rows
  <2>14. ASSUME NEW s \in Slots, QaReject(s) PROVE RerunsArePaidFor'
    BY <2>14, AccountsUntouched DEF QaReject, rows
  <2>15. ASSUME NEW s \in Slots, PersistTask(s) PROVE RerunsArePaidFor'
    BY <2>15, NothingQueued DEF PersistTask, Passes, SetStatus, Queued, RowsOK, ProcsOK, rows
  <2>16. ASSUME NEW s \in Slots, Finalize(s) PROVE RerunsArePaidFor'
    BY <2>16, NothingQueued DEF Finalize, SetStatus, Queued, RowsOK, ProcsOK, rows
  <2>17. ASSUME NEW s \in Slots, PostPipeline(s) PROVE RerunsArePaidFor'
    BY <2>17, AccountsUntouched DEF PostPipeline, rows
  <2>18. ASSUME NEW s \in Slots, Kill(s) PROVE RerunsArePaidFor'
    BY <2>18, AccountsUntouched DEF Kill, rows
  <2>19. ASSUME NEW s \in Slots, Heartbeat(s) PROVE RerunsArePaidFor'
    BY <2>19, AccountsUntouched DEF Heartbeat, rows
  <2>20. ASSUME NEW p \in Procs, UpdSelect(p) PROVE RerunsArePaidFor'
    BY <2>20, AccountsUntouched DEF UpdSelect, rows
  <2>21. ASSUME NEW p \in Procs, UpdWrite(p) PROVE RerunsArePaidFor'
    <3>1. job[p] \in Tasks /\ UNCHANGED <<claims, retry>>
      BY <2>21 DEF UpdWrite, ProcsOK
    <3>2. CASE want[p].to = "rejected_retry"
      <4>1. regens' = [regens EXCEPT ![job[p]] = regens[job[p]] + 1]
        BY <3>2, <2>21 DEF UpdWrite
      <4>2. status' = [status EXCEPT ![job[p]] = "rejected_retry"]
        BY <3>2, <2>21 DEF UpdWrite, SetStatus
      <4>3. ASSUME NEW t \in Tasks
            PROVE  /\ retry'[t] >= retry[t] /\ regens'[t] >= regens[t]
                   /\ Queued(t)' => \/ Queued(t)
                                   \/ retry'[t] + regens'[t] > retry[t] + regens[t]
        <5>1. retry[t] \in Nat /\ regens[t] \in Nat /\ retry'[t] = retry[t]
          BY <3>1 DEF RowsOK
        <5>2. CASE t = job[p]
          <6>1. regens'[t] = regens[t] + 1
            BY <4>1, <5>2 DEF RowsOK
          <6> QED
            BY <5>1, <6>1
        <5>3. CASE t # job[p]
          <6>1. regens'[t] = regens[t] /\ status'[t] = status[t]
            BY <4>1, <4>2, <5>3 DEF RowsOK
          <6> QED
            BY <5>1, <6>1 DEF Queued
        <5> QED
          BY <5>2, <5>3
      <4> QED
        BY <3>1, <4>3, AccountsKept
    <3>3. CASE want[p].to # "rejected_retry"
      <4>1. UNCHANGED regens
        BY <3>3, <2>21 DEF UpdWrite
      <4>2. status' = [status EXCEPT ![job[p]] = want[p].to]
        BY <2>21 DEF UpdWrite, SetStatus
      <4>3. want[p].to \in Outcomes
        BY <2>21 DEF UpdWrite, ProcsOK
      <4> QED
        BY <3>1, <3>3, <4>1, <4>2, <4>3, AccountsKept DEF RowsOK, Queued, Outcomes
    <3> QED
      BY <3>2, <3>3
  <2>22. ASSUME NEW p \in Procs, UpdFails(p) PROVE RerunsArePaidFor'
    BY <2>22, AccountsUntouched DEF UpdFails, rows
  <2>23. ASSUME NEW t \in Tasks, GetsOld(t) PROVE RerunsArePaidFor'
    BY <2>23, AccountsUntouched DEF GetsOld, rows
  <2>24. ASSUME NEW t \in Tasks, BrainExpire(t) PROVE RerunsArePaidFor'
    BY <2>24, NothingQueued DEF BrainExpire, SetStatus, Queued, RowsOK, ProcsOK, rows
  <2>25. ASSUME NEW t \in Tasks, OpReject(t) PROVE RerunsArePaidFor'
    BY <2>25, AccountsUntouched DEF OpReject, rows
  <2>26. ASSUME NEW t \in Tasks, OpFinal(t) PROVE RerunsArePaidFor'
    BY <2>26, AccountsUntouched DEF OpFinal, rows
  <2>27. ASSUME NEW t \in Tasks, OpApprove(t) PROVE RerunsArePaidFor'
    BY <2>27, AccountsUntouched DEF OpApprove, rows
  <2>28. ASSUME NEW t \in Tasks, OpCancel(t) PROVE RerunsArePaidFor'
    BY <2>28, NothingQueued DEF OpCancel, SetStatus, Queued, RowsOK, ProcsOK, rows
  <2>29. CASE BrainReap
    BY <2>29, NothingQueued DEF BrainReap, Queued, RowsOK, ProcsOK, rows
  <2>30. CASE OpFinalWrite
    BY <2>30, NothingQueued DEF OpFinalWrite, SetStatus, Queued, RowsOK, ProcsOK, rows
  <2>31. CASE OpClear
    BY <2>31, AccountsUntouched DEF OpClear, rows
  <2>32. CASE OpApproveWrite
    BY <2>32, NothingQueued DEF OpApproveWrite, SetStatus, Queued, RowsOK, ProcsOK, rows
  <2>33. CASE UNCHANGED vars
    BY <2>33, AccountsUntouched DEF vars, rows
  <2> QED
    BY <2>1, <2>2, <2>3, <2>4, <2>5, <2>6, <2>7, <2>8, <2>9, <2>10, <2>11, <2>12, <2>13, <2>14, <2>15, <2>16, <2>17, <2>18, <2>19, <2>20, <2>21, <2>22, <2>23, <2>24, <2>25, <2>26, <2>27, <2>28, <2>29, <2>30, <2>31, <2>32, <2>33 DEF Next, Sweep, Run, Fault, Upd, Operate, OpStep
<1> QED
  BY <1>1, <1>2, TypeCorrect, PTL DEF Spec

------------------------------------------------------------------------------
(* ResetsAreBounded. *)

LEMMA SlotsAreFinite ==
  IsFiniteSet(Slots) /\ Cardinality(Slots) \in Nat /\ Cardinality(Slots) >= 1
<1>1. PICK s : s \in Slots
  BY ConstantsAssumption
<1>2. IsFiniteSet({s}) /\ Cardinality({s}) = 1
  BY FS_Singleton
<1> QED
  BY <1>1, <1>2, ConstantsAssumption, FS_CardinalityType, FS_Subset

LEMMA PendingIsFinite ==
  ASSUME NEW t \in Tasks
  PROVE  /\ PendingResets(t) \subseteq Slots
         /\ IsFiniteSet(PendingResets(t)) /\ Cardinality(PendingResets(t)) \in Nat
BY SlotsAreFinite, FS_Subset, FS_CardinalityType DEF PendingResets

\* Losing pending resets of a task without charging it keeps its bound.
LEMMA FewerPending ==
  ASSUME RowsOK, ResetsAreBounded, NEW t \in Tasks, retry'[t] = retry[t],
         PendingResets(t)' \subseteq PendingResets(t)
  PROVE  retry'[t] + Cardinality(PendingResets(t)') <= MaxRetries - 1 + Cardinality(Slots)
<1>1. retry[t] + Cardinality(PendingResets(t)) <= MaxRetries - 1 + Cardinality(Slots)
  BY DEF ResetsAreBounded
<1>2. /\ Cardinality(PendingResets(t)') \in Nat /\ Cardinality(PendingResets(t)) \in Nat
      /\ Cardinality(PendingResets(t)') <= Cardinality(PendingResets(t))
  BY PendingIsFinite, FS_Subset, FS_CardinalityType
<1>3. retry[t] \in Nat
  BY DEF RowsOK
<1> QED
  BY <1>1, <1>2, <1>3, SlotsAreFinite, ConstantsAssumption

LEMMA NoNewResets ==
  ASSUME RowsOK, ResetsAreBounded, UNCHANGED retry,
         \A s \in Slots : pc'[s] = "sweep" => pc[s] = "sweep" /\ swept'[s] = swept[s]
  PROVE  ResetsAreBounded'
<1> SUFFICES ASSUME NEW t \in Tasks
             PROVE  retry'[t] + Cardinality(PendingResets(t)') <= MaxRetries - 1 + Cardinality(Slots)
  BY DEF ResetsAreBounded
<1>1. PendingResets(t)' \subseteq PendingResets(t)
  BY DEF PendingResets
<1> QED
  BY <1>1, FewerPending

\* However many flow runs sweep at once, a task is reset at most
\* max_retries - 1 + (number of slots) times.
THEOREM ResetsBounded == Spec => []ResetsAreBounded
<1> USE ConstantsAssumption DEF Procs
<1>1. Init => ResetsAreBounded
  <2> SUFFICES ASSUME Init, NEW t \in Tasks
               PROVE  retry[t] + Cardinality(PendingResets(t)) <= MaxRetries - 1 + Cardinality(Slots)
    BY DEF ResetsAreBounded
  <2>1. PendingResets(t) = {} /\ retry[t] = 0
    BY DEF Init, PendingResets
  <2> QED
    BY <2>1, FS_EmptySet, SlotsAreFinite
<1>2. TypeOK /\ TypeOK' /\ ResetsAreBounded /\ [Next]_vars => ResetsAreBounded'
  <2> SUFFICES ASSUME RowsOK, ProcsOK, RowsOK', ResetsAreBounded, [Next]_vars
               PROVE  ResetsAreBounded'
    BY DEF TypeOK
  <2>1. ASSUME NEW s \in Slots, SweepRead(s) PROVE ResetsAreBounded'
    <3> SUFFICES ASSUME NEW t \in Tasks
                 PROVE  retry'[t] + Cardinality(PendingResets(t)') <= MaxRetries - 1 + Cardinality(Slots)
      BY DEF ResetsAreBounded
    <3>1. /\ retry'[t] = retry[t] /\ retry[t] \in Nat
          /\ Cardinality(PendingResets(t)') \in Nat
          /\ Cardinality(PendingResets(t)') <= Cardinality(Slots)
      <4>1. PendingResets(t)' \subseteq Slots
        BY DEF PendingResets
      <4>2. retry'[t] = retry[t] /\ retry[t] \in Nat
        BY <2>1 DEF SweepRead, RowsOK
      <4> QED
        BY <4>1, <4>2, SlotsAreFinite, FS_Subset, FS_CardinalityType
    <3>2. CASE Bucket(t) = "reset"
      <4>1. retry[t] < MaxRetries
        BY <3>2 DEF Bucket
      <4> QED
        BY <3>1, <4>1, SlotsAreFinite, ConstantsAssumption
    <3>3. CASE Bucket(t) # "reset"
      <4>1. PendingResets(t)' \subseteq PendingResets(t)
        BY <2>1, <3>3 DEF SweepRead, PendingResets, Goto, ProcsOK
      <4> QED
        BY <3>1, <4>1, FewerPending
    <3> QED
      BY <3>2, <3>3
  <2>2. ASSUME NEW s \in Slots, SweepWrite(s) PROVE ResetsAreBounded'
    <3> SUFFICES ASSUME NEW t \in Tasks
                 PROVE  retry'[t] + Cardinality(PendingResets(t)') <= MaxRetries - 1 + Cardinality(Slots)
      BY DEF ResetsAreBounded
    <3>1. PendingResets(t)' = PendingResets(t) \ {s}
      BY <2>2 DEF SweepWrite, PendingResets, Goto, ProcsOK
    <3>2. retry'[t] = IF swept[s][t] = "reset" THEN retry[t] + 1 ELSE retry[t]
      BY <2>2 DEF SweepWrite, RetryAfter
    <3>3. /\ retry[t] \in Nat
          /\ retry[t] + Cardinality(PendingResets(t)) <= MaxRetries - 1 + Cardinality(Slots)
      BY DEF RowsOK, ResetsAreBounded
    <3>4. CASE swept[s][t] = "reset"
      <4>1. s \in PendingResets(t)
        BY <2>2, <3>4 DEF SweepWrite, PendingResets
      <4>2. Cardinality(PendingResets(t)') = Cardinality(PendingResets(t)) - 1
        BY <3>1, <4>1, PendingIsFinite, FS_RemoveElement
      <4>3. Cardinality(PendingResets(t)) \in Nat
        BY PendingIsFinite
      <4>4. retry'[t] = retry[t] + 1
        BY <3>2, <3>4
      <4> QED
        BY <3>3, <4>2, <4>3, <4>4, SlotsAreFinite, ConstantsAssumption
    <3>5. CASE swept[s][t] # "reset"
      <4>1. PendingResets(t)' \subseteq PendingResets(t)
        BY <3>1
      <4> QED
        BY <3>2, <3>5, <4>1, FewerPending
    <3> QED
      BY <3>4, <3>5
  <2>3. ASSUME NEW s \in Slots, SweepRolledBack(s) PROVE ResetsAreBounded'
    BY <2>3, NoNewResets DEF SweepRolledBack, Goto, Exit, Update, Return, Unswept, Writes, ProcsOK
  <2>4. ASSUME NEW s \in Slots, SweepFails(s) PROVE ResetsAreBounded'
    BY <2>4, NoNewResets DEF SweepFails, Goto, Exit, Update, Return, Unswept, Writes, ProcsOK
  <2>5. ASSUME NEW s \in Slots, Claim(s) PROVE ResetsAreBounded'
    BY <2>5, NoNewResets DEF Claim, Goto, Exit, Update, Return, Unswept, Writes, ProcsOK
  <2>6. ASSUME NEW s \in Slots, ClaimNothing(s) PROVE ResetsAreBounded'
    BY <2>6, NoNewResets DEF ClaimNothing, Goto, Exit, Update, Return, Unswept, Writes, ProcsOK
  <2>7. ASSUME NEW s \in Slots, Start(s) PROVE ResetsAreBounded'
    BY <2>7, NoNewResets DEF Start, Goto, Exit, Update, Return, Unswept, Writes, ProcsOK
  <2>8. ASSUME NEW s \in Slots, FlowCrashes(s) PROVE ResetsAreBounded'
    BY <2>8, NoNewResets DEF FlowCrashes, Goto, Exit, Update, Return, Unswept, Writes, ProcsOK
  <2>9. ASSUME NEW s \in Slots, CrashWrite(s) PROVE ResetsAreBounded'
    BY <2>9, NoNewResets DEF CrashWrite, Goto, Exit, Update, Return, Unswept, Writes, ProcsOK
  <2>10. ASSUME NEW s \in Slots, RegistryFault(s) PROVE ResetsAreBounded'
    BY <2>10, NoNewResets DEF RegistryFault, Goto, Exit, Update, Return, Unswept, Writes, ProcsOK
  <2>11. ASSUME NEW s \in Slots, NodeRaises(s) PROVE ResetsAreBounded'
    BY <2>11, NoNewResets DEF NodeRaises, Goto, Exit, Update, Return, Unswept, Writes, ProcsOK
  <2>12. ASSUME NEW s \in Slots, QaApprove(s) PROVE ResetsAreBounded'
    BY <2>12, NoNewResets DEF QaApprove, Goto, Exit, Update, Return, Unswept, Writes, ProcsOK
  <2>13. ASSUME NEW s \in Slots, QaPassUnmarked(s) PROVE ResetsAreBounded'
    BY <2>13, NoNewResets DEF QaPassUnmarked, Goto, Exit, Update, Return, Unswept, Writes, ProcsOK
  <2>14. ASSUME NEW s \in Slots, QaReject(s) PROVE ResetsAreBounded'
    BY <2>14, NoNewResets DEF QaReject, Goto, Exit, Update, Return, Unswept, Writes, ProcsOK
  <2>15. ASSUME NEW s \in Slots, PersistTask(s) PROVE ResetsAreBounded'
    BY <2>15, NoNewResets DEF PersistTask, Goto, Exit, Update, Return, Unswept, Writes, ProcsOK
  <2>16. ASSUME NEW s \in Slots, Finalize(s) PROVE ResetsAreBounded'
    BY <2>16, NoNewResets DEF Finalize, Goto, Exit, Update, Return, Unswept, Writes, ProcsOK
  <2>17. ASSUME NEW s \in Slots, PostPipeline(s) PROVE ResetsAreBounded'
    BY <2>17, NoNewResets DEF PostPipeline, Goto, Exit, Update, Return, Unswept, Writes, ProcsOK
  <2>18. ASSUME NEW s \in Slots, Kill(s) PROVE ResetsAreBounded'
    BY <2>18, NoNewResets DEF Kill, Goto, Exit, Update, Return, Unswept, Writes, ProcsOK
  <2>19. ASSUME NEW s \in Slots, Heartbeat(s) PROVE ResetsAreBounded'
    BY <2>19, NoNewResets DEF Heartbeat, Goto, Exit, Update, Return, Unswept, Writes, ProcsOK
  <2>20. ASSUME NEW p \in Procs, UpdSelect(p) PROVE ResetsAreBounded'
    BY <2>20, NoNewResets DEF UpdSelect, Goto, Exit, Update, Return, Unswept, Writes, ProcsOK
  <2>21. ASSUME NEW p \in Procs, UpdWrite(p) PROVE ResetsAreBounded'
    BY <2>21, NoNewResets DEF UpdWrite, Goto, Exit, Update, Return, Unswept, Writes, ProcsOK
  <2>22. ASSUME NEW p \in Procs, UpdFails(p) PROVE ResetsAreBounded'
    BY <2>22, NoNewResets DEF UpdFails, Goto, Exit, Update, Return, Unswept, Writes, ProcsOK
  <2>23. ASSUME NEW t \in Tasks, GetsOld(t) PROVE ResetsAreBounded'
    BY <2>23, NoNewResets DEF GetsOld, Goto, Exit, Update, Return, Unswept, Writes, ProcsOK
  <2>24. ASSUME NEW t \in Tasks, BrainExpire(t) PROVE ResetsAreBounded'
    BY <2>24, NoNewResets DEF BrainExpire, Goto, Exit, Update, Return, Unswept, Writes, ProcsOK
  <2>25. ASSUME NEW t \in Tasks, OpReject(t) PROVE ResetsAreBounded'
    BY <2>25, NoNewResets DEF OpReject, Goto, Exit, Update, Return, Unswept, Writes, ProcsOK
  <2>26. ASSUME NEW t \in Tasks, OpFinal(t) PROVE ResetsAreBounded'
    BY <2>26, NoNewResets DEF OpFinal, Goto, Exit, Update, Return, Unswept, Writes, ProcsOK
  <2>27. ASSUME NEW t \in Tasks, OpApprove(t) PROVE ResetsAreBounded'
    BY <2>27, NoNewResets DEF OpApprove, Goto, Exit, Update, Return, Unswept, Writes, ProcsOK
  <2>28. ASSUME NEW t \in Tasks, OpCancel(t) PROVE ResetsAreBounded'
    BY <2>28, NoNewResets DEF OpCancel, Goto, Exit, Update, Return, Unswept, Writes, ProcsOK
  <2>29. CASE BrainReap
    BY <2>29, NoNewResets DEF BrainReap, Goto, Exit, Update, Return, Unswept, Writes, ProcsOK
  <2>30. CASE OpFinalWrite
    BY <2>30, NoNewResets DEF OpFinalWrite, Goto, Exit, Update, Return, Unswept, Writes, ProcsOK
  <2>31. CASE OpClear
    BY <2>31, NoNewResets DEF OpClear, Goto, Exit, Update, Return, Unswept, Writes, ProcsOK
  <2>32. CASE OpApproveWrite
    BY <2>32, NoNewResets DEF OpApproveWrite, Goto, Exit, Update, Return, Unswept, Writes, ProcsOK
  <2>33. CASE UNCHANGED vars
    BY <2>33, NoNewResets DEF vars, rows
  <2> QED
    BY <2>1, <2>2, <2>3, <2>4, <2>5, <2>6, <2>7, <2>8, <2>9, <2>10, <2>11, <2>12, <2>13, <2>14, <2>15, <2>16, <2>17, <2>18, <2>19, <2>20, <2>21, <2>22, <2>23, <2>24, <2>25, <2>26, <2>27, <2>28, <2>29, <2>30, <2>31, <2>32, <2>33 DEF Next, Sweep, Run, Fault, Upd, Operate, OpStep
<1> QED
  BY <1>1, <1>2, TypeCorrect, PTL DEF Spec

------------------------------------------------------------------------------
(* What the two bounds come to. *)

\* The model calls one task costs are bounded: as often as the sweeps may reset
\* it, and once more for each redraft the operator asks for.
GenerationsAreBounded ==
  \A t \in Tasks : claims[t] <= MaxRetries + Cardinality(Slots) + regens[t]

\* Whatever dies, stalls, overlaps or fails, no task is generated for ever.
THEOREM GenerationsBounded == Spec => []GenerationsAreBounded
<1>1. TypeOK /\ RerunsArePaidFor /\ ResetsAreBounded => GenerationsAreBounded
  <2> SUFFICES ASSUME TypeOK, RerunsArePaidFor, ResetsAreBounded, NEW t \in Tasks
               PROVE  claims[t] <= MaxRetries + Cardinality(Slots) + regens[t]
    BY DEF GenerationsAreBounded
  <2>1. claims[t] \in Nat /\ retry[t] \in Nat /\ regens[t] \in Nat /\ MaxRetries \in Nat
    BY ConstantsAssumption DEF TypeOK, RowsOK
  <2>2. claims[t] <= 1 + retry[t] + regens[t]
    <3>1. claims[t] + (IF Queued(t) THEN 1 ELSE 0) <= 1 + retry[t] + regens[t]
      BY DEF RerunsArePaidFor
    <3> QED
      BY <2>1, <3>1
  <2>3. retry[t] <= MaxRetries - 1 + Cardinality(Slots)
    <3>1. retry[t] + Cardinality(PendingResets(t)) <= MaxRetries - 1 + Cardinality(Slots)
      BY DEF ResetsAreBounded
    <3> QED
      BY <2>1, <3>1, PendingIsFinite, SlotsAreFinite
  <2> QED
    BY <2>1, <2>2, <2>3, SlotsAreFinite
<1> QED
  BY <1>1, TypeCorrect, RerunsCharged, ResetsBounded, PTL
==============================================================================
