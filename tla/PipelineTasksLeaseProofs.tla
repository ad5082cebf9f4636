----------------------- MODULE PipelineTasksLeaseProofs -----------------------
(***************************************************************************)
(* Why in_progress is a lease. As long as sweeps do not overlap and        *)
(* heartbeats arrive, a task in the queue, or in a sweep's buckets, has no *)
(* run; and a task that has a run has only one. From that, why a draft     *)
(* that QA has approved is not generated again or failed behind the        *)
(* operator's back.                                                        *)
(***************************************************************************)
EXTENDS PipelineTasksLease, PipelineTasksProofs

NoRedrafts ==
  /\ \A t \in Tasks : status[t] # "rejected_retry"
  /\ \A p \in Procs : want[p].to # "rejected_retry"

OneSweeper == \A r, s \in Slots : pc[r] = "sweep" /\ pc[s] = "sweep" => r = s

BetweenJobs == \A s \in Slots : pc[s] \in {"idle", "sweep", "claim"} => job[s] = NoTask

OneRun == \A r, s \in Slots : job[r] = job[s] /\ job[r] # NoTask => r = s

QueuedHasNoRun == \A t \in Tasks : status[t] = "pending" => ~Attended(t)

SweptHasNoRun ==
  \A s \in Slots, t \in Tasks :
    pc[s] = "sweep" /\ swept[s][t] # "none" => ~Attended(t) /\ status[t] # "pending"

AttendedIsFresh ==
  \A t \in Tasks : Attended(t) /\ status[t] = "in_progress" => age[t] = 0

\* The inductive invariant behind SoleProducer and ImplementsLeasedQueue.
LeaseInv ==
  /\ NoRedrafts /\ OneSweeper /\ BetweenJobs /\ OneRun
  /\ QueuedHasNoRun /\ SweptHasNoRun /\ AttendedIsFresh

------------------------------------------------------------------------------
(* Most steps only let go of tasks. *)

\* No run gets a task, no sweep starts, and no task comes into the queue or
\* into work, or grows old under a run.
Quiet ==
  /\ \A s \in Slots : job'[s] \in {job[s], NoTask}
  /\ \A s \in Slots : pc'[s] = "sweep" => pc[s] = "sweep" /\ swept'[s] = swept[s]
  /\ \A t \in Tasks : status'[t] = "pending" => status[t] = "pending"
  /\ \A t \in Tasks : status'[t] = "in_progress" =>
       status[t] = "in_progress" /\ (age'[t] \in {0, age[t]} \/ ~Attended(t))

\* A quiet step keeps the invariant.
LEMMA QuietKeepsLeases ==
  ASSUME LeaseInv, Quiet, NoRedrafts', BetweenJobs'
  PROVE  LeaseInv'
<1> USE ConstantsAssumption DEF LeaseInv, Quiet
<1>1. \A t \in Tasks : Attended(t)' => Attended(t)
  BY DEF Attended
<1>2. OneSweeper'
  BY DEF OneSweeper
<1>3. OneRun'
  BY DEF OneRun
<1>4. QueuedHasNoRun' /\ AttendedIsFresh'
  BY <1>1 DEF QueuedHasNoRun, AttendedIsFresh
<1>5. SweptHasNoRun'
  BY <1>1 DEF SweptHasNoRun
<1> QED
  BY <1>2, <1>3, <1>4, <1>5

\* All steps but SweepRead, SweepWrite and Claim are quiet.
LEMMA QuietSteps ==
  ASSUME MaxRegens = 0, "stall" \notin Events, TypeOK, LeaseInv, [Next]_vars,
         ~\E s \in Slots : SweepRead(s) \/ SweepWrite(s) \/ Claim(s)
  PROVE  Quiet /\ NoRedrafts' /\ BetweenJobs'
<1> USE ConstantsAssumption DEF TypeOK, RowsOK, ProcsOK, LeaseInv, NoRedrafts, BetweenJobs, Quiet, Procs
<1> DEFINE Goal == Quiet /\ NoRedrafts' /\ BetweenJobs'
<1>1. ASSUME NEW s \in Slots, SweepRolledBack(s) PROVE Goal
  BY <1>1 DEF SweepRolledBack, rows, Goto
<1>2. ASSUME NEW s \in Slots, SweepFails(s) PROVE Goal
  BY <1>2 DEF SweepFails, rows, Goto
<1>3. ASSUME NEW s \in Slots, ClaimNothing(s) PROVE Goal
  BY <1>3 DEF ClaimNothing, rows, Goto
<1>4. ASSUME NEW s \in Slots, Start(s) PROVE Goal
  BY <1>4 DEF Start, rows, Goto
<1>5. ASSUME NEW s \in Slots, FlowCrashes(s) PROVE Goal
  BY <1>5 DEF FlowCrashes, rows, Goto
<1>6. ASSUME NEW s \in Slots, CrashWrite(s) PROVE Goal
  BY <1>6 DEF CrashWrite, rows, SetStatus, Goto, Exit, NoWrite, Writes, Outcomes
<1>7. ASSUME NEW s \in Slots, RegistryFault(s) PROVE Goal
  BY <1>7 DEF RegistryFault, rows, Goto, Update
<1>8. ASSUME NEW s \in Slots, NodeRaises(s) PROVE Goal
  BY <1>8 DEF NodeRaises, rows, Goto, Update
<1>9. ASSUME NEW s \in Slots, QaApprove(s) PROVE Goal
  BY <1>9 DEF QaApprove, rows, Goto
<1>10. ASSUME NEW s \in Slots, QaPassUnmarked(s) PROVE Goal
  BY <1>10 DEF QaPassUnmarked, rows, Goto
<1>11. ASSUME NEW s \in Slots, QaReject(s) PROVE Goal
  BY <1>11 DEF QaReject, rows, Goto, Update
<1>12. ASSUME NEW s \in Slots, PersistTask(s) PROVE Goal
  BY <1>12 DEF PersistTask, rows, SetStatus, Goto, Update
<1>13. ASSUME NEW s \in Slots, Finalize(s) PROVE Goal
  BY <1>13 DEF Finalize, rows, SetStatus, Goto
<1>14. ASSUME NEW s \in Slots, PostPipeline(s) PROVE Goal
  <2>1. CASE Exit(s)
    BY <1>14, <2>1 DEF PostPipeline, rows, Exit, Goto, NoWrite
  <2>2. CASE Update(s, "rejected", "curator", "idle")
    BY <1>14, <2>2 DEF PostPipeline, rows, Update, Goto
  <2> QED
    BY <1>14, <2>1, <2>2 DEF PostPipeline
<1>15. ASSUME NEW s \in Slots, Kill(s) PROVE Goal
  BY <1>15 DEF Kill, rows, Goto, Exit, NoWrite
<1>16. ASSUME NEW s \in Slots, Heartbeat(s) PROVE Goal
  BY <1>16 DEF Heartbeat
<1>17. ASSUME NEW p \in Procs, UpdSelect(p) PROVE Goal
  <2>1. CASE Return(p)
    BY <1>17, <2>1 DEF UpdSelect, rows, Goto, Return, NoWrite, Writes, Outcomes
  <2>2. CASE Goto(p, "write") /\ UNCHANGED <<job, want>>
    BY <1>17, <2>2 DEF UpdSelect, rows, Goto
  <2> QED
    BY <1>17, <2>1, <2>2 DEF UpdSelect
<1>18. ASSUME NEW p \in Procs, UpdWrite(p) PROVE Goal
  BY <1>18 DEF UpdWrite, SetStatus, Goto, Return, NoWrite, Writes, Outcomes
<1>19. ASSUME NEW p \in Procs, UpdFails(p) PROVE Goal
  BY <1>19 DEF UpdFails, rows, Goto, Return, NoWrite, Writes, Outcomes
<1>20. ASSUME NEW t \in Tasks, GetsOld(t) PROVE Goal
  BY <1>20 DEF GetsOld
<1>21. ASSUME NEW t \in Tasks, BrainExpire(t) PROVE Goal
  BY <1>21 DEF BrainExpire, SetStatus
<1>22. ASSUME NEW t \in Tasks, OpReject(t) PROVE Goal
  BY <1>22 DEF OpReject, rows, Goto, Writes, Outcomes
<1>23. ASSUME NEW t \in Tasks, OpFinal(t) PROVE Goal
  BY <1>23 DEF OpFinal, rows, Goto
<1>24. ASSUME NEW t \in Tasks, OpApprove(t) PROVE Goal
  BY <1>24 DEF OpApprove, rows, Goto
<1>25. ASSUME NEW t \in Tasks, OpCancel(t) PROVE Goal
  BY <1>25 DEF OpCancel, SetStatus
<1>26. CASE BrainReap
  BY <1>26 DEF BrainReap
<1>27. CASE OpFinalWrite
  BY <1>27 DEF OpFinalWrite, rows, SetStatus, Goto, Exit, NoWrite
<1>28. CASE OpClear
  BY <1>28 DEF OpClear, rows, Goto, Exit, NoWrite
<1>29. CASE OpApproveWrite
  BY <1>29 DEF OpApproveWrite, rows, SetStatus, Goto, Exit, NoWrite
<1>30. CASE UNCHANGED vars
  BY <1>30 DEF vars, rows
<1> QED
  BY <1>1, <1>2, <1>3, <1>4, <1>5, <1>6, <1>7, <1>8, <1>9, <1>10, <1>11, <1>12, <1>13, <1>14, <1>15, <1>16, <1>17, <1>18, <1>19, <1>20, <1>21, <1>22, <1>23, <1>24, <1>25, <1>26, <1>27, <1>28, <1>29, <1>30 DEF Next, Sweep, Run, Fault, Upd, Operate, OpStep

------------------------------------------------------------------------------
(* The three steps that matter. *)

\* The invariant is inductive.
LEMMA LeaseInvInductive ==
  ASSUME MaxRegens = 0, "stall" \notin Events, "overlap" \notin Events,
         TypeOK, LeaseInv, [Next]_vars
  PROVE  LeaseInv'
<1> USE ConstantsAssumption DEF TypeOK, RowsOK, ProcsOK, LeaseInv, Procs
\* What is swept is in_progress and stale, so no run attends to it.
<1>1. ASSUME NEW s \in Slots, SweepRead(s) PROVE LeaseInv'
  <2>1. UNCHANGED <<status, age, job, want>>
    BY <1>1 DEF SweepRead, rows
  <2>2. NoRedrafts' /\ BetweenJobs' /\ OneRun' /\ QueuedHasNoRun' /\ AttendedIsFresh'
    BY <1>1, <2>1 DEF SweepRead, Goto, NoRedrafts, BetweenJobs, OneRun, QueuedHasNoRun,
                      AttendedIsFresh, Attended
  <2>3. OneSweeper'
    BY <1>1 DEF SweepRead, Goto, OneSweeper
  <2>4. \A t \in Tasks : swept'[s][t] # "none" => ~Attended(t) /\ status[t] = "in_progress"
    BY <1>1 DEF SweepRead, Bucket, Stale, AttendedIsFresh
  <2>5. SweptHasNoRun'
    BY <1>1, <2>1, <2>4 DEF SweepRead, Goto, SweptHasNoRun, Attended
  <2> QED
    BY <2>2, <2>3, <2>5
\* Only what has no run comes into the queue.
<1>2. ASSUME NEW s \in Slots, SweepWrite(s) PROVE LeaseInv'
  <2>1. UNCHANGED <<job, want, swept>>
    BY <1>2 DEF SweepWrite
  <2>2. \A t \in Tasks : swept[s][t] # "none" => ~Attended(t)
    BY <1>2 DEF SweepWrite, SweptHasNoRun
  <2>3. \A r \in Slots : pc'[r] # "sweep"
    BY <1>2 DEF SweepWrite, Goto, OneSweeper
  <2>4. \A t \in Tasks :
          /\ status'[t] \in {status[t], "awaiting_approval", "pending", "failed"}
          /\ swept[s][t] = "none" => status'[t] = status[t] /\ age'[t] = age[t]
    BY <1>2 DEF SweepWrite
  <2>5. NoRedrafts' /\ BetweenJobs' /\ OneRun'
    BY <1>2, <2>1, <2>4 DEF SweepWrite, Goto, NoRedrafts, BetweenJobs, OneRun
  <2>6. QueuedHasNoRun' /\ AttendedIsFresh'
    BY <2>1, <2>2, <2>4 DEF QueuedHasNoRun, AttendedIsFresh, Attended
  <2> QED
    BY <2>3, <2>5, <2>6 DEF OneSweeper, SweptHasNoRun
\* A claimed task was in the queue: it had no run, and was in no bucket.
<1>3. ASSUME NEW s \in Slots, Claim(s) PROVE LeaseInv'
  <2>1. PICK t \in Tasks : /\ status[t] = "pending"
                          /\ status' = [status EXCEPT ![t] = "in_progress"]
                          /\ age' = [age EXCEPT ![t] = 0]
                          /\ job' = [job EXCEPT ![s] = t]
    BY <1>3 DEF Claim, Claimable, NoRedrafts
  <2>2. ~Attended(t)
    BY <2>1 DEF QueuedHasNoRun
  <2>3. job[s] = NoTask /\ UNCHANGED want
    BY <1>3 DEF Claim, BetweenJobs
  <2>4. \A r \in Slots \ {s} : job'[r] = job[r] /\ job[r] # t
    BY <2>1, <2>2 DEF Attended
  <2>5. \A u \in Tasks \ {t} : /\ Attended(u)' => Attended(u)
                              /\ status'[u] = status[u] /\ age'[u] = age[u]
    BY <2>1, <2>4 DEF Attended
  <2>6. NoRedrafts' /\ BetweenJobs' /\ OneSweeper'
    BY <1>3, <2>1, <2>3 DEF Claim, Goto, NoRedrafts, BetweenJobs, OneSweeper
  <2>7. OneRun'
    BY <2>1, <2>4 DEF OneRun
  <2>8. QueuedHasNoRun' /\ AttendedIsFresh'
    BY <2>1, <2>5 DEF QueuedHasNoRun, AttendedIsFresh
  <2>9. \A r \in Slots : pc'[r] = "sweep" => pc[r] = "sweep" /\ swept'[r] = swept[r]
    BY <1>3 DEF Claim, Goto
  <2>10. SweptHasNoRun'
    BY <2>1, <2>5, <2>9 DEF SweptHasNoRun
  <2> QED
    BY <2>6, <2>7, <2>8, <2>10
<1>4. CASE ~\E s \in Slots : SweepRead(s) \/ SweepWrite(s) \/ Claim(s)
  BY <1>4, QuietSteps, QuietKeepsLeases
<1> QED
  BY <1>1, <1>2, <1>3, <1>4

\* If sweeps do not overlap, heartbeats arrive and nothing is sent back for a
\* redraft, no task is produced twice at a time, whatever else goes wrong.
THEOREM OneProducer ==
  ASSUME MaxRegens = 0, "stall" \notin Events, "overlap" \notin Events
  PROVE  Spec => []SoleProducer
<1> USE ConstantsAssumption DEF Procs
<1>1. Init => LeaseInv
  BY DEF Init, NoWrite, LeaseInv, NoRedrafts, OneSweeper, BetweenJobs, OneRun,
         QueuedHasNoRun, SweptHasNoRun, AttendedIsFresh, Attended
<1>2. TypeOK /\ LeaseInv /\ [Next]_vars => LeaseInv'
  BY LeaseInvInductive
<1>3. LeaseInv => SoleProducer
  BY DEF LeaseInv, OneRun, SoleProducer, Producing
<1> QED
  BY <1>1, <1>2, <1>3, TypeCorrect, PTL DEF Spec

------------------------------------------------------------------------------
(* ImplementsLeasedQueue. *)

Settled(t) == status[t] \notin {"pending", "rejected_retry", "in_progress"}

SweptIsInProgress ==
  \A s \in Slots, t \in Tasks :
    pc[s] = "sweep" /\ swept[s][t] # "none" => status[t] = "in_progress"

OperatorSeesSettled ==
  \A t \in Tasks :
    job[Operator] = t /\ pc[Operator] \notin {"idle", "sweep", "claim"} => Settled(t)

RetriesLeft ==
  /\ \A t \in Tasks : retry[t] <= MaxRetries /\ regens[t] = 0
  /\ \A s \in Slots, t \in Tasks :
       pc[s] = "sweep" /\ swept[s][t] = "reset" => retry[t] < MaxRetries

\* What the refinement needs beyond LeaseInv, once neither the operator's
\* cancel nor the brain daemon takes tasks away from the runs.
QueueInv == SweptIsInProgress /\ OperatorSeesSettled /\ RetriesLeft

\* A step other than the sweep's and the claim moves at most one task, and
\* settles it, or drops it.
Local ==
  /\ UNCHANGED <<claims, retry, regens>>
  /\ \E u \in Tasks \cup {NoTask} :
       /\ \A t \in Tasks \ {u} : status'[t] = status[t]
       /\ \A s \in Slots : job'[s] = job[s] \/ job[s] = u
  /\ \A t \in Tasks : \/ status'[t] = status[t]
                      \/ Settled(t)' /\ (Settled(t) \/ Attended(t))
  /\ \A t \in Tasks :
       job'[Operator] = t /\ pc'[Operator] \notin {"idle", "sweep", "claim"}
         => Settled(t) \/ Settled(t)'

\* All steps but SweepRead, SweepWrite and Claim are local.
LEMMA LocalSteps ==
  ASSUME MaxRegens = 0, {"stall", "cancel", "brain"} \cap Events = {},
         TypeOK, LeaseInv, QueueInv, [Next]_vars,
         ~\E s \in Slots : SweepRead(s) \/ SweepWrite(s) \/ Claim(s)
  PROVE  Local
<1> USE ConstantsAssumption DEF TypeOK, RowsOK, ProcsOK, LeaseInv, NoRedrafts, BetweenJobs,
          QueueInv, OperatorSeesSettled, Settled, Local, Procs
<1>1. ASSUME NEW s \in Slots, SweepRolledBack(s) PROVE Local
  BY <1>1 DEF SweepRolledBack, rows, Attended, Goto
<1>2. ASSUME NEW s \in Slots, SweepFails(s) PROVE Local
  BY <1>2 DEF SweepFails, rows, Attended, Goto
<1>3. ASSUME NEW s \in Slots, ClaimNothing(s) PROVE Local
  BY <1>3 DEF ClaimNothing, rows, Attended, Goto
<1>4. ASSUME NEW s \in Slots, Start(s) PROVE Local
  BY <1>4 DEF Start, rows, Attended, Goto
<1>5. ASSUME NEW s \in Slots, FlowCrashes(s) PROVE Local
  BY <1>5 DEF FlowCrashes, rows, Attended, Goto
<1>6. ASSUME NEW s \in Slots, CrashWrite(s) PROVE Local
  <2>1. job[s] \in Tasks /\ want[s].to \in {"awaiting_approval", "failed"}
    BY <1>6 DEF CrashWrite, Outcomes
  <2>2. CASE SetStatus(job[s], want[s].to, want[s].why)
    BY <1>6, <2>1, <2>2 DEF CrashWrite, Attended, SetStatus, Goto, Exit, Update, NoWrite
  <2>3. CASE UNCHANGED rows
    BY <1>6, <2>1, <2>3 DEF CrashWrite, rows, Attended, Goto, Exit, Update, NoWrite
  <2> QED
    BY <1>6, <2>2, <2>3 DEF CrashWrite
<1>7. ASSUME NEW s \in Slots, RegistryFault(s) PROVE Local
  BY <1>7 DEF RegistryFault, rows, Attended, Goto, Update
<1>8. ASSUME NEW s \in Slots, NodeRaises(s) PROVE Local
  BY <1>8 DEF NodeRaises, rows, Attended, Goto, Update
<1>9. ASSUME NEW s \in Slots, QaApprove(s) PROVE Local
  BY <1>9 DEF QaApprove, rows, Attended, Goto
<1>10. ASSUME NEW s \in Slots, QaPassUnmarked(s) PROVE Local
  BY <1>10 DEF QaPassUnmarked, rows, Attended, Goto
<1>11. ASSUME NEW s \in Slots, QaReject(s) PROVE Local
  BY <1>11 DEF QaReject, rows, Attended, Goto, Update
<1>12. ASSUME NEW s \in Slots, PersistTask(s) PROVE Local
  <2>1. job[s] \in Tasks
    BY <1>12 DEF PersistTask
  <2>2. CASE SetStatus(job[s], "awaiting_approval", "none") /\ Update(s, "awaiting_approval", "none", "finalize")
    BY <1>12, <2>1, <2>2 DEF PersistTask, Attended, SetStatus, Goto, Exit, Update, NoWrite
  <2>3. CASE UNCHANGED rows /\ Update(s, "failed", "abort", "idle")
    BY <1>12, <2>1, <2>3 DEF PersistTask, rows, Attended, Goto, Exit, Update, NoWrite
  <2> QED
    BY <1>12, <2>2, <2>3 DEF PersistTask
<1>13. ASSUME NEW s \in Slots, Finalize(s) PROVE Local
  <2>1. job[s] \in Tasks
    BY <1>13 DEF Finalize
  <2>2. CASE SetStatus(job[s], "awaiting_approval", "none")
    BY <1>13, <2>1, <2>2 DEF Finalize, Attended, SetStatus, Goto, Exit, Update, NoWrite
  <2>3. CASE UNCHANGED rows
    BY <1>13, <2>1, <2>3 DEF Finalize, rows, Attended, Goto, Exit, Update, NoWrite
  <2> QED
    BY <1>13, <2>2, <2>3 DEF Finalize
<1>14. ASSUME NEW s \in Slots, PostPipeline(s) PROVE Local
  <2>1. CASE Exit(s)
    BY <1>14, <2>1 DEF PostPipeline, rows, Attended, Exit, Goto
  <2>2. CASE Update(s, "rejected", "curator", "idle")
    BY <1>14, <2>2 DEF PostPipeline, rows, Attended, Update, Goto
  <2> QED
    BY <1>14, <2>1, <2>2 DEF PostPipeline
<1>15. ASSUME NEW s \in Slots, Kill(s) PROVE Local
  BY <1>15 DEF Kill, rows, Attended, Goto, Exit, NoWrite
<1>16. ASSUME NEW s \in Slots, Heartbeat(s) PROVE Local
  BY <1>16 DEF Heartbeat, Attended
<1>17. ASSUME NEW p \in Procs, UpdSelect(p) PROVE Local
  <2>1. job[p] \in Tasks /\ UNCHANGED rows
    BY <1>17 DEF UpdSelect
  <2>2. CASE Return(p)
    BY <1>17, <2>1, <2>2 DEF UpdSelect, rows, Attended, Return, Goto
  <2>3. CASE Goto(p, "write") /\ UNCHANGED <<job, want>>
    BY <1>17, <2>1, <2>3 DEF UpdSelect, rows, Attended, Goto
  <2> QED
    BY <1>17, <2>2, <2>3 DEF UpdSelect
<1>18. ASSUME NEW p \in Procs, UpdWrite(p) PROVE Local
  BY <1>18 DEF UpdWrite, Attended, SetStatus, Goto, Return, NoWrite, Writes, Outcomes
<1>19. ASSUME NEW p \in Procs, UpdFails(p) PROVE Local
  BY <1>19 DEF UpdFails, rows, Attended, Goto, Return, NoWrite, Writes, Outcomes
<1>20. ASSUME NEW t \in Tasks, GetsOld(t) PROVE Local
  BY <1>20 DEF GetsOld, Attended
<1>21. ASSUME NEW t \in Tasks, OpReject(t) PROVE Local
  BY <1>21 DEF OpReject, rows, Attended, Goto, Writes, Outcomes
<1>22. ASSUME NEW t \in Tasks, OpFinal(t) PROVE Local
  BY <1>22 DEF OpFinal, rows, Attended, Goto
<1>23. ASSUME NEW t \in Tasks, OpApprove(t) PROVE Local
  BY <1>23 DEF OpApprove, rows, Attended, Goto
<1>24. CASE OpFinalWrite
  <2>1. job[Operator] \in Tasks
    BY <1>24 DEF OpFinalWrite
  <2>2. CASE SetStatus(job[Operator], "rejected_final", "operator") /\ Goto(Operator, "clear") /\ UNCHANGED <<job, want>>
    BY <1>24, <2>1, <2>2 DEF OpFinalWrite, Attended, SetStatus, Goto, Exit, Update, NoWrite
  <2>3. CASE UNCHANGED rows /\ Exit(Operator)
    BY <1>24, <2>1, <2>3 DEF OpFinalWrite, rows, Attended, Goto, Exit, Update, NoWrite
  <2> QED
    BY <1>24, <2>2, <2>3 DEF OpFinalWrite
<1>25. CASE OpClear
  BY <1>25 DEF OpClear, rows, Attended, Goto, Exit, NoWrite
<1>26. CASE OpApproveWrite
  <2>1. job[Operator] \in Tasks
    BY <1>26 DEF OpApproveWrite
  <2>2. CASE SetStatus(job[Operator], "approved", "operator")
    BY <1>26, <2>1, <2>2 DEF OpApproveWrite, Attended, SetStatus, Goto, Exit, Update, NoWrite
  <2>3. CASE UNCHANGED rows
    BY <1>26, <2>1, <2>3 DEF OpApproveWrite, rows, Attended, Goto, Exit, Update, NoWrite
  <2> QED
    BY <1>26, <2>2, <2>3 DEF OpApproveWrite
<1>27. CASE UNCHANGED vars
  BY <1>27 DEF vars, rows
<1>28. ~BrainReap /\ \A t \in Tasks : ~BrainExpire(t) /\ ~OpCancel(t)
  BY DEF BrainReap, BrainExpire, OpCancel
<1> QED
  BY <1>1, <1>2, <1>3, <1>4, <1>5, <1>6, <1>7, <1>8, <1>9, <1>10, <1>11, <1>12, <1>13, <1>14, <1>15, <1>16, <1>17, <1>18, <1>19, <1>20, <1>21, <1>22, <1>23, <1>24, <1>25, <1>26, <1>27, <1>28 DEF Next, Sweep, Run, Fault, Upd, Operate, OpStep

\* QueueInv is inductive relative to LeaseInv.
LEMMA QueueInvInductive ==
  ASSUME MaxRegens = 0, {"stall", "overlap", "cancel", "brain"} \cap Events = {},
         TypeOK, TypeOK', LeaseInv, LeaseInv', QueueInv, [Next]_vars
  PROVE  QueueInv'
<1> USE ConstantsAssumption DEF TypeOK, RowsOK, ProcsOK, LeaseInv, QueueInv, Procs
<1>1. ASSUME NEW s \in Slots, SweepRead(s) PROVE QueueInv'
  <2>1. UNCHANGED <<status, retry, regens, job>> /\ pc'[Operator] = pc[Operator]
    BY <1>1 DEF SweepRead, rows, Goto
  <2>2. \A t \in Tasks : /\ swept'[s][t] # "none" => status[t] = "in_progress"
                         /\ swept'[s][t] = "reset" => retry[t] < MaxRetries
    BY <1>1 DEF SweepRead, Bucket, Stale
  <2>3. \A r \in Slots \ {s} : pc'[r] = pc[r] /\ swept'[r] = swept[r]
    BY <1>1 DEF SweepRead, Goto
  <2>4. SweptIsInProgress'
    BY <2>1, <2>2, <2>3 DEF SweptIsInProgress
  <2>5. OperatorSeesSettled' /\ RetriesLeft'
    BY <2>1, <2>2, <2>3 DEF OperatorSeesSettled, Settled, RetriesLeft
  <2> QED
    BY <2>4, <2>5
<1>2. ASSUME NEW s \in Slots, SweepWrite(s) PROVE QueueInv'
  <2>1. UNCHANGED <<regens, job>> /\ pc'[Operator] = pc[Operator]
    BY <1>2 DEF SweepWrite, Goto
  <2>2. \A r \in Slots : pc'[r] # "sweep"
    BY <1>2 DEF SweepWrite, Goto, OneSweeper
  <2>3. \A t \in Tasks : Settled(t) => swept[s][t] = "none"
    BY <1>2 DEF SweepWrite, SweptIsInProgress, Settled
  <2>4. \A t \in Tasks : Settled(t) => status'[t] = status[t]
    BY <1>2, <2>3 DEF SweepWrite
  <2>5. OperatorSeesSettled'
    BY <2>1, <2>4 DEF OperatorSeesSettled, Settled
  <2>6. \A t \in Tasks : retry'[t] <= MaxRetries
    <3> TAKE t \in Tasks
    <3>1. retry'[t] = IF swept[s][t] = "reset" THEN retry[t] + 1 ELSE retry[t]
      BY <1>2 DEF SweepWrite, RetryAfter
    <3>2. swept[s][t] = "reset" => retry[t] < MaxRetries
      BY <1>2 DEF SweepWrite, RetriesLeft
    <3>3. retry[t] \in Nat /\ retry[t] <= MaxRetries
      BY DEF RetriesLeft
    <3> QED
      BY <3>1, <3>2, <3>3
  <2> QED
    BY <2>1, <2>2, <2>5, <2>6 DEF SweptIsInProgress, RetriesLeft
<1>3. ASSUME NEW s \in Slots, Claim(s) PROVE QueueInv'
  <2>1. PICK t \in Tasks : Claimable(t) /\ status' = [status EXCEPT ![t] = "in_progress"]
    BY <1>3 DEF Claim
  <2>2. /\ UNCHANGED <<retry, regens>> /\ pc'[Operator] = pc[Operator]
        /\ job'[Operator] = job[Operator]
    BY <1>3 DEF Claim, Goto
  <2>3. \A r \in Slots : pc'[r] = "sweep" => pc[r] = "sweep" /\ swept'[r] = swept[r]
    BY <1>3 DEF Claim, Goto
  <2>4. ~Settled(t)
    BY <2>1 DEF Claimable, Settled
  <2>5. SweptIsInProgress' /\ RetriesLeft'
    BY <2>1, <2>2, <2>3 DEF SweptIsInProgress, RetriesLeft
  <2>6. OperatorSeesSettled'
    BY <2>1, <2>2, <2>4 DEF OperatorSeesSettled, Settled
  <2> QED
    BY <2>5, <2>6
<1>4. CASE ~\E s \in Slots : SweepRead(s) \/ SweepWrite(s) \/ Claim(s)
  <2>1. Local /\ Quiet
    BY <1>4, LocalSteps, QuietSteps
  <2>2. \A s \in Slots, t \in Tasks :
          pc'[s] = "sweep" /\ swept'[s][t] # "none" =>
            pc[s] = "sweep" /\ swept'[s][t] = swept[s][t] /\ ~Attended(t)
    BY <2>1 DEF Quiet, SweptHasNoRun
  <2>3. \A t \in Tasks : status[t] = "in_progress" /\ ~Attended(t) => status'[t] = status[t]
    BY <2>1 DEF Local, Settled
  <2>4. SweptIsInProgress'
    BY <2>2, <2>3 DEF SweptIsInProgress
  <2>5. RetriesLeft'
    BY <2>1, <2>2 DEF RetriesLeft, Local
  <2>6. \A t \in Tasks : Settled(t) => Settled(t)'
    BY <2>1 DEF Local, Settled
  <2>7. OperatorSeesSettled'
    BY <2>1, <2>6 DEF Local, OperatorSeesSettled
  <2> QED
    BY <2>4, <2>5, <2>7
<1> QED
  BY <1>1, <1>2, <1>3, <1>4

\* A CHOOSE with only one candidate.
LEMMA ChooseTheOne ==
  ASSUME NEW S, NEW J, NEW t, NEW s \in S, J[s] = t, \A r \in S : J[r] = t => r = s
  PROVE  (CHOOSE r \in S : J[r] = t) = s
OBVIOUS

\* The refinement mapping, row by row ...
LEMMA Mapped ==
  ASSUME OneRun, NEW t \in Tasks
  PROVE  /\ status[t] = "in_progress" => QueueState[t] = "leased"
         /\ Queued(t) => QueueState[t] = "queued"
         /\ Settled(t) => QueueState[t] = "settled"
         /\ status[t] # "in_progress" \/ ~Attended(t) => LeaseHolder[t] = NoTask
         /\ \A s \in Slots : status[t] = "in_progress" /\ job[s] = t => LeaseHolder[t] = s
<1> USE ConstantsAssumption
<1>1. QueueState[t] = CASE Queued(t) -> "queued"
                        [] status[t] = "in_progress" -> "leased"
                        [] OTHER -> "settled"
  BY DEF QueueState
<1>2. LeaseHolder[t] = IF status[t] = "in_progress" /\ Attended(t)
                         THEN CHOOSE s \in Slots : job[s] = t ELSE NoTask
  BY DEF LeaseHolder
<1>3. ASSUME NEW s \in Slots, status[t] = "in_progress", job[s] = t PROVE LeaseHolder[t] = s
  <2>1. \A r \in Slots : job[r] = t => r = s
    BY <1>3 DEF OneRun
  <2>2. (CHOOSE r \in Slots : job[r] = t) = s
    BY <1>3, <2>1, ChooseTheOne
  <2> QED
    BY <1>2, <1>3, <2>2 DEF Attended
<1> QED
  BY <1>1, <1>2, <1>3 DEF Queued, Settled

\* ... and after a step.
LEMMA MappedNext ==
  ASSUME OneRun', NEW t \in Tasks
  PROVE  /\ status'[t] = "in_progress" => QueueState'[t] = "leased"
         /\ Queued(t)' => QueueState'[t] = "queued"
         /\ Settled(t)' => QueueState'[t] = "settled"
         /\ status'[t] # "in_progress" \/ ~Attended(t)' => LeaseHolder'[t] = NoTask
         /\ \A s \in Slots : status'[t] = "in_progress" /\ job'[s] = t => LeaseHolder'[t] = s
<1> USE ConstantsAssumption
<1>1. QueueState'[t] = CASE Queued(t)' -> "queued"
                         [] status'[t] = "in_progress" -> "leased"
                         [] OTHER -> "settled"
  BY DEF QueueState
<1>2. LeaseHolder'[t] = IF status'[t] = "in_progress" /\ Attended(t)'
                          THEN CHOOSE s \in Slots : job'[s] = t ELSE NoTask
  BY DEF LeaseHolder
<1>3. ASSUME NEW s \in Slots, status'[t] = "in_progress", job'[s] = t PROVE LeaseHolder'[t] = s
  <2>1. \A r \in Slots : job'[r] = t => r = s
    BY <1>3 DEF OneRun
  <2>2. (CHOOSE r \in Slots : job'[r] = t) = s
    BY <1>3, <2>1, ChooseTheOne
  <2> QED
    BY <1>2, <1>3, <2>2 DEF Attended
<1> QED
  BY <1>1, <1>2, <1>3 DEF Queued, Settled

\* Both are functions on the tasks.
LEMMA MappedFunctions ==
  /\ QueueState = [t \in Tasks |-> QueueState[t]]
  /\ QueueState' = [t \in Tasks |-> QueueState'[t]]
  /\ LeaseHolder = [t \in Tasks |-> LeaseHolder[t]]
  /\ LeaseHolder' = [t \in Tasks |-> LeaseHolder'[t]]
BY DEF QueueState, LeaseHolder

\* A step that changes the mapping of one task only.
LEMMA OneMoves ==
  ASSUME NEW u \in Tasks,
         \A t \in Tasks \ {u} : QueueState'[t] = QueueState[t] /\ LeaseHolder'[t] = LeaseHolder[t]
  PROVE  /\ QueueState' = [QueueState EXCEPT ![u] = QueueState'[u]]
         /\ LeaseHolder' = [LeaseHolder EXCEPT ![u] = LeaseHolder'[u]]
<1>1. QueueState' = [QueueState EXCEPT ![u] = QueueState'[u]]
  BY MappedFunctions
<1>2. LeaseHolder' = [LeaseHolder EXCEPT ![u] = LeaseHolder'[u]]
  BY MappedFunctions
<1> QED
  BY <1>1, <1>2

\* The rows a local step does not touch stay where they are in the mapping.
LEMMA UntouchedRow ==
  ASSUME TypeOK, OneRun, OneRun', NEW t \in Tasks, status'[t] = status[t],
         \A s \in Slots : job'[s] = t <=> job[s] = t
  PROVE  QueueState'[t] = QueueState[t] /\ LeaseHolder'[t] = LeaseHolder[t]
<1> USE ConstantsAssumption
<1>1. QueueState'[t] = QueueState[t]
  BY DEF QueueState, Queued
<1>2. CASE status[t] # "in_progress" \/ ~Attended(t)
  <2>1. status'[t] # "in_progress" \/ ~Attended(t)'
    BY <1>2 DEF Attended
  <2> QED
    BY <1>1, <1>2, <2>1, Mapped, MappedNext
<1>3. CASE status[t] = "in_progress" /\ Attended(t)
  <2>1. PICK s \in Slots : job[s] = t
    BY <1>3 DEF Attended
  <2> QED
    BY <1>1, <1>3, <2>1, Mapped, MappedNext
<1> QED
  BY <1>1, <1>2, <1>3

\* A run delivers its outcome, or ends without one.
LEMMA LocalImplements ==
  ASSUME TypeOK, TypeOK', LeaseInv, LeaseInv', Quiet, Local
  PROVE  LQ!Next \/ UNCHANGED LQ!vars
<1> USE ConstantsAssumption DEF LeaseInv
<1>1. PICK u \in Tasks \cup {NoTask} :
        /\ \A t \in Tasks \ {u} : status'[t] = status[t]
        /\ \A s \in Slots : job'[s] = job[s] \/ job[s] = u
  BY DEF Local
<1>2. \A s \in Slots : job'[s] \in {job[s], NoTask}
  BY DEF Quiet
<1>3. \A t \in Tasks \ {u}, s \in Slots : job'[s] = t <=> job[s] = t
  BY <1>1, <1>2
<1>4. \A t \in Tasks \ {u} : QueueState'[t] = QueueState[t] /\ LeaseHolder'[t] = LeaseHolder[t]
  BY <1>1, <1>3, UntouchedRow
<1>5. UNCHANGED claims
  BY DEF Local
<1>6. ASSUME \A t \in Tasks : QueueState'[t] = QueueState[t] /\ LeaseHolder'[t] = LeaseHolder[t]
      PROVE  UNCHANGED LQ!vars
  <2>1. QueueState' = QueueState
    BY <1>6, MappedFunctions
  <2>2. LeaseHolder' = LeaseHolder
    BY <1>6, MappedFunctions
  <2> QED
    BY <1>5, <2>1, <2>2 DEF LQ!vars
<1>7. CASE u \notin Tasks
  BY <1>4, <1>6, <1>7
<1>8. CASE u \in Tasks /\ status[u] # "in_progress"
  <2>1. status'[u] # "in_progress"
    BY <1>8 DEF Quiet
  <2>2. status'[u] = status[u] \/ (Settled(u) /\ Settled(u)')
    BY <1>8 DEF Local, QueuedHasNoRun, NoRedrafts, Settled
  <2>3. QueueState'[u] = QueueState[u]
    <3>1. CASE status'[u] = status[u]
      BY <1>8, <3>1 DEF QueueState, Queued
    <3>2. CASE Settled(u) /\ Settled(u)'
      BY <1>8, <3>2, Mapped, MappedNext
    <3> QED
      BY <2>2, <3>1, <3>2
  <2>4. LeaseHolder'[u] = NoTask /\ LeaseHolder[u] = NoTask
    BY <1>8, <2>1, Mapped, MappedNext
  <2> QED
    BY <1>4, <1>6, <1>8, <2>3, <2>4
<1>9. CASE u \in Tasks /\ status[u] = "in_progress" /\ status'[u] = "in_progress"
  <2>1. CASE \A s \in Slots : job'[s] = u <=> job[s] = u
    BY <1>4, <1>6, <1>9, <2>1, UntouchedRow
  <2>2. CASE ~\A s \in Slots : job'[s] = u <=> job[s] = u
    <3>1. PICK s \in Slots : job[s] = u /\ job'[s] # u
      BY <1>2, <1>9, <2>2
    <3>2. ~Attended(u)'
      BY <1>2, <1>9, <3>1 DEF Attended, OneRun
    <3>3. /\ QueueState[u] = "leased" /\ QueueState'[u] = "leased"
          /\ LeaseHolder[u] = s /\ LeaseHolder'[u] = NoTask
      BY <1>9, <3>1, <3>2, Mapped, MappedNext
    <3>4. LQ!Lose(s, u)
      BY <1>4, <1>5, <1>9, <3>3, OneMoves DEF LQ!Lose, LQ!Move
    <3> QED
      BY <1>9, <3>4 DEF LQ!Next
  <2> QED
    BY <2>1, <2>2
<1>10. CASE u \in Tasks /\ status[u] = "in_progress" /\ status'[u] # "in_progress"
  <2>1. Settled(u)' /\ Attended(u)
    BY <1>10 DEF Local, Settled
  <2>2. PICK s \in Slots : job[s] = u
    BY <2>1 DEF Attended
  <2>3. /\ QueueState[u] = "leased" /\ QueueState'[u] = "settled"
        /\ LeaseHolder[u] = s /\ LeaseHolder'[u] = NoTask
    BY <1>10, <2>1, <2>2, Mapped, MappedNext
  <2>4. LQ!Settle(s, u)
    BY <1>4, <1>5, <1>10, <2>3, OneMoves DEF LQ!Settle, LQ!Move
  <2> QED
    BY <1>10, <2>4 DEF LQ!Next
<1> QED
  BY <1>1, <1>7, <1>8, <1>9, <1>10

\* The claim leases one queued task, and a retry is left for it.
LEMMA ClaimImplements ==
  ASSUME TypeOK, TypeOK', LeaseInv, LeaseInv', QueueInv, RerunsArePaidFor,
         NEW s \in Slots, Claim(s)
  PROVE  LQ!Next
<1> USE ConstantsAssumption DEF LeaseInv
<1>1. PICK t \in Tasks : /\ Claimable(t)
                        /\ status' = [status EXCEPT ![t] = "in_progress"]
                        /\ job' = [job EXCEPT ![s] = t]
                        /\ claims' = [claims EXCEPT ![t] = @ + 1]
  BY DEF Claim
<1>2. job[s] = NoTask
  BY DEF Claim, BetweenJobs
<1>3. Queued(t)
  BY <1>1 DEF Claimable, Queued
<1>4. status'[t] = "in_progress" /\ job'[s] = t /\ status[t] # "in_progress"
  BY <1>1, <1>3 DEF TypeOK, RowsOK, ProcsOK, Procs, Queued
<1>5. /\ QueueState[t] = "queued" /\ QueueState'[t] = "leased"
      /\ LeaseHolder[t] = NoTask /\ LeaseHolder'[t] = s
  BY <1>3, <1>4, Mapped, MappedNext
<1>6. \A u \in Tasks \ {t} : /\ status'[u] = status[u]
                            /\ \A r \in Slots : job'[r] = u <=> job[r] = u
  BY <1>1, <1>2 DEF TypeOK, RowsOK, ProcsOK, Procs
<1>7. \A u \in Tasks \ {t} : QueueState'[u] = QueueState[u] /\ LeaseHolder'[u] = LeaseHolder[u]
  BY <1>6, UntouchedRow
<1>8. \A u \in Tasks : LeaseHolder[u] # s
  <2> TAKE u \in Tasks
  <2>1. CASE status[u] # "in_progress" \/ ~Attended(u)
    BY <2>1, Mapped
  <2>2. CASE status[u] = "in_progress" /\ Attended(u)
    <3>1. PICK r \in Slots : job[r] = u
      BY <2>2 DEF Attended
    <3>2. LeaseHolder[u] = r
      BY <2>2, <3>1, Mapped
    <3> QED
      BY <1>2, <3>1, <3>2
  <2> QED
    BY <2>1, <2>2
<1>9. claims[t] < 1 + MaxRetries
  <2>1. claims[t] + 1 <= 1 + retry[t] + regens[t]
    BY <1>3 DEF RerunsArePaidFor
  <2>2. retry[t] <= MaxRetries /\ regens[t] = 0
    BY DEF QueueInv, RetriesLeft
  <2>3. claims[t] \in Nat /\ retry[t] \in Nat
    BY DEF TypeOK, RowsOK
  <2> QED
    BY <2>1, <2>2, <2>3
<1>10. LQ!Lease(s, t)
  BY <1>1, <1>5, <1>7, <1>8, <1>9, OneMoves DEF LQ!Lease, LQ!Move
<1> QED
  BY <1>10 DEF LQ!Next

\* The sweep recovers the tasks in its buckets.
LEMMA SweepImplements ==
  ASSUME TypeOK, TypeOK', LeaseInv, LeaseInv', QueueInv, NEW s \in Slots, SweepWrite(s)
  PROVE  LQ!Next \/ UNCHANGED LQ!vars
<1> USE ConstantsAssumption DEF LeaseInv
<1> DEFINE lost == {t \in Tasks : swept[s][t] # "none"}
           outcome == [t \in Tasks |-> IF swept[s][t] = "reset" THEN "queued" ELSE "settled"]
<1>1. UNCHANGED <<claims, job>>
  BY DEF SweepWrite
<1>2. \A t \in lost : status[t] = "in_progress" /\ ~Attended(t) /\ ~Attended(t)'
  BY <1>1 DEF SweepWrite, QueueInv, SweptIsInProgress, SweptHasNoRun, Attended
<1>3. \A t \in lost : /\ QueueState[t] = "leased" /\ LeaseHolder[t] = NoTask
                      /\ LeaseHolder'[t] = NoTask
  BY <1>2, Mapped, MappedNext
<1>4. \A t \in lost : status'[t] = CASE swept[s][t] = "promote" -> "awaiting_approval"
                                     [] swept[s][t] = "reset" -> "pending"
                                     [] OTHER -> "failed"
  BY DEF SweepWrite, TypeOK, ProcsOK, Buckets
<1>5. \A t \in lost : QueueState'[t] = outcome[t]
  <2> TAKE t \in lost
  <2>1. CASE swept[s][t] = "reset"
    BY <1>4, <2>1, MappedNext DEF Queued
  <2>2. CASE swept[s][t] # "reset"
    BY <1>4, <2>2, MappedNext DEF Settled
  <2> QED
    BY <2>1, <2>2
<1>6. \A t \in Tasks \ lost : status'[t] = status[t]
  BY DEF SweepWrite
<1>7. \A t \in Tasks \ lost : QueueState'[t] = QueueState[t] /\ LeaseHolder'[t] = LeaseHolder[t]
  BY <1>1, <1>6, UntouchedRow
<1>8. LeaseHolder' = LeaseHolder
  <2>1. \A t \in Tasks : LeaseHolder'[t] = LeaseHolder[t]
    BY <1>3, <1>7
  <2> QED
    BY <2>1, MappedFunctions
<1>9. QueueState' = [t \in Tasks |-> IF t \in lost THEN outcome[t] ELSE QueueState[t]]
  <2>1. \A t \in Tasks : QueueState'[t] = IF t \in lost THEN outcome[t] ELSE QueueState[t]
    BY <1>5, <1>7
  <2> HIDE DEF lost, outcome
  <2> QED
    BY <2>1, MappedFunctions
<1>10. CASE lost = {}
  <2>1. QueueState' = QueueState
    <3>1. \A t \in Tasks : QueueState'[t] = QueueState[t]
      BY <1>7, <1>10
    <3> QED
      BY <3>1, MappedFunctions
  <2> QED
    BY <1>1, <1>8, <2>1 DEF LQ!vars
<1>11. CASE lost # {}
  <2>1. lost \in SUBSET {t \in Tasks : QueueState[t] = "leased" /\ LeaseHolder[t] = NoTask}
    BY <1>3
  <2>2. outcome \in [Tasks -> {"queued", "settled"}]
    OBVIOUS
  <2> HIDE DEF lost, outcome
  <2>3. LQ!Recover
    BY <1>1, <1>8, <1>9, <1>11, <2>1, <2>2 DEF LQ!Recover
  <2> QED
    BY <2>3 DEF LQ!Next
<1> QED
  BY <1>10, <1>11

\* pipeline_tasks is a queue with leases, for any number of tasks and runs,
\* whatever runs die, crash or fail: a run has its task to itself, gives it back
\* only by ending, and a task is worth at most 1 + max_retries runs.
THEOREM LeasesAreKept ==
  ASSUME MaxRegens = 0, {"stall", "overlap", "cancel", "brain"} \cap Events = {}
  PROVE  Spec => ImplementsLeasedQueue
<1> USE ConstantsAssumption DEF Procs
<1>1. Init => LeaseInv /\ QueueInv
  BY DEF Init, NoWrite, LeaseInv, NoRedrafts, OneSweeper, BetweenJobs, OneRun,
         QueuedHasNoRun, SweptHasNoRun, AttendedIsFresh, Attended,
         QueueInv, SweptIsInProgress, OperatorSeesSettled, RetriesLeft
<1>2. TypeOK /\ LeaseInv /\ [Next]_vars => LeaseInv'
  BY LeaseInvInductive
<1>3. TypeOK /\ TypeOK' /\ LeaseInv /\ LeaseInv' /\ QueueInv /\ [Next]_vars => QueueInv'
  BY QueueInvInductive
<1>4. Init => LQ!Init
  <2> SUFFICES ASSUME Init PROVE LQ!Init
    OBVIOUS
  <2>1. QueueState = [t \in Tasks |-> "queued"]
    BY DEF Init, QueueState, Queued
  <2>2. LeaseHolder = [t \in Tasks |-> NoTask]
    BY DEF Init, LeaseHolder
  <2> QED
    BY <2>1, <2>2 DEF Init, LQ!Init
<1>5. /\ TypeOK /\ TypeOK' /\ LeaseInv /\ LeaseInv' /\ QueueInv /\ RerunsArePaidFor
      /\ [Next]_vars
      => [LQ!Next]_(LQ!vars)
  <2> SUFFICES ASSUME TypeOK, TypeOK', LeaseInv, LeaseInv', QueueInv, RerunsArePaidFor,
                      [Next]_vars
               PROVE  LQ!Next \/ UNCHANGED LQ!vars
    OBVIOUS
  <2>1. ASSUME NEW s \in Slots, SweepRead(s) PROVE UNCHANGED LQ!vars
    <3>1. UNCHANGED <<status, job, claims>>
      BY <2>1 DEF SweepRead, rows
    <3> QED
      BY <3>1 DEF LQ!vars, QueueState, Queued, LeaseHolder, Attended
  <2>2. CASE ~\E s \in Slots : SweepRead(s) \/ SweepWrite(s) \/ Claim(s)
    BY <2>2, LocalSteps, QuietSteps, LocalImplements
  <2> QED
    BY <2>1, <2>2, SweepImplements, ClaimImplements
<1> QED
  BY <1>1, <1>2, <1>3, <1>4, <1>5, TypeCorrect, RerunsCharged, PTL
  DEF Spec, ImplementsLeasedQueue, LQ!Spec

\* What the lease is good for, in the terms of the table: an outcome is final for
\* every run, sweep and crash handler, and no step takes a task from the run that
\* works on it to queue it again or to give it to another one.
LeasesRespected ==
  [][\A t \in Tasks :
       /\ QueueState[t] = "settled" =>
            (QueueState[t])' = "settled" /\ claims'[t] = claims[t]
       /\ LeaseHolder[t] # NoTask =>
            (LeaseHolder[t])' \in {LeaseHolder[t], NoTask} /\ ~Queued(t)']_vars

\* The abstract queue does so by any step.
LEMMA QueueRespects ==
  ASSUME claims \in [Tasks -> Nat], [LQ!Next]_(LQ!vars), NEW t \in Tasks
  PROVE  /\ QueueState[t] = "settled" =>
              (QueueState[t])' = "settled" /\ claims'[t] = claims[t]
         /\ LeaseHolder[t] # NoTask =>
              (LeaseHolder[t])' \in {LeaseHolder[t], NoTask} /\ ~Queued(t)'
<1> USE ConstantsAssumption
<1> DEFINE Goal == /\ QueueState[t] = "settled" =>
                        (QueueState[t])' = "settled" /\ claims'[t] = claims[t]
                   /\ LeaseHolder[t] # NoTask =>
                        (LeaseHolder[t])' \in {LeaseHolder[t], NoTask} /\ ~Queued(t)'
<1>1. (QueueState[t])' # "queued" => ~Queued(t)'
  BY DEF QueueState, Queued
<1>2. LeaseHolder[t] # NoTask => QueueState[t] = "leased"
  BY DEF LeaseHolder, QueueState, Queued
<1>3. ASSUME NEW u \in Tasks, NEW r \in Slots, LQ!Lease(r, u) PROVE Goal
  BY <1>1, <1>2, <1>3 DEF LQ!Lease, LQ!Move, QueueState, LeaseHolder
<1>4. ASSUME NEW u \in Tasks, NEW r \in Slots, LQ!Settle(r, u) \/ LQ!Lose(r, u) PROVE Goal
  BY <1>1, <1>2, <1>4 DEF LQ!Settle, LQ!Lose, LQ!Move, QueueState, LeaseHolder
<1>5. CASE LQ!Recover
  BY <1>1, <1>2, <1>5 DEF LQ!Recover, QueueState, LeaseHolder
<1>6. CASE UNCHANGED LQ!vars
  BY <1>1, <1>2, <1>6 DEF LQ!vars
<1> QED
  BY <1>3, <1>4, <1>5, <1>6 DEF LQ!Next

\* So a task with an outcome is never generated again behind the operator's back,
\* and a run that lives keeps its task.
THEOREM LeasesAreRespected ==
  ASSUME MaxRegens = 0, {"stall", "overlap", "cancel", "brain"} \cap Events = {}
  PROVE  Spec => LeasesRespected
<1>1. TypeOK /\ [LQ!Next]_(LQ!vars) =>
        [\A t \in Tasks :
           /\ QueueState[t] = "settled" =>
                (QueueState[t])' = "settled" /\ claims'[t] = claims[t]
           /\ LeaseHolder[t] # NoTask =>
                (LeaseHolder[t])' \in {LeaseHolder[t], NoTask} /\ ~Queued(t)']_vars
  BY QueueRespects DEF TypeOK, RowsOK
<1>2. Spec => ImplementsLeasedQueue
  BY LeasesAreKept
<1> QED
  BY <1>1, <1>2, TypeCorrect, PTL DEF ImplementsLeasedQueue, LQ!Spec, LeasesRespected

------------------------------------------------------------------------------
(* ApprovedDraftIsKept. *)

\* The operator's request is about job[Operator].
Acting == pc[Operator] \notin {"idle", "sweep", "claim"}

\* The run has not handed in its draft, or is about to fail its task.
Undelivered(s) ==
  \/ pc[s] \in {"start", "graph", "tail", "crash"}
  \/ pc[s] \in {"select", "write"} /\ want[s].to = "failed"

\* Only a cancel takes a task from such a run, or from a sweep ...
StillInWork ==
  /\ \A s \in Slots : Undelivered(s) => status[job[s]] \in {"in_progress", "cancelled"}
  /\ \A s \in Slots, t \in Tasks :
       pc[s] = "sweep" /\ swept[s][t] # "none" => status[t] \in {"in_progress", "cancelled"}

\* ... since the operator only decides what no run and no sweep still works on.
OperatorSeesDelivered ==
  Acting => /\ Settled(job[Operator])
            /\ \A s \in Slots : /\ Undelivered(s) => job[s] # job[Operator]
                                /\ pc[s] = "sweep" => swept[s][job[Operator]] = "none"

\* A run that QA has not approved works on a task without an approved draft.
NoDraftYet == \A s \in Slots : pc[s] \in {"start", "graph"} => marker[job[s]] # "live"

\* A run that fails its task fails no approved draft: an abort, which may come
\* after QA, follows only a cancel, and then update_task writes nothing.
FailsNoDraft ==
  \A s \in Slots :
    pc[s] \in {"select", "write", "crash"} /\ want[s].to = "failed" =>
      \/ marker[job[s]] # "live"
      \/ pc[s] = "select" /\ status[job[s]] = "cancelled"

SweepsNoDraft ==
  \A s \in Slots, t \in Tasks :
    pc[s] = "sweep" /\ swept[s][t] \in {"reset", "fail"} => marker[t] # "live"

\* What ApprovedDraftIsKept needs beyond LeaseInv.
DraftInv ==
  /\ StillInWork /\ OperatorSeesDelivered
  /\ NoDraftYet /\ FailsNoDraft /\ SweepsNoDraft

\* Only stale rows are swept, and what is reset or failed has no marker.
LEMMA BucketIsSafe ==
  ASSUME NEW t \in Tasks
  PROVE  /\ Bucket(t) # "none" => status[t] = "in_progress"
         /\ Bucket(t) \in {"reset", "fail"} => marker[t] # "live"
BY DEF Bucket, Stale, HasMarker

\* The sweep puts rows into buckets ...
LEMMA SweepReadKeepsDrafts ==
  ASSUME TypeOK, DraftInv, ApprovedDraftIsKept, NEW s \in Slots, SweepRead(s)
  PROVE  DraftInv' /\ ApprovedDraftIsKept'
<1>1. UNCHANGED <<status, marker, job, want>>
  BY DEF SweepRead, rows
<1>2. /\ \A r \in Slots \ {s} : pc'[r] = pc[r] /\ swept'[r] = swept[r]
      /\ pc'[s] \in {"sweep", "claim"} /\ pc'[Operator] = pc[Operator]
  BY ConstantsAssumption DEF SweepRead, Goto, TypeOK, ProcsOK, Procs
<1>3. swept'[s] = [t \in Tasks |-> Bucket(t)]
  BY DEF SweepRead, TypeOK, ProcsOK
<1>4. /\ \A t \in Tasks : swept'[s][t] # "none" => status[t] = "in_progress"
      /\ \A t \in Tasks : swept'[s][t] \in {"reset", "fail"} => marker[t] # "live"
  BY <1>3, BucketIsSafe
<1>5. \A r \in Slots : Undelivered(r)' => Undelivered(r)
  BY <1>1, <1>2 DEF Undelivered
<1>6. StillInWork'
  BY <1>1, <1>2, <1>4, <1>5 DEF DraftInv, StillInWork
<1>7. OperatorSeesDelivered'
  <2>1. Acting => job[Operator] \in Tasks
    BY ConstantsAssumption DEF Acting, TypeOK, ProcsOK, Procs
  <2>2. Acting => swept'[s][job[Operator]] = "none"
    BY <1>4, <2>1 DEF DraftInv, OperatorSeesDelivered, Settled
  <2> QED
    BY <1>1, <1>2, <1>5, <2>2 DEF DraftInv, OperatorSeesDelivered, Acting, Settled
<1>8. SweepsNoDraft'
  BY <1>1, <1>2, <1>4 DEF DraftInv, SweepsNoDraft
<1>9. NoDraftYet' /\ FailsNoDraft' /\ ApprovedDraftIsKept'
  BY <1>1, <1>2 DEF DraftInv, NoDraftYet, FailsNoDraft, ApprovedDraftIsKept, Queued
<1> QED
  BY <1>6, <1>7, <1>8, <1>9 DEF DraftInv

\* ... and writes them: what it resets or fails has had no run since.
LEMMA SweepWriteKeepsDrafts ==
  ASSUME TypeOK, LeaseInv, DraftInv, ApprovedDraftIsKept, NEW s \in Slots, SweepWrite(s)
  PROVE  DraftInv' /\ ApprovedDraftIsKept'
<1>1. UNCHANGED <<marker, job, want, swept>>
  BY DEF SweepWrite
<1>2. /\ pc[s] = "sweep" /\ \A r \in Slots : pc'[r] # "sweep"
      /\ \A r \in Slots : pc'[r] = pc[r] \/ pc'[r] = "claim"
      /\ pc'[Operator] = pc[Operator]
  BY ConstantsAssumption DEF SweepWrite, Goto, TypeOK, ProcsOK, Procs, LeaseInv, OneSweeper
<1>3. /\ \A t \in Tasks : swept[s][t] = "none" => status'[t] = status[t]
      /\ \A t \in Tasks : swept[s][t] = "promote" => status'[t] = "awaiting_approval"
      /\ \A t \in Tasks : swept[s][t] \in {"none", "promote", "reset", "fail"}
  BY DEF SweepWrite, TypeOK, ProcsOK, Buckets
<1>4. \A t \in Tasks : swept[s][t] # "none" => ~Attended(t)
  BY <1>2 DEF LeaseInv, SweptHasNoRun
<1>5. \A r \in Slots : Undelivered(r)' => Undelivered(r) /\ job[r] \in Tasks
  BY <1>1, <1>2 DEF Undelivered, TypeOK, ProcsOK, Procs
<1>6. \A r \in Slots : job[r] \in Tasks => status'[job[r]] = status[job[r]]
  BY <1>3, <1>4 DEF Attended
<1>7. StillInWork' /\ SweepsNoDraft'
  BY <1>1, <1>2, <1>5, <1>6 DEF DraftInv, StillInWork, SweepsNoDraft
<1>8. OperatorSeesDelivered'
  <2>1. Acting => job[Operator] \in Tasks /\ swept[s][job[Operator]] = "none"
    BY <1>2 DEF Acting, TypeOK, ProcsOK, Procs, DraftInv, OperatorSeesDelivered
  <2>2. Acting => status'[job[Operator]] = status[job[Operator]]
    BY <1>3, <2>1
  <2> QED
    BY <1>1, <1>2, <1>5, <2>2 DEF DraftInv, OperatorSeesDelivered, Acting, Settled
<1>9. NoDraftYet' /\ FailsNoDraft'
  BY <1>1, <1>2, <1>6 DEF DraftInv, NoDraftYet, FailsNoDraft, TypeOK, ProcsOK, Procs
<1>10. ApprovedDraftIsKept'
  <2>1. \A t \in Tasks : swept[s][t] \in {"reset", "fail"} => marker[t] # "live"
    BY <1>2 DEF DraftInv, SweepsNoDraft
  <2> QED
    BY <1>1, <1>3, <2>1 DEF ApprovedDraftIsKept, Queued
<1> QED
  BY <1>7, <1>8, <1>9, <1>10 DEF DraftInv

\* The operator deletes a marker.
LEMMA OpClearKeepsDrafts ==
  ASSUME TypeOK, DraftInv, ApprovedDraftIsKept, OpClear
  PROVE  DraftInv' /\ ApprovedDraftIsKept'
<1>1. UNCHANGED <<status, swept>> /\ Exit(Operator)
  BY DEF OpClear, rows
<1>2. /\ \A r \in Slots : pc'[r] = pc[r] /\ job'[r] = job[r] /\ want'[r] = want[r]
      /\ pc'[Operator] = "idle"
  BY <1>1, ConstantsAssumption DEF Exit, Goto, TypeOK, ProcsOK, Procs
<1>3. \A t \in Tasks : marker'[t] = "live" => marker[t] = "live"
  BY DEF OpClear, TypeOK, RowsOK
<1>4. StillInWork' /\ OperatorSeesDelivered' /\ SweepsNoDraft'
  BY <1>1, <1>2, <1>3 DEF DraftInv, StillInWork, OperatorSeesDelivered, SweepsNoDraft, Acting, Undelivered
<1>5. \A r \in Slots : pc[r] \in {"start", "graph", "select", "write", "crash"} => job[r] \in Tasks
  BY DEF TypeOK, ProcsOK, Procs
<1>6. NoDraftYet' /\ FailsNoDraft'
  BY <1>1, <1>2, <1>3, <1>5 DEF DraftInv, NoDraftYet, FailsNoDraft
<1>7. ApprovedDraftIsKept'
  BY <1>1, <1>3 DEF ApprovedDraftIsKept, Queued
<1> QED
  BY <1>4, <1>6, <1>7 DEF DraftInv

\* The invariant is inductive, together with the property.
LEMMA DraftInvInductive ==
  ASSUME MaxRegens = 0, {"raise", "stall", "dbfail", "overlap", "brain"} \cap Events = {},
         TypeOK, LeaseInv, DraftInv, ApprovedDraftIsKept, [Next]_vars
  PROVE  DraftInv' /\ ApprovedDraftIsKept'
<1> USE ConstantsAssumption DEF TypeOK, RowsOK, ProcsOK, LeaseInv, NoRedrafts, BetweenJobs, Procs,
        DraftInv, StillInWork, OperatorSeesDelivered, NoDraftYet, FailsNoDraft, SweepsNoDraft,
        Acting, Undelivered, Settled, ApprovedDraftIsKept, Queued
<1> DEFINE Goal == DraftInv' /\ ApprovedDraftIsKept'
<1>1. ASSUME NEW s \in Slots, SweepRead(s) PROVE Goal
  BY <1>1, SweepReadKeepsDrafts
<1>2. ASSUME NEW s \in Slots, SweepWrite(s) PROVE Goal
  BY <1>2, SweepWriteKeepsDrafts
<1>3. ASSUME NEW s \in Slots, SweepRolledBack(s) PROVE Goal
  BY <1>3 DEF SweepRolledBack, rows, Queued, Goto
<1>4. ASSUME NEW s \in Slots, SweepFails(s) PROVE Goal
  BY <1>4 DEF SweepFails, rows, Queued, Goto
<1>5. ASSUME NEW s \in Slots, Claim(s) PROVE Goal
  <2>1. PICK t \in Tasks : /\ status[t] = "pending"
                          /\ status' = [status EXCEPT ![t] = "in_progress"]
                          /\ job' = [job EXCEPT ![s] = t]
    BY <1>5 DEF Claim, Claimable
  <2>2. pc' = [pc EXCEPT ![s] = "start"] /\ UNCHANGED <<marker, want>>
    BY <1>5 DEF Claim, Goto
  <2>3. \A r \in Slots \ {s} : swept'[r] = swept[r]
    BY <1>5 DEF Claim
  <2>4. ~Attended(t) /\ marker[t] # "live"
    BY <2>1 DEF QueuedHasNoRun
  <2>5. Acting => job[Operator] # t
    BY <2>1
  <2>6. StillInWork' /\ SweepsNoDraft'
    BY <2>1, <2>2, <2>3, <2>4 DEF SweptHasNoRun, Attended
  <2>7. NoDraftYet' /\ FailsNoDraft'
    BY <2>1, <2>2, <2>4 DEF Attended
  <2>8. OperatorSeesDelivered'
    BY <2>1, <2>2, <2>3, <2>5
  <2>9. ApprovedDraftIsKept'
    BY <2>1, <2>2
  <2> QED
    BY <2>6, <2>7, <2>8, <2>9
<1>6. ASSUME NEW s \in Slots, ClaimNothing(s) PROVE Goal
  BY <1>6 DEF ClaimNothing, rows, Queued, Goto
<1>7. ASSUME NEW s \in Slots, Start(s) PROVE Goal
  BY <1>7 DEF Start, rows, Queued, Goto
<1>8. ASSUME NEW s \in Slots, FlowCrashes(s) PROVE Goal
  BY <1>8 DEF FlowCrashes, rows, HasMarker, Queued, Goto
<1>9. ASSUME NEW s \in Slots, CrashWrite(s) PROVE Goal
  <2>1. job[s] \in Tasks /\ status[job[s]] \in {"in_progress", "cancelled"}
    BY <1>9 DEF CrashWrite
  <2>2. want[s].to \in {"awaiting_approval", "failed"} /\ (want[s].to = "failed" => marker[job[s]] # "live")
    BY <1>9 DEF CrashWrite
  <2>3. \A t \in Tasks : \A r \in Slots : pc[r] = "sweep" /\ swept[r][t] # "none" => t # job[s]
    BY <2>1 DEF SweptHasNoRun, Attended
  <2>4. \A r \in Slots \ {s} : job[r] # job[s]
    BY <2>1 DEF OneRun
  <2>5. pc' = [pc EXCEPT ![s] = "idle"] /\ UNCHANGED <<marker, swept>>
        /\ job' = [job EXCEPT ![s] = NoTask] /\ want' = [want EXCEPT ![s] = NoWrite]
    BY <1>9 DEF CrashWrite, Exit, Goto
  <2>6. CASE status' = [status EXCEPT ![job[s]] = want[s].to]
    <3>1. StillInWork'
      BY <2>1, <2>3, <2>4, <2>5, <2>6
    <3>2. SweepsNoDraft' /\ NoDraftYet' /\ FailsNoDraft'
      BY <2>1, <2>4, <2>5, <2>6
    <3>3. OperatorSeesDelivered'
      BY <2>1, <2>2, <2>4, <2>5, <2>6
    <3>4. ApprovedDraftIsKept'
      BY <2>1, <2>2, <2>5, <2>6
    <3> QED
      BY <3>1, <3>2, <3>3, <3>4
  <2>7. CASE UNCHANGED status
    BY <2>5, <2>7
  <2> QED
    BY <1>9, <2>6, <2>7 DEF CrashWrite, SetStatus, rows
<1>10. ASSUME NEW s \in Slots, RegistryFault(s) PROVE Goal
  BY <1>10 DEF RegistryFault, rows, Queued, Goto, Update
<1>11. ASSUME NEW s \in Slots, NodeRaises(s) PROVE Goal
  BY <1>11 DEF NodeRaises, rows, Queued, Goto, Update
<1>12. ASSUME NEW s \in Slots, QaApprove(s) PROVE Goal
  <2>1. job[s] \in Tasks /\ status[job[s]] \in {"in_progress", "cancelled"}
    BY <1>12 DEF QaApprove
  <2>2. \A r \in Slots \ {s} : job[r] # job[s]
    BY <2>1 DEF OneRun
  <2>3. \A t \in Tasks : \A r \in Slots : pc[r] = "sweep" /\ swept[r][t] # "none" => t # job[s]
    BY <2>1 DEF SweptHasNoRun, Attended
  <2>4. /\ marker' = [marker EXCEPT ![job[s]] = "live"] /\ pc' = [pc EXCEPT ![s] = "tail"]
        /\ UNCHANGED <<status, job, want, swept>> /\ pc[s] = "graph"
    BY <1>12 DEF QaApprove, Goto, rows
  <2>5. StillInWork' /\ OperatorSeesDelivered'
    BY <2>4
  <2>6. NoDraftYet' /\ FailsNoDraft'
    BY <2>1, <2>2, <2>4
  <2>7. SweepsNoDraft'
    BY <2>1, <2>3, <2>4
  <2>8. ApprovedDraftIsKept'
    BY <2>1, <2>4
  <2> QED
    BY <2>5, <2>6, <2>7, <2>8
<1>13. ASSUME NEW s \in Slots, QaPassUnmarked(s) PROVE Goal
  BY <1>13 DEF QaPassUnmarked, rows, Queued, Goto
<1>14. ASSUME NEW s \in Slots, QaReject(s) PROVE Goal
  BY <1>14 DEF QaReject, rows, HasMarker, Queued, Goto, Update
<1>15. ASSUME NEW s \in Slots, PersistTask(s) PROVE Goal
  <2>1. job[s] \in Tasks /\ status[job[s]] \in {"in_progress", "cancelled"}
    BY <1>15 DEF PersistTask
  <2>2. \A r \in Slots \ {s} : job[r] # job[s]
    BY <2>1 DEF OneRun
  <2>3. \A t \in Tasks : \A r \in Slots : pc[r] = "sweep" /\ swept[r][t] # "none" => t # job[s]
    BY <2>1 DEF SweptHasNoRun, Attended
  <2>4. pc' = [pc EXCEPT ![s] = "select"] /\ UNCHANGED <<marker, job, swept>> /\ pc[s] = "tail"
    BY <1>15 DEF PersistTask, Update, Goto
  <2>5. CASE /\ status' = [status EXCEPT ![job[s]] = "awaiting_approval"]
             /\ want' = [want EXCEPT ![s] =
                  [to |-> "awaiting_approval", why |-> "none", next |-> "finalize"]]
    <3>1. StillInWork'
      BY <2>1, <2>2, <2>3, <2>4, <2>5
    <3>2. SweepsNoDraft' /\ NoDraftYet' /\ FailsNoDraft'
      BY <2>1, <2>2, <2>4, <2>5
    <3>3. OperatorSeesDelivered'
      BY <2>1, <2>2, <2>4, <2>5
    <3>4. ApprovedDraftIsKept'
      BY <2>1, <2>4, <2>5
    <3> QED
      BY <3>1, <3>2, <3>3, <3>4
  <2>6. CASE /\ status[job[s]] = "cancelled" /\ UNCHANGED status
             /\ want' = [want EXCEPT ![s] = [to |-> "failed", why |-> "abort", next |-> "idle"]]
    BY <2>1, <2>2, <2>4, <2>6
  <2> QED
    BY <1>15, <2>1, <2>5, <2>6 DEF PersistTask, Passes, Refuses, SetStatus, Update, rows
<1>16. ASSUME NEW s \in Slots, Finalize(s) PROVE Goal
  <2>1. job[s] \in Tasks /\ pc[s] = "finalize"
    BY <1>16 DEF Finalize
  <2>2. \A r \in Slots \ {s} : job[r] # job[s]
    BY <2>1 DEF OneRun
  <2>3. \A t \in Tasks : \A r \in Slots : pc[r] = "sweep" /\ swept[r][t] # "none" => t # job[s]
    BY <2>1 DEF SweptHasNoRun, Attended
  <2>4. pc' = [pc EXCEPT ![s] = "post"] /\ UNCHANGED <<marker, job, swept, want>>
    BY <1>16 DEF Finalize, Goto
  <2>5. CASE status' = [status EXCEPT ![job[s]] = "awaiting_approval"]
    <3>1. StillInWork'
      BY <2>1, <2>2, <2>3, <2>4, <2>5
    <3>2. SweepsNoDraft' /\ NoDraftYet' /\ FailsNoDraft'
      BY <2>1, <2>2, <2>4, <2>5
    <3>3. OperatorSeesDelivered'
      BY <2>1, <2>2, <2>4, <2>5
    <3>4. ApprovedDraftIsKept'
      BY <2>1, <2>4, <2>5
    <3> QED
      BY <3>1, <3>2, <3>3, <3>4
  <2>6. CASE UNCHANGED status
    BY <2>1, <2>4, <2>6
  <2> QED
    BY <1>16, <2>5, <2>6 DEF Finalize, SetStatus, rows
<1>17. ASSUME NEW s \in Slots, PostPipeline(s) PROVE Goal
  <2>1. UNCHANGED <<status, marker, swept>> /\ pc[s] = "post" /\ job[s] \in Tasks
    BY <1>17 DEF PostPipeline, rows
  <2>2. CASE Exit(s)
    BY <2>1, <2>2 DEF Exit, Goto
  <2>3. CASE Update(s, "rejected", "curator", "idle")
    BY <2>1, <2>3 DEF Update, Goto
  <2> QED
    BY <1>17, <2>2, <2>3 DEF PostPipeline
<1>18. ASSUME NEW s \in Slots, Kill(s) PROVE Goal
  BY <1>18 DEF Kill, rows, Queued, Goto, Exit, NoWrite
<1>19. ASSUME NEW s \in Slots, Heartbeat(s) PROVE Goal
  BY <1>19 DEF Heartbeat, Queued
<1>20. ASSUME NEW p \in Procs, UpdSelect(p) PROVE Goal
  <2>1. /\ pc[p] = "select" /\ job[p] \in Tasks /\ UNCHANGED <<status, marker, swept>>
        /\ want[p].next \in {"idle", "finalize", "post", "clear"}
    BY <1>20 DEF UpdSelect, rows, Writes
  <2>2. CASE Return(p)
    BY <2>1, <2>2 DEF Queued, Goto, Return, NoWrite
  <2>3. CASE /\ Goto(p, "write") /\ UNCHANGED <<job, want>>
             /\ status[job[p]] \notin {"cancelled", "rejected"} \/ want[p].to # "failed"
    BY <2>1, <2>3 DEF Queued, Goto
  <2> QED
    BY <1>20, <2>2, <2>3 DEF UpdSelect
<1>21. ASSUME NEW p \in Procs, UpdWrite(p) PROVE Goal
  <2>1. job[p] \in Tasks /\ want[p].to \in Outcomes /\ pc[p] = "write"
    BY <1>21 DEF UpdWrite
  <2>2. /\ status' = [status EXCEPT ![job[p]] = want[p].to]
        /\ marker' = [marker EXCEPT ![job[p]] =
             IF p = Operator /\ @ = "live" THEN "discarded" ELSE @]
        /\ pc' = [pc EXCEPT ![p] = want[p].next] /\ want' = [want EXCEPT ![p] = NoWrite]
        /\ job' = [job EXCEPT ![p] = IF want[p].next = "idle" THEN NoTask ELSE @]
        /\ want[p].next \in {"idle", "finalize", "post", "clear"}
        /\ UNCHANGED swept
    BY <1>21 DEF UpdWrite, SetStatus, Return, Goto, Writes
  <2>3. \A t \in Tasks : marker'[t] = "live" => marker[t] = "live"
    BY <2>2
  <2>4. \A r \in Slots \ {p} : Undelivered(r) => job[r] # job[p]
    BY <2>1 DEF OneRun
  <2>5. \A r \in Slots : pc[r] = "sweep" => swept[r][job[p]] = "none"
    BY <2>1 DEF SweptHasNoRun, Attended
  <2>6. \A r \in Slots \ {p} : Undelivered(r)' <=> Undelivered(r)
    BY <2>2
  <2>7. StillInWork'
    BY <2>1, <2>2, <2>4, <2>5
  <2>8. OperatorSeesDelivered'
    BY <2>1, <2>2 DEF Outcomes
  <2>9. SweepsNoDraft' /\ NoDraftYet'
    BY <2>2, <2>3
  <2>10. FailsNoDraft'
    BY <2>1, <2>2, <2>3, <2>4
  <2>11. ApprovedDraftIsKept'
    BY <2>1, <2>2, <2>3 DEF Outcomes
  <2> QED
    BY <2>7, <2>8, <2>9, <2>10, <2>11
<1>22. ASSUME NEW p \in Procs, UpdFails(p) PROVE Goal
  BY <1>22 DEF UpdFails, rows, Queued, Goto, Return, NoWrite, Writes, Outcomes
<1>23. ASSUME NEW t \in Tasks, GetsOld(t) PROVE Goal
  BY <1>23 DEF GetsOld, Queued
<1>24. ASSUME NEW t \in Tasks, BrainExpire(t) PROVE Goal
  BY <1>24 DEF BrainExpire, Queued, SetStatus
<1>25. ASSUME NEW t \in Tasks, OpReject(t) PROVE Goal
  BY <1>25 DEF OpReject, rows, Queued, Goto, Writes, Outcomes
<1>26. ASSUME NEW t \in Tasks, OpFinal(t) PROVE Goal
  BY <1>26 DEF OpFinal, rows, Queued, Goto
<1>27. ASSUME NEW t \in Tasks, OpApprove(t) PROVE Goal
  BY <1>27 DEF OpApprove, rows, Queued, Goto
<1>28. ASSUME NEW t \in Tasks, OpCancel(t) PROVE Goal
  BY <1>28 DEF OpCancel, Queued, SetStatus
<1>29. CASE BrainReap
  BY <1>29 DEF BrainReap, Queued
<1>30. CASE OpFinalWrite
  <2>1. pc[Operator] = "final" /\ job[Operator] \in Tasks
    BY <1>30 DEF OpFinalWrite
  <2>2. CASE SetStatus(job[Operator], "rejected_final", "operator") /\ Goto(Operator, "clear") /\ UNCHANGED <<job, want>>
    BY <1>30, <2>1, <2>2 DEF OpFinalWrite, SetStatus, Goto
  <2>3. CASE UNCHANGED rows /\ Exit(Operator)
    BY <1>30, <2>1, <2>3 DEF OpFinalWrite, rows, Exit, Goto, NoWrite
  <2> QED
    BY <1>30, <2>2, <2>3 DEF OpFinalWrite
<1>31. CASE OpClear
  BY <1>31, OpClearKeepsDrafts
<1>32. CASE OpApproveWrite
  <2>1. pc[Operator] = "approve" /\ job[Operator] \in Tasks /\ Exit(Operator)
        /\ UNCHANGED <<marker, swept>>
    BY <1>32 DEF OpApproveWrite
  <2>2. CASE SetStatus(job[Operator], "approved", "operator")
    BY <2>1, <2>2 DEF SetStatus, Exit, Goto, NoWrite
  <2>3. CASE UNCHANGED rows
    BY <2>1, <2>3 DEF rows, Exit, Goto, NoWrite
  <2> QED
    BY <1>32, <2>2, <2>3 DEF OpApproveWrite
<1>33. CASE UNCHANGED vars
  BY <1>33 DEF vars, rows
<1> QED
  BY <1>1, <1>2, <1>3, <1>4, <1>5, <1>6, <1>7, <1>8, <1>9, <1>10, <1>11, <1>12, <1>13, <1>14, <1>15, <1>16, <1>17, <1>18, <1>19, <1>20, <1>21, <1>22, <1>23, <1>24, <1>25, <1>26, <1>27, <1>28, <1>29, <1>30, <1>31, <1>32, <1>33 DEF Next, Sweep, Run, Fault, Upd, Operate, OpStep

\* No approved draft is failed or queued again unless the operator rejected it,
\* whatever runs die, crash before their graph or find no atoms, whatever
\* sweeps roll back, and whatever the operator decides or deletes, as long as no
\* node raises, the brain daemon reaps nothing, the database answers, and sweeps
\* neither overlap nor miss a heartbeat.
THEOREM ApprovedDraftsAreKept ==
  ASSUME MaxRegens = 0, {"raise", "stall", "dbfail", "overlap", "brain"} \cap Events = {}
  PROVE  Spec => []ApprovedDraftIsKept
<1> USE ConstantsAssumption DEF Procs
<1>1. Init => LeaseInv /\ DraftInv /\ ApprovedDraftIsKept
  <2> SUFFICES ASSUME Init PROVE LeaseInv /\ DraftInv /\ ApprovedDraftIsKept
    OBVIOUS
  <2>1. LeaseInv
    BY DEF Init, NoWrite, LeaseInv, NoRedrafts, OneSweeper, BetweenJobs, OneRun,
           QueuedHasNoRun, SweptHasNoRun, AttendedIsFresh, Attended
  <2>2. DraftInv
    BY DEF Init, DraftInv, StillInWork, Undelivered, OperatorSeesDelivered, Acting,
           NoDraftYet, FailsNoDraft, SweepsNoDraft
  <2>3. ApprovedDraftIsKept
    BY DEF Init, ApprovedDraftIsKept
  <2> QED
    BY <2>1, <2>2, <2>3
<1>2. TypeOK /\ LeaseInv /\ [Next]_vars => LeaseInv'
  BY LeaseInvInductive
<1>3. TypeOK /\ LeaseInv /\ DraftInv /\ ApprovedDraftIsKept /\ [Next]_vars
        => DraftInv' /\ ApprovedDraftIsKept'
  BY DraftInvInductive
<1> QED
  BY <1>1, <1>2, <1>3, TypeCorrect, PTL DEF Spec
==============================================================================
