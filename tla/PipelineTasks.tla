---------------------------- MODULE PipelineTasks ----------------------------
(***************************************************************************)
(* The life of a row of pipeline_tasks: flow runs claim it, drive its      *)
(* content graph, and write an outcome; the sweep at the start of every    *)
(* flow run, the brain daemon and the operator write the same row.         *)
(*                                                                         *)
(* One action is one SQL statement or one transaction, so everything two   *)
(* processes can interleave in the code they can interleave here.  A       *)
(* transaction is one action at its COMMIT; the sweep's SELECT, which      *)
(* takes no locks, is an action of its own.                                *)
(***************************************************************************)
EXTENDS Naturals, FiniteSets

CONSTANTS
  Tasks,        \* task rows, numbered by created_at
  Slots,        \* places of the work pool: each hosts one flow run at a time
  Operator,     \* the operator's HTTP session
  NoTask,
  MaxRetries,   \* sweep_stale_tasks(max_retries), _REGISTRY_RELEASE_MAX_RETRIES
  MaxRegens,    \* bound: how often the operator sends one task back for a redraft
  Events        \* what the environment may do, a subset of EventKinds

EventKinds ==
  { "kill",       \* a flow run dies (OOM, container kill)
    "crash",      \* an exception before the content graph starts
    "raise",      \* a graph node raises
    "registry",   \* the atom registry of the subprocess is empty
    "stall",      \* a live run's heartbeat does not reach the database
    "dbfail",     \* a statement fails with the connection
    "clear",      \* deleting the swept checkpoints fails
    "overlap",    \* two flow runs sweep at the same time
    "brain",      \* the brain daemon reaps stuck rows and expires approvals
    "operator",   \* the operator approves and rejects
    "cancel",     \* the operator deletes a task
    "defer" }     \* game mode or the spend throttle defers claiming

ASSUME ConstantsAssumption ==
  /\ Tasks \subseteq Nat
  /\ IsFiniteSet(Slots) /\ Slots # {}
  /\ Operator \notin Slots
  /\ NoTask \notin Tasks /\ NoTask \notin Slots
  /\ MaxRetries \in Nat /\ MaxRegens \in Nat
  /\ Events \subseteq EventKinds

VARIABLES
  status,   \* pipeline_tasks.status
  retry,    \* pipeline_tasks.retry_count
  age,      \* of updated_at, for in_progress rows: 0, 1 = sweepable, 2 = reapable
  cause,    \* who decided: stands for error_message and the audit rows
  marker,   \* pipeline_versions.stage_data ? 'qa_approved_snapshot'
  pc,       \* where each process is
  job,      \* the task it works on
  swept,    \* the buckets of a flow run's sweep, which it later reports
  want,     \* the update a process is about to apply, and what it does next
  claims,   \* history: how often each task was claimed
  regens    \* history: how often the operator asked for a redraft

rows  == <<status, age, cause>>
vars  == <<rows, retry, marker, pc, job, swept, want, claims, regens>>

Procs == Slots \cup {Operator}
Status == { "pending", "in_progress", "awaiting_approval", "approved", "failed",
            "cancelled", "rejected", "rejected_retry", "rejected_final" }
Causes == { "none", "crash", "registry", "node", "abort", "retries", "brain",
            "promoted", "kept", "curator", "operator" }
Labels == { "idle", "sweep", "claim", "start", "graph", "tail", "select",
            "write", "finalize", "post", "crash", "final", "approve", "clear" }
Buckets == { "none", "promote", "reset", "fail" }
Outcomes == {"awaiting_approval", "failed", "rejected", "rejected_retry", "rejected_final"}
Writes == [to : Outcomes \cup {"none"}, why : Causes,
           next : {"idle", "finalize", "post", "clear"}]

\* A "discarded" marker is still in the row: the operator rejected the draft it
\* vouches for, and has not deleted it yet.  The code reads "live" and
\* "discarded" alike.
Markers == {"none", "live", "discarded"}
HasMarker(t) == marker[t] # "none"

NoWrite == [to |-> "none", why |-> "none", next |-> "idle"]
Unswept == [t \in Tasks |-> "none"]

\* Mutant: rejected_retry was once not claimed, and such tasks never ran again.
ClaimableOnlyPending(t) == status[t] = "pending"
Claimable(t) == status[t] \in {"pending", "rejected_retry"}

Producing(s, t) == job[s] = t /\ pc[s] \in {"start", "graph", "tail"}

Init ==
  /\ status = [t \in Tasks |-> "pending"]
  /\ retry = [t \in Tasks |-> 0]
  /\ age = [t \in Tasks |-> 0]
  /\ cause = [t \in Tasks |-> "none"]
  /\ marker = [t \in Tasks |-> "none"]
  /\ pc = [p \in Procs |-> "idle"]
  /\ job = [p \in Procs |-> NoTask]
  /\ swept = [s \in Slots |-> Unswept]
  /\ want = [p \in Procs |-> NoWrite]
  /\ claims = [t \in Tasks |-> 0]
  /\ regens = [t \in Tasks |-> 0]

------------------------------------------------------------------------------
(* Steps shared by the handlers below. *)

\* Every status write also stamps updated_at.
SetStatus(t, new, why) ==
  /\ status' = [status EXCEPT ![t] = new]
  /\ cause' = [cause EXCEPT ![t] = why]
  /\ age' = [age EXCEPT ![t] = 0]

Goto(p, label) == pc' = [pc EXCEPT ![p] = label]

Exit(p) ==
  /\ Goto(p, "idle")
  /\ job' = [job EXCEPT ![p] = NoTask]
  /\ want' = [want EXCEPT ![p] = NoWrite]

\* Call update_task, then go on at label next.
Update(p, new, why, next) ==
  /\ want' = [want EXCEPT ![p] = [to |-> new, why |-> why, next |-> next]]
  /\ Goto(p, "select")
  /\ UNCHANGED job

\* Mutant: forgets which task the rest of the run is about.
ReturnDropsTheTask(p) ==
  /\ Goto(p, want[p].next)
  /\ want' = [want EXCEPT ![p] = NoWrite]
  /\ job' = [job EXCEPT ![p] = NoTask]
Return(p) ==
  /\ Goto(p, want[p].next)
  /\ want' = [want EXCEPT ![p] = NoWrite]
  /\ job' = [job EXCEPT ![p] = IF want[p].next = "idle" THEN NoTask ELSE @]

\* update_task: the SELECT that protects cancelled and rejected rows ...
UpdSelect(p) ==
  /\ pc[p] = "select"
  /\ IF status[job[p]] \in {"cancelled", "rejected"}
          /\ want[p].to \notin {"cancelled", "rejected"}
       THEN Return(p)
       ELSE Goto(p, "write") /\ UNCHANGED <<job, want>>
  /\ UNCHANGED <<rows, retry, marker, swept, claims, regens>>

\* ... and the UPDATE, a statement of its own with no condition on status.
\* reject_task writes through it too: what the operator rejected is discarded.
UpdWrite(p) ==
  LET t == job[p]  new == want[p].to IN
  /\ pc[p] = "write"
  /\ SetStatus(t, new, want[p].why)
  /\ regens' = IF new = "rejected_retry" THEN [regens EXCEPT ![t] = @ + 1] ELSE regens
  /\ marker' = [marker EXCEPT ![t] =
                  IF p = Operator /\ @ = "live" THEN "discarded" ELSE @]
  /\ Return(p)
  /\ UNCHANGED <<retry, swept, claims>>

\* update_task logs a database error and returns None; no caller looks.
UpdFails(p) ==
  /\ "dbfail" \in Events
  /\ pc[p] \in {"select", "write"}
  /\ Return(p)
  /\ UNCHANGED <<rows, retry, marker, swept, claims, regens>>

\* update_task_status_guarded: SELECT FOR UPDATE, then an UPDATE.  It answers a
\* database error as it answers a status that is not allowed, with None.
Passes(t, allowed) == status[t] \in allowed
Refuses(t, allowed) == status[t] \notin allowed \/ "dbfail" \in Events

------------------------------------------------------------------------------
(* A flow run starts by sweeping: reclaim_stale_inprogress_tasks. *)

\* Mutant: the cutoff on updated_at is missing.
StaleAtAnyAge(t) == status[t] = "in_progress"
Stale(t) == status[t] = "in_progress" /\ age[t] >= 1

\* Mutants: retries are looked at before the marker; one retry too many; the
\* exhausted tasks are in no bucket.
BucketRetriesFirst(t) ==
  CASE ~Stale(t) -> "none"
    [] Stale(t) /\ retry[t] < MaxRetries -> "reset"
    [] OTHER -> IF HasMarker(t) THEN "promote" ELSE "fail"
BucketOffByOne(t) ==
  CASE ~Stale(t) -> "none"
    [] Stale(t) /\ HasMarker(t) -> "promote"
    [] Stale(t) /\ ~HasMarker(t) /\ retry[t] <= MaxRetries -> "reset"
    [] OTHER -> "fail"
BucketForgetsExhausted(t) ==
  CASE Stale(t) /\ HasMarker(t) -> "promote"
    [] Stale(t) /\ ~HasMarker(t) /\ retry[t] < MaxRetries -> "reset"
    [] OTHER     -> "none"
Bucket(t) ==
  CASE ~Stale(t) -> "none"
    [] Stale(t) /\ HasMarker(t) -> "promote"
    [] Stale(t) /\ ~HasMarker(t) /\ retry[t] < MaxRetries -> "reset"
    [] OTHER -> "fail"

SweepRead(s) ==
  /\ pc[s] = "idle"
  /\ "overlap" \in Events \/ \A r \in Slots : pc[r] # "sweep"
  /\ swept' = [swept EXCEPT ![s] = [t \in Tasks |-> Bucket(t)]]
  /\ Goto(s, IF \E t \in Tasks : Stale(t) THEN "sweep" ELSE "claim")
  /\ UNCHANGED <<rows, retry, marker, job, want, claims, regens>>

\* Mutant: a reset is not charged.
RetryUncharged(bucket, t) == retry[t]
RetryAfter(bucket, t) == IF bucket = "reset" THEN retry[t] + 1 ELSE retry[t]

\* The three batch UPDATEs are keyed by task_id alone.
SweepWrite(s) ==
  LET B(t) == swept[s][t] IN
  /\ pc[s] = "sweep"
  /\ status' = [t \in Tasks |-> CASE B(t) = "promote" -> "awaiting_approval"
                                  [] B(t) = "reset"   -> "pending"
                                  [] B(t) = "fail"    -> "failed"
                                  [] OTHER            -> status[t]]
  /\ cause' = [t \in Tasks |-> CASE B(t) = "promote" -> "promoted"
                                 [] B(t) = "fail"    -> "retries"
                                 [] OTHER            -> cause[t]]
  /\ age' = [t \in Tasks |-> IF B(t) = "none" THEN age[t] ELSE 0]
  /\ retry' = [t \in Tasks |-> RetryAfter(B(t), t)]
  /\ Goto(s, "claim")
  /\ UNCHANGED <<marker, job, swept, want, claims, regens>>

\* _clear_checkpoints_for_threads swallows its error inside the transaction.
\* The transaction is aborted all the same, its COMMIT rolls back, and the
\* sweep reports the buckets it believes it wrote.
SweepRolledBack(s) ==
  /\ "clear" \in Events
  /\ pc[s] = "sweep"
  /\ Goto(s, "claim")
  /\ UNCHANGED <<rows, retry, marker, job, swept, want, claims, regens>>

\* An error the sweep sees is reported as nothing swept.
SweepFails(s) ==
  /\ "dbfail" \in Events
  /\ pc[s] = "sweep"
  /\ swept' = [swept EXCEPT ![s] = Unswept]
  /\ Goto(s, "claim")
  /\ UNCHANGED <<rows, retry, marker, job, want, claims, regens>>

------------------------------------------------------------------------------
(* Then it claims the oldest claimable row no other transaction has locked. *)

MayBeLocked(s, t) ==
  \/ \E r \in Slots \ {s} : \/ pc[r] = "claim"
                            \/ pc[r] = "sweep" /\ swept[r][t] # "none"
  \/ \E p \in Procs : pc[p] \in {"write", "crash", "final", "approve"} /\ job[p] = t

Claim(s) ==
  /\ pc[s] = "claim"
  /\ \E t \in Tasks :
       /\ Claimable(t)
       /\ \A u \in Tasks : u < t /\ Claimable(u) => MayBeLocked(s, u)
       /\ status' = [status EXCEPT ![t] = "in_progress"]
       /\ age' = [age EXCEPT ![t] = 0]
       /\ job' = [job EXCEPT ![s] = t]
       /\ claims' = [claims EXCEPT ![t] = @ + 1]
  /\ swept' = [swept EXCEPT ![s] = Unswept]
  /\ Goto(s, "start")
  /\ UNCHANGED <<cause, retry, marker, want, regens>>

\* The queue is empty, or the gates of the flow defer new work.
ClaimNothing(s) ==
  /\ pc[s] = "claim"
  /\ "defer" \in Events \/ \A t \in Tasks : Claimable(t) => MayBeLocked(s, t)
  /\ swept' = [swept EXCEPT ![s] = Unswept]
  /\ Goto(s, "idle")
  /\ UNCHANGED <<rows, retry, marker, job, want, claims, regens>>

------------------------------------------------------------------------------
(* The run. *)

Start(s) ==
  /\ pc[s] = "start"
  /\ Goto(s, "graph")
  /\ UNCHANGED <<rows, retry, marker, job, swept, want, claims, regens>>

\* An exception before TemplateRunner reaches the flow's handler, which probes
\* for an approved draft (a failing probe finds none) ...
FlowCrashes(s) ==
  /\ "crash" \in Events
  /\ pc[s] = "start"
  /\ \E approved \in {HasMarker(job[s]), FALSE} :
       /\ approved # HasMarker(job[s]) => "dbfail" \in Events
       /\ want' = [want EXCEPT ![s] =
                    [to   |-> IF approved THEN "awaiting_approval" ELSE "failed",
                     why  |-> IF approved THEN "promoted" ELSE "crash",
                     next |-> "idle"]]
  /\ Goto(s, "crash")
  /\ UNCHANGED <<rows, retry, marker, job, swept, claims, regens>>

\* ... and writes the outcome if the row is still in_progress; an error is logged.
CrashWrite(s) ==
  /\ pc[s] = "crash"
  /\ \/ Passes(job[s], {"in_progress"}) /\ SetStatus(job[s], want[s].to, want[s].why)
     \/ Refuses(job[s], {"in_progress"}) /\ UNCHANGED rows
  /\ Exit(s)
  /\ UNCHANGED <<retry, marker, swept, claims, regens>>

\* An exception out of TemplateRunner never reaches the flow's handlers:
\* process_content_generation_task marks the task failed and returns.
RegistryFault(s) ==
  /\ "registry" \in Events
  /\ pc[s] = "start"
  /\ Update(s, "failed", "registry", "idle")
  /\ UNCHANGED <<rows, retry, marker, swept, claims, regens>>

NodeRaises(s) ==
  /\ "raise" \in Events
  /\ pc[s] \in {"graph", "tail"}
  /\ Update(s, "failed", "node", "idle")
  /\ UNCHANGED <<rows, retry, marker, swept, claims, regens>>

\* qa.aggregate approves: the draft and its marker are stored at once.
QaApprove(s) ==
  /\ pc[s] = "graph"
  /\ marker' = [marker EXCEPT ![job[s]] = "live"]
  /\ Goto(s, "tail")
  /\ UNCHANGED <<rows, retry, job, swept, want, claims, regens>>

\* qa.aggregate flags the draft for the human instead of rejecting it, or the
\* best-effort write of the marker fails.
QaPassUnmarked(s) ==
  /\ pc[s] = "graph"
  /\ Goto(s, "tail")
  /\ UNCHANGED <<rows, retry, marker, job, swept, want, claims, regens>>

\* qa.aggregate rejects; a stored approved draft is kept instead, unless reading
\* the marker fails.
QaReject(s) ==
  /\ pc[s] = "graph"
  /\ \/ HasMarker(job[s]) /\ Update(s, "awaiting_approval", "kept", "post")
     \/ (HasMarker(job[s]) => "dbfail" \in Events) /\ Update(s, "rejected", "none", "post")
  /\ UNCHANGED <<rows, retry, marker, swept, claims, regens>>

\* content.persist_task: the guarded write, then update_task with the rest of
\* the columns.  A blocked guard raises, and a raising node is marked failed.
PersistTask(s) ==
  LET t == job[s]  allowed == {"in_progress", "pending"} IN
  /\ pc[s] = "tail"
  /\ \/ /\ Passes(t, allowed)
        /\ SetStatus(t, "awaiting_approval", "none")
        /\ Update(s, "awaiting_approval", "none", "finalize")
     \/ /\ Refuses(t, allowed)
        /\ UNCHANGED rows
        /\ Update(s, "failed", "abort", "idle")
  /\ UNCHANGED <<retry, marker, swept, claims, regens>>

\* content.evaluate_auto_publish re-asserts the status on a working row.
Finalize(s) ==
  /\ pc[s] = "finalize"
  /\ \/ Passes(job[s], {"in_progress"}) /\ SetStatus(job[s], "awaiting_approval", "none")
     \/ Refuses(job[s], {"in_progress"}) /\ UNCHANGED rows
  /\ Goto(s, "post")
  /\ UNCHANGED <<retry, marker, job, swept, want, claims, regens>>

\* run_post_pipeline_actions: the curator may reject an undecided task.
Decided == {"failed", "cancelled", "approved", "rejected"}

PostPipeline(s) ==
  /\ pc[s] = "post"
  /\ \/ Exit(s)
     \/ status[job[s]] \notin Decided /\ Update(s, "rejected", "curator", "idle")
  /\ UNCHANGED <<rows, retry, marker, swept, claims, regens>>

Kill(s) ==
  /\ "kill" \in Events
  /\ pc[s] # "idle"
  /\ Exit(s)
  /\ swept' = [swept EXCEPT ![s] = Unswept]
  /\ UNCHANGED <<rows, retry, marker, claims, regens>>

------------------------------------------------------------------------------
(* Time and the heartbeat sidecar. *)

Attended(t) == \E s \in Slots : job[s] = t

GetsOld(t) ==
  /\ status[t] = "in_progress" /\ age[t] < 2
  /\ Attended(t) => "stall" \in Events
  /\ age' = [age EXCEPT ![t] = @ + 1]
  /\ UNCHANGED <<status, cause, retry, marker, pc, job, swept, want, claims, regens>>

\* heartbeat_task's False, "downstream work should abort", is not looked at.
Heartbeat(s) ==
  LET t == job[s] IN
  /\ pc[s] \in {"graph", "tail", "finalize"}
  /\ status[t] \in {"pending", "in_progress"} /\ age[t] > 0
  /\ age' = [age EXCEPT ![t] = 0]
  /\ UNCHANGED <<status, cause, retry, marker, pc, job, swept, want, claims, regens>>

------------------------------------------------------------------------------
(* The brain daemon: auto_remediate, two single-statement updates. *)

BrainReap ==
  LET stuck == {t \in Tasks : status[t] = "in_progress" /\ age[t] = 2} IN
  /\ "brain" \in Events
  /\ stuck # {}
  /\ status' = [t \in Tasks |-> IF t \in stuck THEN "failed" ELSE status[t]]
  /\ cause' = [t \in Tasks |-> IF t \in stuck THEN "brain" ELSE cause[t]]
  /\ age' = [t \in Tasks |-> IF t \in stuck THEN 0 ELSE age[t]]
  /\ UNCHANGED <<retry, marker, pc, job, swept, want, claims, regens>>

BrainExpire(t) ==
  /\ "brain" \in Events
  /\ status[t] = "awaiting_approval"
  /\ SetStatus(t, "rejected", "brain")
  /\ UNCHANGED <<retry, marker, pc, job, swept, want, claims, regens>>

------------------------------------------------------------------------------
(* The operator.  Each endpoint reads the status first and writes later. *)

\* reject_task on a task that awaits approval.
OpReject(t) ==
  /\ "operator" \in Events
  /\ pc[Operator] = "idle" /\ status[t] = "awaiting_approval"
  /\ \E new \in {"rejected_retry", "rejected_final"} :
       /\ new = "rejected_retry" => regens[t] < MaxRegens
       /\ want' = [want EXCEPT ![Operator] =
                    [to |-> new, why |-> "operator", next |-> "clear"]]
  /\ job' = [job EXCEPT ![Operator] = t]
  /\ Goto(Operator, "select")
  /\ UNCHANGED <<rows, retry, marker, swept, claims, regens>>

\* reject_task on a rejected task finalizes it, unless it was claimed meanwhile.
OpFinal(t) ==
  /\ "operator" \in Events
  /\ pc[Operator] = "idle" /\ status[t] \in {"rejected_retry", "rejected_final"}
  /\ job' = [job EXCEPT ![Operator] = t]
  /\ Goto(Operator, "final")
  /\ UNCHANGED <<rows, retry, marker, swept, want, claims, regens>>

\* The request's second update_task writes no status.
OpFinalWrite ==
  LET t == job[Operator]  allowed == {"rejected_retry", "rejected_final"} IN
  /\ pc[Operator] = "final"
  /\ \/ /\ Passes(t, allowed)
        /\ SetStatus(t, "rejected_final", "operator")
        /\ Goto(Operator, "clear")
        /\ UNCHANGED <<job, want>>
     \/ Refuses(t, allowed) /\ UNCHANGED rows /\ Exit(Operator)
  /\ UNCHANGED <<retry, marker, swept, claims, regens>>

\* clear_qa_approved_snapshot comes last, and only logs its failure; nor does it
\* happen if an update_task before it fails.
OpClear ==
  /\ pc[Operator] = "clear"
  /\ \/ marker' = [marker EXCEPT ![job[Operator]] = "none"]
     \/ "dbfail" \in Events /\ UNCHANGED marker
  /\ Exit(Operator)
  /\ UNCHANGED <<rows, retry, swept, claims, regens>>

OpApprove(t) ==
  /\ "operator" \in Events
  /\ pc[Operator] = "idle" /\ status[t] = "awaiting_approval"
  /\ job' = [job EXCEPT ![Operator] = t]
  /\ Goto(Operator, "approve")
  /\ UNCHANGED <<rows, retry, marker, swept, want, claims, regens>>

\* update_task_status has no condition on the status it replaces.
OpApproveWrite ==
  /\ pc[Operator] = "approve"
  /\ \/ SetStatus(job[Operator], "approved", "operator")
     \/ "dbfail" \in Events /\ UNCHANGED rows
  /\ Exit(Operator)
  /\ UNCHANGED <<retry, marker, swept, claims, regens>>

\* delete_task: one unconditional write.
OpCancel(t) ==
  /\ "cancel" \in Events
  /\ SetStatus(t, "cancelled", "operator")
  /\ UNCHANGED <<retry, marker, pc, job, swept, want, claims, regens>>

------------------------------------------------------------------------------
Sweep(s) == SweepRead(s) \/ SweepWrite(s) \/ SweepRolledBack(s) \/ SweepFails(s)
Run(s) ==
  \/ Start(s) \/ QaApprove(s) \/ QaPassUnmarked(s) \/ QaReject(s)
  \/ PersistTask(s) \/ Finalize(s) \/ PostPipeline(s) \/ CrashWrite(s)
Fault(s) == FlowCrashes(s) \/ RegistryFault(s) \/ NodeRaises(s) \/ Kill(s)
Upd(p) == UpdSelect(p) \/ UpdWrite(p) \/ UpdFails(p)
Operate(t) == OpReject(t) \/ OpFinal(t) \/ OpApprove(t) \/ OpCancel(t)
OpStep == OpFinalWrite \/ OpClear \/ OpApproveWrite

Next ==
  \/ \E s \in Slots : \/ Sweep(s) \/ Claim(s) \/ ClaimNothing(s)
                      \/ Run(s) \/ Fault(s) \/ Heartbeat(s)
  \/ \E p \in Procs : Upd(p)
  \/ \E t \in Tasks : GetsOld(t) \/ BrainExpire(t) \/ Operate(t)
  \/ BrainReap \/ OpStep

\* Prefect keeps starting flow runs and a live run keeps going; a run may be
\* killed at any point, but not at every sweep and every claim for ever.
Fairness ==
  /\ \A s \in Slots : /\ WF_vars(SweepRead(s)) /\ SF_vars(SweepWrite(s))
                      /\ SF_vars(Claim(s)) /\ WF_vars(ClaimNothing(s))
                      /\ WF_vars(Run(s))
  /\ \A p \in Procs : WF_vars(UpdSelect(p) \/ UpdWrite(p))
  /\ \A t \in Tasks : WF_vars(GetsOld(t))

Spec == Init /\ [][Next]_vars
FairSpec == Spec /\ Fairness

------------------------------------------------------------------------------
(* Properties. *)

RowsOK ==
  /\ status \in [Tasks -> Status]
  /\ retry \in [Tasks -> Nat]
  /\ age \in [Tasks -> 0..2]
  /\ cause \in [Tasks -> Causes]
  /\ marker \in [Tasks -> Markers]
  /\ claims \in [Tasks -> Nat]
  /\ regens \in [Tasks -> Nat]

ProcsOK ==
  /\ pc \in [Procs -> Labels]
  /\ job \in [Procs -> Tasks \cup {NoTask}]
  /\ swept \in [Slots -> [Tasks -> Buckets]]
  /\ want \in [Procs -> Writes]
  /\ \A p \in Procs : pc[p] \notin {"idle", "sweep", "claim"} => job[p] \in Tasks
  /\ \A p \in Procs : pc[p] \in {"select", "write"} => want[p].to \in Outcomes
  /\ \A p \in Procs : pc[p] = "crash" => want[p].to \in {"awaiting_approval", "failed"}

\* Every variable keeps its type; a process that is past claiming has a task,
\* and one that is about to write has a status to write.
TypeOK == RowsOK /\ ProcsOK

Queued(t) == status[t] \in {"pending", "rejected_retry"}

\* No generation is free: each claim of a task beyond its first was charged to
\* retry_count by a sweep, or was asked for by the operator, and a task that
\* waits in the queue is already charged for its next claim.
RerunsArePaidFor ==
  \A t \in Tasks :
    claims[t] + (IF Queued(t) THEN 1 ELSE 0) <= 1 + retry[t] + regens[t]

\* However the flow runs' sweeps overlap, they reset a task at most once more
\* per slot than sweep_stale_tasks(max_retries) allows.
PendingResets(t) == {s \in Slots : pc[s] = "sweep" /\ swept[s][t] = "reset"}
ResetsAreBounded ==
  \A t \in Tasks :
    retry[t] + Cardinality(PendingResets(t)) <= MaxRetries - 1 + Cardinality(Slots)

\* "So concurrent flow runs don't grab the same task" (claim_pending_task):
\* no two live flow runs are producing a draft of one task.
SoleProducer ==
  \A t \in Tasks : \A r, s \in Slots : Producing(r, t) /\ Producing(s, t) => r = s

\* "Failing it or regenerating it both destroy approved work" (the promote
\* bucket of sweep_stale_tasks, _mark_task_failed_on_flow_crash): a task whose
\* stored draft QA approved is neither failed nor queued for another run,
\* unless the operator rejected that draft.
ApprovedDraftIsKept ==
  \A t \in Tasks : status[t] = "failed" \/ Queued(t) => marker[t] # "live"

\* Recovery and keep-best never "resurrect the very draft the operator threw
\* away" (clear_qa_approved_snapshot): what they put into the approval queue is
\* a draft no operator has rejected.
Recovered(t) == /\ status[t] # "awaiting_approval"
                /\ status'[t] = "awaiting_approval" /\ cause'[t] \in {"promoted", "kept"}
DiscardedStaysDiscarded ==
  [][\A t \in Tasks : Recovered(t) => marker[t] = "live"]_vars

\* "Returns counts": a task the sweep reports as recovered has left in_progress
\* by that sweep (sweep_stale_tasks, _emit_sweep_findings).
SweepReportIsTrue ==
  [][\A s \in Slots : pc[s] = "sweep" /\ pc'[s] = "claim" =>
       \A t \in Tasks : /\ swept'[s][t] = "promote" => status'[t] = "awaiting_approval"
                        /\ swept'[s][t] = "reset" => status'[t] = "pending"
                        /\ swept'[s][t] = "fail" => status'[t] = "failed"]_vars

\* A flow run that dies never strands its task: it leaves in_progress again
\* (sweep_stale_tasks; the run's own exits).
NoTaskStranded ==
  \A t \in Tasks : status[t] = "in_progress" ~> status[t] # "in_progress"

\* Every queued task reaches an outcome, however often its runs are killed:
\* retries are charged, and run out.
EveryTaskDecided ==
  \A t \in Tasks : Queued(t) ~> ~(Queued(t) \/ status[t] = "in_progress")
==============================================================================
