------------------------- MODULE PipelineTasksLease --------------------------
(***************************************************************************)
(* pipeline_tasks implements LeasedQueue as long as the sweeps of flow     *)
(* runs do not overlap, heartbeats reach the database, and no operator     *)
(* sends tasks back for a redraft: then in_progress is the lease, and the  *)
(* run whose job the task is holds it.                                     *)
(***************************************************************************)
EXTENDS PipelineTasks

QueueState ==
  [t \in Tasks |-> CASE Queued(t) -> "queued"
                     [] status[t] = "in_progress" -> "leased"
                     [] OTHER -> "settled"]

LeaseHolder ==
  [t \in Tasks |-> IF status[t] = "in_progress" /\ Attended(t)
                     THEN CHOOSE s \in Slots : job[s] = t
                     ELSE NoTask]

LQ == INSTANCE LeasedQueue WITH
        Runs <- Slots, Nobody <- NoTask, MaxAttempts <- 1 + MaxRetries,
        state <- QueueState, holder <- LeaseHolder, attempts <- claims

\* Claim, the run's own exits, the sweep and the reaper together keep the
\* promises of LeasedQueue: in particular no row is taken from a live run, and
\* at most 1 + max_retries runs are spent on a task.
ImplementsLeasedQueue == LQ!Spec
==============================================================================
