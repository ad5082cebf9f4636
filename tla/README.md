# Poindexter in TLA+

Poindexter writes, reviews and publishes articles without a person at the
keyboard: Prefect flow runs take tasks from a table, drive each through a
LangGraph content graph on a machine with one or two GPUs, and stop where an
operator has to decide. This directory models the parts of it where several
processes meet over shared state: the row of a task in `pipeline_tasks`, the gate
at which its graph waits for the operator, the row of its post and the files of the
public site, the lock on the GPUs, and the circuit breaker before a model provider.

Paths below are relative to `src/src/cofounder_agent/poindexter/`.

## 1. Inventory

### The processes

| process | what it does to shared state |
|---|---|
| Prefect flow runs (subprocesses of a work pool) | at their start sweep stale tasks, claim one, run its graph, write its outcome |
| worker (FastAPI) | the operator's HTTP endpoints, media jobs, the plugin scheduler |
| brain daemon | every few minutes reaps stuck tasks and expires approvals; probes; alerts |
| CLI and MCP servers | the operator's commands, through the services or through HTTP |
| Postgres | rows, session advisory locks |

### The components

| component | state | operations | hard behaviour | what makes it correct |
|---|---|---|---|---|
| task lifecycle (`flows/content_generation.py`, `services/tasks_db.py`) | `pipeline_tasks.status`, `retry_count`, `updated_at` | claim, sweep, heartbeat, guarded and unguarded status writes, crash handler | runs die anywhere; sweeps overlap; a SELECT and an UPDATE that are not one step; an aborted transaction | one run per task, charged reruns, no stranded task |
| content graph outcomes (`content_router_service.py`, `modules/content/atoms/*`) | `pipeline_versions.stage_data.qa_approved_snapshot` | QA approves, flags, rejects; persist; finalize; curate | five ways to fail after QA approved | an approved draft survives |
| operator decisions (`routes/*_routes.py`) | the same rows | reject, finalize a rejection, approve, cancel | read first, write later, clear the marker last | a decision stands |
| brain remediation (`brain/brain_daemon.py`) | the same rows | reap, expire | knows nothing of the run or of the draft | it only ends what is dead |
| GPU priority gate (`gpu_scheduler._PriorityGate`) | `_held`, `_waiters` | acquire, release, wake | a grant races a cancellation; aging | one owner, promised order, no starvation |
| GPU lock (`gpu_scheduler.GPUScheduler.lock`) | gates per card and process, advisory locks | two-tier acquire, scoping, fallback, release | settings cached per process; cancelled half-way, in and out; crashes | a card is used once at a time, nothing is left locked |
| admission and queue mirror | `gpu_queue` rows, EWMA of hold times | admit, defer | estimates | advisory only |
| graph runner and architect | LangGraph checkpoints | build, run, interrupt, resume | a resume of a stale checkpoint | a swept task starts afresh |
| approval gates (`approval_gate.py`, `approval_service`, `gate_resume`, `cli/pipeline.py`) | `awaiting_gate`, `regen_*`, `pipeline_gate_history`, the thread's checkpoint | pause, approve, reject, redo, resume, roll back, continue | the process that approves also drives the graph and may die, time out or fail to undo; a decision outlives the draft it was made of | what passes was seen, what was refused does not, one driver |
| publication (`publish_service`, `scheduled_publisher`, `scheduling_service`, `posts_approval_service`, `auto_publish`, `routes/cms_routes`) | `posts.status`, `published_at`, `awaiting_gate`, the veto marker, `pipeline_tasks.status` | stage, schedule, publish, promote, veto, park, sign off, refuse, go live, patch, delete, unapprove, unpublish | writes by id after a read; a tick between them; two tables | post and task agree; live only on a standing word |
| public site (`static_export_service`, two jobs) | files in object storage | export, retire, sweep orphans, reconcile | an export dies between two files, or goes on after one that failed; every export writes the listing of all posts; repair sees only count and age | the site comes to list what is published, and a rebuild brings back every page |
| expiry job (`jobs/expire_stale_approvals.py`) | the view `content_tasks` | expire | the view's trigger writes back what the scan read | a decision stands |
| social drafts | drafts, deliveries | approve, schedule, post, retry | the post succeeded and the answer was lost | at most once per platform |
| media generation and approval | `media_approvals`, dispatch claims | dispatch, approve, distribute | a dispatch twice | one render per medium |
| topic batches | batches, candidates | sweep, resolve, reap | two sweeps | one open batch per niche |
| alert dispatcher, episodes | fingerprints, episodes | dispatch, dedupe, resolve | a page lost between dedupe and send | every episode is paged |
| LLM resilience (`plugins/llm_resilience.py`) | `_opened_at`, `_half_open_in_flight`, `_failures`, `_semaphore` | run, allow, record, resize | results of calls admitted before a trip; cancelled calls; a semaphore replaced under its waiters | one probe per cooldown, recovers, no permit lost |
| webhook delivery | `webhook_events` | deliver, retry, give up | delivered but not marked | at least once |
| incremental ingestion (`watermark_cursor.py`) | cursor | page, advance | late rows behind the cursor | nothing is skipped |
| chat approvals | queued calls | queue, resolve, execute | resolved twice | one-shot |
| configuration, spend control, newsletter, identity, memory, integrations, writer and QA, CLI, MCP | caches, ledgers | | | |

They interact through rows (task lifecycle, outcomes, decisions, brain, gates,
publication), through the GPU lock (every local model call and every render takes
it), through the breaker (every call to a provider passes it) and through settings
that each process caches. A task's life is covered in three parts that share its
row: `PipelineTasks` until the operator decides, `ApprovalGates` where the graph
waits for him in its middle, `Publication` from his approval on; `StaticSite` starts
where a post goes live. `PROJECT.json` lists every component with its
files and says which are modelled.

### What is hard to test here

`PROJECT.json` "hazards" has each one at its line. In short: sweeps that overlap;
writes keyed by id only; checks one statement before the write they protect; an
error swallowed inside a transaction; deaths after QA approved; late runs; grants
that race cancellations; release paths that are cancelled; processes that disagree
on a setting; approvals that outlive their draft; two tables that one request
writes in two transactions; files that go up one by one; results that arrive after
the breaker has changed its state.

## 2. Modules

| module | models |
|---|---|
| `PipelineTasks` | the life of a task row: flow runs, sweep, graph outcomes, brain, operator |
| `LeasedQueue` | what the content queue promises: a task is leased by one run, and comes back only when that run ended |
| `PipelineTasksLease` | the refinement mapping from `PipelineTasks` to `LeasedQueue` |
| `PriorityGate` | `_PriorityGate`: the in-process tier of the GPU lock |
| `StarvationFreeLock` | what the gate promises |
| `GpuLock` | `GPUScheduler.lock`: gates of all processes, advisory locks, connections |
| `ApprovalGates` | one approval gate of one task: the atom, the surfaces that decide and resume, the sweep |
| `Publication` | one article: staging, slots, veto, final gate, scheduled publisher, CMS routes, withdrawal |
| `StaticSite` | the files of some posts, the exports that write them and the jobs that repair them |
| `LlmBreaker` | the circuit breaker, the retries and the replaceable semaphore of one provider |
| `MC...` | instances for TLC; the four modules above are instantiated by their .cfg alone |
| `...Proofs` | theorems and their proofs |

### PipelineTasks and the code

One action is one SQL statement or one transaction. A transaction is the action of
its COMMIT, except that the sweep's SELECT, which locks nothing, is an action of
its own (`SweepRead`, then `SweepWrite`). `SELECT ... FOR UPDATE SKIP LOCKED` may
pass over a row whenever some process is in the middle of a write to it
(`MayBeLocked`). A slot of the work pool hosts one flow run at a time and `pc`
says where it is:

    idle -SweepRead-> sweep -SweepWrite-> claim -Claim-> start -Start-> graph
      graph -QaApprove, QaPassUnmarked-> tail -PersistTask-> select -> write -> finalize
      finalize -Finalize-> post -PostPipeline-> idle
      graph -QaReject-> select -> write -> post
      start -FlowCrashes-> crash -CrashWrite-> idle
      start, graph, tail -RegistryFault, NodeRaises-> select -> write -> idle

`qa.aggregate` keeps a stored approved draft when it rejects, unless the read of the
marker fails ("dbfail"). `select` and `write` are the two statements of
`update_task`: the SELECT that protects cancelled and rejected rows, and the UPDATE
that does not look again; `want` is the update under way. `Passes` and `Refuses` are
`update_task_status_guarded`, which is atomic and answers a database error the same
way as a refusal.

`age` is how far `updated_at` lies behind: 0 fresh, 1 past the cutoff of the sweep
(30 minutes), 2 past that of the brain (180 + 10 minutes). It matters for
in_progress rows only and is 0 otherwise. A heartbeat keeps the row of a live run
fresh unless it does not get through ("stall").

`marker` is `stage_data ? 'qa_approved_snapshot'`. Its third value, "discarded", is
a ghost: the marker is still in the row and the code reads it like "live", but the
operator has rejected the draft it vouches for and has not deleted it yet.
`claims` and `regens` are history counters, `cause` stands for the error message
and the audit rows that tell who wrote a status.

What the environment may do is the constant `Events`; each configuration names the
events it allows, so each property says what it depends on.

### PriorityGate and the code

A step is what the event loop runs between two awaits. `_waiters` is a list ordered
by `seq`; here it is a set with the relation `elders`. A waiter's future is pending
(`parked`), has a result its coroutine has not seen (`granted`), was cancelled
(`cancelled`), or has a result while its task was cancelled (`revoked`): the last
is the race `acquire` handles by passing the grant on. A timeout is
`asyncio.wait_for` cancelling, so it is the same action. `gpu_sched_aging_seconds`
is read at every wake, so the window of each wake is any value of `Windows`.

What the order promises is said twice: `NeverJumpsAnElder`, that aging moves nobody past
an elder of its own class or a higher one, and `OnlyEldersPassTheAged`, that a waiter
which has aged to the first class is passed only by those that came before it. The
first alone would hold of a gate that never looks at the age (mutant `FirstByClass`).

### GpuLock and the code

A session is one call of `lock()`: it reads the scoping setting of its process
(`scoped`), derives its keys, takes the gates in ascending order, connects, takes
the advisory locks (scoped: the base key shared, then its cards; unscoped: the base
key exclusively), uses the cards, and releases. The gates here are plain locks whose
order `PriorityGate` answers for; in return `TakeGate` is strongly fair. Postgres
queues the waiters of an advisory lock (`ahead`): without that, shared holders of
the base key could starve an exclusive waiter. A connection that loses its session
(a cancelled release, a crash) keeps its locks until it is collected and the server
notices (`Collect`, `Reap`).

### Events the code is not ready for

`ApprovalGates`, `Publication`, `StaticSite`, `LlmBreaker` and `GpuLock` have in
their `EventKinds` a second group, "the same, where the code is not ready for it": a
fault or an overlap at a place where the code does break its promise. `Allowed(kind,
mild)` lets the fault strike where `mild` holds, and everywhere once `kind` is among
the events. So a run without the second group says exactly under which conditions a
property holds, and adding one of the group shows the failure (section 4).

### ApprovalGates and the code

A driver is a process that steps the graph: the flow run (`Flow`), or the surface
that approved, since an HTTP request of the worker or a CLI command resumes the
graph itself. One graph step is one checkpoint, except that the gate atom is as
many steps as it has statements:

    draft -Draft-> gate -GateRead-> regen -GateRegen-> redo -Redo-> draft
      regen -GateRegen-> tail -Republish-> mark -MarkDone-> idle
      regen -GateRegen-> pause -GatePause-> interrupt -Interrupt-> idle, or tail if resumed
    idle -Look-> approve -Approve-> resume -Resume-> (the node the checkpoint leads to)
      Look -> reject -Reject-> log -LogRejection-> idle
      Look -> redraft -Redraft-> resume
      resume -SetupFails-> undo, (anywhere) -Timeout-> undo -Rollback-> idle

The tail is that of `seo_refresh` (`content.republish_post`), whose last node closes
the task. `draft` numbers the drafts; what the operator read (`seen`) is the draft
and `retry_count` at the time he looked, and `reviewed`, `refused` and `passed`
are histories of drafts. `history` is `pipeline_gate_history` in order of
`created_at`; a rollback marks a row "deleted". The approval of a draft counts for
the attempt it was given in (`Approved`). `old` says that the stored checkpoint was
made by a graph of another signature. A run of the worker that raised has passed
through `_handle_run_exception`, which returns a summary, so `gate_resume` does
not roll back (`AfterRaise`).

### Publication and the code

Requests of the operator (`Request`), the flow run that auto-publishes (`Flow`) and
the publisher's loop (`Publisher`) share the task, its post, the post's slot, the
marker of the veto window and the column of the final gate. `op` is what a request
is for; `publish_post_from_task` is `Find`, then `Insert` and `Stamp`, or `Promote`.
`has` says that a process holds the id of a row that still exists: statements keyed
by id do nothing once the row is deleted, and a row inserted later has another id.
The publisher's tick is its SELECT for the gate (`TickStart`), the parking (`Park`),
and one transaction that demotes vetoed posts, promotes due ones and syncs their
tasks (`Tick`). `go` is a history variable: an approval or an operator's slot was
given and not withdrawn since.

Two routes write the row by its id and leave the task alone: `Patch` (`PATCH
/api/posts/{id}`: any status, any slot, any time, no check of the old status) and
`DeletePost` (`DELETE /api/posts/{id}`). `GoLive` and `GoLiveWrite` are the route that
puts a draft live: it reads the row, then writes row and task in one transaction. A
status the operator sets is his word, like an approval or a slot. In the run a PATCH
moves a post between staged and scheduled, or its slot, DELETE removes a post that is
not live, and go-live works on an approved article; anywhere else they are the event
"cms", which is in section 4: nothing in these routes knows the task, so any of them
parts it from its post.

`slot` is none, future or due. Time is `SlotComes`. `publish_now` and the status
`awaiting_gates`, which nothing calls or sets, are left out.

### StaticSite and the code

`live` are the rows that are published, `page` the file of each post (missing, with its
latest content, or with what it had before an edit), `index` the posts listed in
`posts/index.json`, `manifest` the count in `manifest.json`. Feed and sitemap are written
between index and manifest, from the same list, and nothing reads them to find drift.
An export is of one post and writes that post's page only, but listing and count for
all posts: `Fetch`, `UploadPage` or `Retire`, `Select`, `UploadIndex`, `UploadManifest`.
The reconciliation's rebuild shares these actions in its own order (`Select`,
`UploadIndex`, `UploadPage` of every post, `List` and `Retire` of orphans,
`UploadManifest`), and the orphan sweep its deletions. `pc` is the file at which a
process is, `todo` the pages it still has to write or delete, `got` the rows it has
read. A file that cannot be read, written or deleted ("file_fails") is logged and the
process goes on to the next; a dead process ("die") does not. `young` are the posts
younger than the manifest by `stale_minutes`.

The reconciliation job looks at the manifest's count and age (`Drift`), so the
properties are what these two can tell. Of the index they tell everything
(`IndexDriftIsSeen`), provided that the index is not what was lost ("file_lost"),
that posts do not replace one another within `stale_minutes` ("quick"), and that
exports which list other posts do not write at the same time ("overlap"). So the
listing follows the rows and pages of others disappear (`ListingFollows`). Of the pages
they tell nothing: a page that was lost stays lost until a rebuild runs for another
reason (`PageDriftIsSeen`, section 4). Then it comes back (`RebuildRestores`).

### LlmBreaker and the code

The coroutines of one event loop; a step is what runs between two awaits (the
breaker's `asyncio.Lock` is never held across one). A call is outside, queued on the
semaphore that was current when it arrived (`on`), calling, or sleeping a backoff
with the permit held. `opened` is `_opened_at`: None, within the cooldown, or past
it. Raising the cooldown can put it back within. Semaphores are numbered; a
replaced one keeps its holders and its queue. `record_failure` does not know whose
failure it gets, so any result clears the flag, and a failure while a probe is in
flight restarts the cooldown.

## 3. Runs

| run | question | result |
|---|---|---|
| `all_events` | one task, two slots, every fault, race and decision at once | `RerunsArePaidFor`, `ResetsAreBounded` hold |
| `recovery` | two tasks, two slots; runs die, crash, fail; the operator rejects and approves; sweeps roll back; no overlap, no stall, no redraft | `SoleProducer`, `ApprovedDraftIsKept`, and the refinement of `LeasedQueue` hold |
| `progress` | fair scheduling, runs killed at will, lost writes, two redrafts | `NoTaskStranded`, `EveryTaskDecided` hold |
| `gate` | four callers of three classes, cancelled anywhere; two aging windows | `HeldByOne`, `NeverJumpsAnElder`, `OnlyEldersPassTheAged`, and the refinement of `StarvationFreeLock` with its liveness hold |
| `gpu_lock` | three sessions in two processes that disagree on scoping, everything but the loss of Postgres | `CardsAreExclusive`, `NoGateIsOrphaned` hold |
| `gpu_progress` | every session wants both cards; Postgres unreachable for any of them at any time, timeouts, cancellations, crashes | `CardsAreExclusiveInAProcess`, `NoConnectionOutlivesItsSession`, `EveryWaiterServed` hold |
| `gates` | two requests, a CLI command, the flow run, one retry, one redo, any two faults | `NoUnreviewedPass`, `RefusalStands`, `PauseIsTrue`, `OneDriver`, `NotLeftInProgress` hold |
| `publication` | one request at a time, PATCH, DELETE and go-live where they keep the two tables in step, auto-publication and the publisher; the gate switched, deaths | `LockStep`, `GoesLiveOnAWord`, `ScheduledGoesLive` hold |
| `site` | two posts, one writer and both jobs, three changes, two faults: deaths, files that fail, rows withdrawn under the files | `IndexDriftIsSeen`, `ListingFollows`, `RebuildRestores` hold |
| `breaker` | three callers, capacities 1 and 2, cancellations, a change of a setting | `OneProbePerCooldown`, `NotWedged`, `PermitsAddUp`, `EveryCallEnds`, `ClosesForAHealthyProvider` hold |
| `node_raises` | a node raises after QA approved | `ApprovedDraftIsKept` is violated |
| `gates_redeploy` | a deployment while a task is paused | `NoUnreviewedPass` is violated |

`TypeOK` is checked in one run of every module.

## 4. Disagreements between the code and its promises

Two have a run:

* **A raised node loses an approved draft** (`node_raises`). The sweep and the crash
  handler promote a task whose approved draft is stored; the handler for a raised
  node writes `failed`. `auto_remediate` of the brain daemon does so too, with the
  event "brain" in place of "raise".
* **An approval survives a change of the graph** (`gates_redeploy`). The resume
  discards the checkpoint of another signature and starts over; `retry_count` is the
  same, so the gate honours the approval for a draft nobody saw.

The others are stated in the modules and shown by adding an event to a
configuration, or a property that none of them lists. Each was checked in this way;
the run is not kept because nothing else distinguishes it.

| add | to | violated | why |
|---|---|---|---|
| "overlap" | `recovery` | `SoleProducer` | two sweeps: the rows are read without a lock and updated by `task_id` alone, so the second puts a row back into the queue under a live run |
| "clear" | `all_events`, property `SweepReportIsTrue` | it | `_clear_checkpoints_for_threads` swallows an error inside the sweep's transaction, which Postgres has aborted: the COMMIT rolls back, the counts are reported all the same |
| (nothing) | `all_events`, property `DiscardedStaysDiscarded` | it | `reject_task` publishes `rejected_retry` before it deletes the marker: a run that claims in between and is rejected by QA finds it and requeues the rejected draft |
| "cancel_release" | `gpu_progress` | `NoConnectionOutlivesItsSession` | `_release_pg_advisory_lock` takes the hold off its list first and catches `TimeoutError` and `Exception`; `CancelledError` is neither |
| "continue_stale" | `gates` | `NoUnreviewedPass` | `pipeline resume` accepts an approval of an earlier attempt |
| "timeout_late" | `gates` | `PauseIsTrue` | the worker's resume times out after the graph passed the gate; the rollback pauses a task whose draft is live |
| "readfail_resumed" | `gates` | `NoUnreviewedPass` | the failed read falls through to `interrupt()`, which returns in a resumed run |
| "race" | `gates` | `OneDriver`, `RefusalStands`, `NoUnreviewedPass` | two surfaces read the paused row before either writes; the UPDATEs have no condition |
| "die_late" | `publication` | `LockStep` | a death, or a swallowed error, between the row of a live post and the status of its task |
| "race", "overtaken", "reschedule" | `publication` | `LockStep`, `GoesLiveOnAWord` | slots and statuses are written by id after a read |
| "veto_manual" | `publication` | `LockStep`, `GoesLiveOnAWord` | a veto of a post without a veto window is not seen by the tick |
| "refuse_live" | `publication` | `LockStep` | a parked post is published another way and then refused: post and task part |
| `Events = {"gate"}`, `MaxTurns = 2` | `publication`, property `SignedGoesLive` | it | "Clear the publish gate so the next scheduler tick can publish" (`approve_publish`): the tick parks the signed-off post again while the gate is on |
| "cms" | `publication` | `LockStep` | `PATCH /api/posts/{id}` to published, or away from it, and `DELETE` of a live post: one request, and the task keeps its status (`cms_routes.py:426-432`) |
| "cms" | `publication` | `GoesLiveOnAWord` | a PATCH makes the staged post a draft, so that `unapprove_task`, which deletes staged rows only, leaves it; another makes it scheduled; the operator rejects the task; the slot comes due, and the tick, which looks at the task only of a post with a veto window, promotes |
| (nothing) | `site`, property `PageDriftIsSeen` | it | "a failed export leaves R2 stale until the reconciliation job rebuilds it" (`scheduled_publisher.py:380-381`, `:395`). The export of one post dies before its page, or cannot upload it; that export or the next one of any other post (two posts due in one tick, `:177-190`) writes index and manifest; count and age are right, the page is missing, and no job looks. "die" or "file_fails" alone is enough |
| "file_lost", "quick" or "overlap" | `site` | `IndexDriftIsSeen`, `ListingFollows` | the manifest is right about count and age while the index lists other posts |
| (nothing) | `breaker`, property `OneProbeInFlight` | it | "so only one probe is in-flight at a time" (`llm_resilience.py:446-447`): while a probe is in flight a late failure of a call admitted before the trip clears the flag and restarts the cooldown (`:503-508`), and after it a second probe is admitted beside the first. `Events = {}` is enough. What holds is one probe per cooldown |
| "cancel_probe" | `breaker` | `NotWedged`, `ClosesForAHealthyProvider` | `except CancelledError: raise` leaves `_half_open_in_flight` set for ever |

Others met on the way, in the models but under no property:
`update_task`'s protection of cancelled rows is a SELECT one statement before the
write; the sweep overwrites a cancellation the same way; a run whose guarded write
was refused is marked failed by an unguarded one; an empty atom registry never
reaches the handler written for it; `_finalize_awaiting_approval` cannot tell whose
`in_progress` it sees, so that a redraft requested while the first run is in its
tail ends with two producers once a second redraft follows; the shared base key is
unlocked first although the comment says last; a redo that finds no target halts
the graph and stays pending; a redraft does not raise `retry_count`, so an approval
given before it is still of this attempt (it is not last in the history then, which
is what saves the gate); publishing a post that is scheduled, vetoed or a draft
answers "skipping duplicate" with success; `unpublish_post` turns the task back even
if the post was not published; a call that was admitted before the breaker tripped
and is still queued starts while it is open, and its success closes it.

### Bounds, and why they are enough

* Two slots: overlap, stall and the late run need two runs. `ResetsAreBounded` and
  the other proved properties hold for any number. `recovery` has two tasks for the
  order of claiming and SKIP LOCKED.
* `MaxRetries = 1`: the boundary is `retry_count < max_retries`; 1 has a state below
  it, at it, and (with overlap) above it.
* `MaxRegens`: redrafts are the operator's and unbounded in the code. 0 in
  `recovery`, because a redraft breaks the lease (above); 1 in `all_events`; 2 in
  `progress`.
* Gate: four callers have two of one class and one of each other, so a waiter that has
  aged has elders and later arrivals of its own and of the first class; `MaxWait = 4` is
  two classes times the larger window, the wait after which nobody ages further.
  `Windows` omits 0 (no aging) in the run, since without aging the background class
  does starve; the theorems cover 0.
* GPU: two cards and three sessions, one of which needs both, in two processes are
  the least with a whole-GPU session, two disjoint ones, and contention within and
  across processes. Three connections are one per session. In `gpu_progress` both
  sessions of the worker want both cards, so its gates let one of them connect at a
  time, and two connections are enough. A leaked one delays the next session until
  it is reaped, while the code opens another; so the bound only restricts.
* Gates: two requests of one process and one CLI command are the least with a
  conflict within `_RESUMING` and across processes. One retry has the attempts 0 and
  1 that `approved_at_retry_count` tells apart, one redo has the cap; two faults
  combine a failed resume with a failed rollback, or a death with a failed read.
* Publication: one article, since nothing but the slug's uniqueness relates two. One
  request at a time, because requests that overlap break the properties ("race"); the
  flow run and the publisher interleave with it. `MaxTurns = 4` lets a slot move, the
  gate turn and a process die in one behaviour. Approvals, vetoes, withdrawals and
  ticks are unbounded.
* Site: two posts, so that every export rewrites the listing of a post it is not about,
  and opposite errors can cancel out in the count. One writer, which may die in the
  export of one post and go on to the other; the rebuild runs beside it. Two writers
  take TLC too long; the theorems have any number, as of posts. Three changes are
  publish, publish and unpublish or edit; two faults let a repair fail as well.
  `MaxPerRun = 1` leaves orphans to a second sweep.
* Breaker: with three callers one is the probe, one a late result and one refused
  or queued; capacity 1 makes a queue and 2 none of two. One change of a setting;
  the theorems cover any number. A threshold of 2 has a failure that does not trip.
* Slots and connections are symmetric in the safety runs and declared as symmetry
  sets there; the runs with liveness or a refinement use none.

### Fairness

* `progress`: Prefect keeps starting runs and a live run keeps stepping (weak
  fairness of `SweepRead`, `Run`, `ClaimNothing`, `update_task`). `SweepWrite` and
  `Claim` are strongly fair: a run may be killed at any point, but not every run at
  that same point for ever. Time passes (`GetsOld`). Nothing is assumed of the
  operator, the brain, or the faults.
* `gate`: the event loop runs ready coroutines, holders release, time passes.
  Nothing makes a caller acquire, nor prevents any from being cancelled.
* `gates`: a process that lives goes on (weak fairness of its steps), the sweep and
  the claim are scheduled. Nobody has to decide.
* `publication`: the worker's loop ticks, slots come, requests end.
* `site`: both jobs are scheduled by cron, a process goes on until it dies.
* `breaker`: callers come back, calls end (the SDK's timeout at the latest), the
  clock runs. `Acquires` is strongly fair: `asyncio.Semaphore` serves its waiters in
  order of arrival, so one that finds permits free again and again is served. The
  provider and the operator owe nothing.
* `gpu_progress`: sessions end; gates are fair, which is `PriorityGate`'s result;
  Postgres serves its queue; the collector and the server get to every connection.

## 5. Proofs

All by TLAPS, for every value of the constants that meets the named assumptions
(`ConstantsAssumption`, `GateAssumption`, `GpuAssumption`, `GatesAssumption`,
`PublicationAssumption`, `SiteAssumption`, `BreakerAssumption`: distinctness,
finiteness of `Slots` and `Caller`, natural bounds, no more). Theorems that need it
also assume `Calm`: that `Events` has none of the second group.

* `PipelineTasksProofs`. `TypeCorrect`: `TypeOK` is inductive, because it includes that
  a process past claiming has a task and one about to write has a status to write.
  `RerunsCharged`: the accounts stay balanced because the only ways into the queue
  are a sweep's reset and a rejection for a redraft, each counted, and a claim takes
  the task out (lemma `AccountsKept` for all steps that claim nothing).
  `ResetsBounded`: counting the sweeps about to reset a task with the resets already
  made (`PendingResets`) makes the bound inductive: a new sweep only joins while
  `retry_count < max_retries`, and a reset moves one from pending to made.
  `GenerationsBounded` is what the two come to: a task is generated at most
  `MaxRetries + Cardinality(Slots)` times, and once for each redraft.
* `PipelineTasksLeaseProofs`. `OneProducer` from `LeaseInv`: sweeps do not overlap; a
  queued task has no run; a task in a sweep's bucket has no run and is not queued; a
  task with a run has one, and is fresh. `SoleProducer` alone is not inductive:
  nothing in it says that a sweep's reset hits only tasks without runs. Steps other
  than `SweepRead`, `SweepWrite` and `Claim` are all `Quiet` (no run gains a task,
  nothing enters the queue) and keep it by one lemma. Assumed of the environment: no
  "overlap", no "stall", no redrafts. `LeasesAreKept`: with neither "cancel" nor
  "brain" besides, every step is a step of `LeasedQueue` or a stutter. This needs
  `QueueInv` too: what a sweep will reset is still in_progress, the operator only
  works on settled tasks, and `retry_count` is below `max_retries` where a reset is
  due; with `RerunsArePaidFor` that bounds the attempts. `LeasesAreRespected` draws from
  the refinement what it is for: outcomes are final, and a live run keeps its task.
  `ApprovedDraftsAreKept` from `LeaseInv` and `DraftInv`: a sweep's bucket to reset or
  fail has no approved draft (`SweepsNoDraft`), a run that QA has not passed works on a
  task that has none (`NoDraftYet`), and one that fails its task was cancelled or has
  none (`FailsNoDraft`). These lean on whose task it is while nothing is delivered:
  only a cancel takes it from its run (`StillInWork`), since the operator decides
  nothing that is still worked on (`OperatorSeesDelivered`). Excluded is what breaks it:
  "raise" (the finding of `node_raises`), "brain" (the daemon fails a live draft too),
  "dbfail" (`persist_task` may abort after QA), "overlap" and "stall" (a late sweep, or
  a second run, has an old view of the row), and redrafts, after which the old run
  cannot tell whose `in_progress` it sees. Kills, crashes, an empty registry, a sweep
  that rolls back, and cancels are allowed.
* `PriorityGateProofs`. `GateInv` is `TypeOK`, `HeldByOne`, that who is in the list is parked
  or cancelled and who is parked is in the list, and that `elders` is a strict order;
  `NobodyJumps` rests on the aging being monotone in the time waited, so on a lemma
  about integer division, and holds for any window at any wake. `GateTyped` is
  `PriorityGate`'s `TypeOK` from the same invariant. `GateIsALock` maps every step to a
  step of `StarvationFreeLock` or a stutter. `AgingEndsOvertaking` is what its liveness
  rests on: the elders of a waiter only leave, and one that has aged to the first class
  is passed only by elders, each of which then leaves them. The number of elders
  therefore bounds how often it is passed, whatever is read for the window.
* `GpuLockProofs`. `LockInv` is `TypeOK`, the state of the advisory locks (an exclusive
  key has one connection, the base is shared or exclusive), and for each session
  which gates and keys it has at its place in the protocol. `CardsExclusive` assumes
  that Postgres can be reached ("nopg" is not in `Events`); the conflict between a
  scoped and an unscoped session is the base key, between two scoped ones a card's.
  `NoWedgedGate` assumes nothing, nor does `KeysAreHeld`: a session past the gates
  holds those of all its keys. With `ScopeKept` (a session asks as its process is
  configured) this gives `CardsExclusiveInAProcess`, for which "flip" is excluded: with
  a change of scoping and no Postgres, a session on the whole GPU and one on a card go
  by different gates. `NoConnectionLeaks` excludes "cancel_release" (table above).
* Deadlock, in the same module. `WaitsFor` relates a session to those that must move
  before it: the holder of its next gate, one that has a connection, one that has a
  lock in conflict with its request, one that queued earlier with such a request.
  `WaitInv` adds to `LockInv` that gates and locks are taken in ascending order
  (`GateOrder`, `KeyOrder`, the base key first of all) and that the server's queue has
  no circle (`QueueOrder`). So along the relation a session is further on in the
  protocol, or awaits a later key, or came earlier, and in a finite set of waiting
  sessions somebody waits for no other member: `NobodyWaitsInACircle`, which takes the
  ordering argument in `_acquire_gates` from the gates of one process to gates,
  connections and advisory locks of all. `GpuLockIsDeadlockFree` concludes that while anybody waits, the guard of
  somebody's next step is true (`MayTakeGate`, `MayTakeBase`, `MayTakeKey`, a free
  connection), a session is past waiting, or a connection is about to be given back.
  Both hold under every event; they assume finitely many sessions,
  and the second at least one connection.
* `ApprovalGatesProofs`. `GatesTyped` needs no `Calm`. The other four follow from
  `GateInv`. Its core is that an approval of the current attempt is the last row of the
  history, and that while it is, the current draft is reviewed, not refused, and no
  process is where a new draft would be written (`ApprovedDraft`, `GraphKnows`): so
  a gate that finds it lets this draft through and no other. What ends it is a
  rollback, which deletes the row, or the sweep, which raises `retry_count` or fails
  the task for good. `OneBusy` says that one process at most is between its read and
  its last write, apart from one that paused and is about to end; `SurfaceKnows`, what
  still holds when it comes to write. `NoUnreviewedPass` alone is not inductive:
  nothing in it tells of the approval that a resumed run carries past the gate.
* `PublicationProofs`. `PubInv`: requests do not overlap, and each finds task and post at
  its write as its read left them, up to what ticks, slots and deaths may change
  (`ApproveKnows`, `SlotKnows`, `DecisionKnows`); a staged row that no veto can hold
  back has a task that is approved (`StagedIsApproved`), and an approval that stands
  is a word (`ApprovalIsAWord`). A tick promotes only what is not vetoed, hence
  approved, hence on a word, and turns both tables. `Calm` excludes all seven events of
  the second group, "cms" among them: with it both theorems are false.
* `StaticSiteProofs`. `IndexDriftAlwaysShows` from `SiteInv`: those who have selected posts
  selected the same ones (`ExportsAgree`), an export past the index finds in it what it
  selected (`IndexIsTheirs`), and count and age tell every list that is written or about
  to be from what is published (`Tells`). `IndexDriftIsSeen` alone is not inductive: it
  says nothing of a list that is only about to be written, nor of a count that is. It
  speaks of every moment, not only of those when nobody is at work. `RepairsDoNoHarm` is
  the stable half of `RebuildRestores`, under every event: once listing and pages are
  right and all processes are idle, they stay right until a row changes (`Steady`: who
  is about to write goes by the rows, who is about to delete does so for posts that
  are not live).
* `LlmBreakerProofs`. `BreakerTyped` rests on there being a semaphore left for every change
  (`SemaphoresSuffice`) and on nobody being at one not yet made. `OneProbeEachCooldown`
  from `FlagCounts`: the flag is set exactly if this cooldown has had a probe whose
  result is not in. `BreakerIsNotWedged` adds that the flag falls with any
  result (`ProbeLives`) and assumes that the probe is not cancelled. `NoPermitIsLost`
  counts holders per semaphore, with the cardinality theorems for one that comes or
  goes. `NobodyQueuesForNothing` follows: with no permit free there is a holder in the
  same semaphore, though it may have been replaced.

Only model-checked: all liveness under fairness (`NoTaskStranded`, `EveryTaskDecided`,
`EveryWaiterServed`, `NotLeftInProgress`, `ScheduledGoesLive`, `ListingFollows`,
`RebuildRestores`, `EveryCallEnds`, `ClosesForAHealthyProvider`, the liveness of `ImplementsLock`), which is
out of the prover's reach, as ENABLED is. Of several the theorems prove the safety
part: that nothing deadlocks, that overtaking and generations end, that a right site
stays right, that a queued call has somebody to wait for. Every invariant a run
checks is also a theorem.

## 6. What is not modelled, and why

* Of the task: runs started by hand with an explicit task id, edits of a draft, the
  second update of a finalizing rejection, which has no status
  (`approval_routes.py:188`; if it fails the marker is kept, like in `OpClear`), a
  rebuild that ends as "cancelled"; `_release_task_on_registry_unavailable`, which no
  exception of the graph reaches.
* Of the gates: several gates in one graph (each has its own history and regen
  columns, and the graph passes them in order), the per-component caps and steering
  text of a redo, notifications.
* Of publication: what follows after a post is live (newsletter, social posts, media,
  embeddings), revalidation of the site's caches, batches of several posts and the
  arithmetic of their slots, edits of a post's content, `cli/posts.py`, which inserts
  rows by hand, `publish_now` and `fire_post_distribution_hooks` (no caller). Row locks: transactions are
  single steps, so a deadlock that Postgres resolves by failing one of them is a
  death.
* Of the site: what the index says of a post beyond that it lists it, feed and sitemap,
  affiliate links, a published post whose `published_at` is still to come, two writers
  at once in the run (in the theorems they are).
* Of the breaker: times, the classification of errors (an error that is not
  retryable is a call with no attempt left), a client error counted as a failure
  while the provider is up, an uncapped Retry-After.
* Of the GPU lock: admission, the wait for games, eviction, the queue mirror,
  `aclose`, nested locks and child tasks that inherit the context variable, a restart
  of Postgres under a holder, and a change of scoping within a process that has no
  Postgres.
* The other components, for the reasons `PROJECT.json` gives: text generation and
  scoring (most of the code) have little control to check; social drafts, media,
  topic batches, the alert dispatcher, webhook delivery, ingestion and chat approvals
  keep state of their own and would each be a module like these. Of them, dispatch
  by claim (social drafts, media, webhooks: claim, act outside, mark) would be the
  next to model, with "at least once, and at most once where a claim is durable" as
  its abstract specification; then the alert dispatcher with "no episode goes
  unpaged".
