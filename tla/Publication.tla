------------------------------ MODULE Publication ------------------------------
(***************************************************************************)
(* How an approved article goes live: one task, the row in posts staged    *)
(* for it, the scheduled publisher that promotes due posts on every tick,  *)
(* and the requests that stage, schedule, publish and withdraw it.         *)
(*                                                                         *)
(* One action is one statement or transaction.  A request reads, decides   *)
(* and then writes by id, so its read and its write are actions of their   *)
(* own; what became of the row in between is the point of the model.       *)
(***************************************************************************)
EXTENDS Naturals

CONSTANTS
  Request,     \* requests of the operator under way at the same time
  Flow,        \* the flow run that auto-publishes
  Publisher,   \* the loop run_scheduled_publisher
  MaxTurns,    \* bound: how often slots move, the gate is switched, a process dies
  Events       \* what may happen, a subset of EventKinds

EventKinds ==
  { "auto",       \* the auto-publish gate of the niche fires
    "gate",       \* the final_publish_approval gate is switched on and off
    "unparked",   \* parking a post fails; the failure is swallowed
    "die",        \* a request or the publisher dies
    \* The same, where the code is not ready for it:
    "die_late",    \* ... between the row of a post and the status of its task
    "race",        \* requests overlap, or reach an auto-publish half-way
    "overtaken",   \* the publisher promotes a post whose slot is being moved
    "reschedule",  \* a slot for a post that is published, rejected or a draft
    "veto_manual", \* a veto of a post that no veto window was opened for
    "refuse_live", \* a post that waits at the gate is published by another
                   \*   way, and then refused
    "cms" }        \* the row of a post goes live or back, or is deleted while
                   \*   live, by a route that leaves the task alone

ASSUME PublicationAssumption ==
  /\ Flow \notin Request /\ Publisher \notin Request \cup {Flow}
  /\ MaxTurns \in Nat /\ Events \subseteq EventKinds

VARIABLES
  task,    \* pipeline_tasks.status
  post,    \* posts.status, "none" without a row
  slot,    \* posts.published_at: "none", in the future, or due
  parked,  \* posts.awaiting_gate IS NOT NULL
  auto,    \* posts.metadata: auto_publish_veto_window
  gated,   \* pipeline_gate_final_publish_approval
  pc,      \* where each process is
  op,      \* what each request is for
  has,     \* the row whose id a process read still exists
  turns,   \* how often one of what MaxTurns bounds happened
  go,      \* history: an approval, a slot or a status, and no withdrawal since
  signed   \* history: the operator signed off on the slot that is running

row  == <<post, slot, parked, auto>>
vars == <<task, row, gated, pc, op, has, turns, go, signed>>

Writers == Request \cup {Flow}
Process == Writers \cup {Publisher}
Ops    == {"approve", "approve_at", "auto", "auto_now", "publish", "schedule", "batch"}
Labels == {"idle", "approve", "find", "insert", "stamp", "promote", "mark", "slot",
           "schedule", "sign", "refuse", "reject", "live", "park", "tick"}

Init ==
  /\ task = "awaiting_approval"
  /\ post = "none" /\ slot = "none" /\ parked = FALSE /\ auto = FALSE
  /\ gated \in (IF "gate" \in Events THEN BOOLEAN ELSE {FALSE})
  /\ pc = [p \in Process |-> "idle"]
  /\ op = [p \in Writers |-> "approve"]
  /\ has = [p \in Process |-> FALSE]
  /\ turns = 0 /\ go = FALSE /\ signed = FALSE

Goto(p, label) == pc' = [pc EXCEPT ![p] = label]
Allowed(kind, mild) == kind \in Events \/ mild

\* The requests under way that a new one may meet.
Alone == \A p \in Writers : pc[p] = "idle"
Free(r) == r \in Request /\ pc[r] = "idle" /\ Allowed("race", Alone)

\* A signature is for the slot that is running.
KeepSigned == signed' = (signed /\ post' = "scheduled")

Turn == turns < MaxTurns /\ turns' = turns + 1

------------------------------------------------------------------------------
(* Staging and publishing: publish_post_from_task and its callers. *)

\* approve_task reads the status; auto_publish_task does not.
Approve(r) ==
  /\ \/ /\ Free(r) /\ task = "awaiting_approval"
        /\ \E o \in {"approve", "approve_at"} : op' = [op EXCEPT ![r] = o]
     \/ /\ r = Flow /\ pc[r] = "idle" /\ "auto" \in Events
        /\ Allowed("race", Alone /\ task = "awaiting_approval" /\ post = "none")
        /\ \E o \in {"auto", "auto_now"} : op' = [op EXCEPT ![r] = o]
  /\ Goto(r, "approve") /\ go' = TRUE
  /\ UNCHANGED <<task, row, gated, has, turns, signed>>

ApproveWrite(r) ==
  /\ pc[r] = "approve"
  /\ task' = "approved" /\ Goto(r, "find")
  /\ UNCHANGED <<row, gated, op, has, turns, go, signed>>

\* publish_task: "Must be 'approved'".
Publish(r) ==
  /\ Free(r) /\ task = "approved"
  /\ op' = [op EXCEPT ![r] = "publish"] /\ Goto(r, "find") /\ go' = TRUE
  /\ UNCHANGED <<task, row, gated, has, turns, signed>>

Stages(r) == op[r] \in {"approve", "approve_at", "auto"}

\* What follows once the row is there.
AfterStaging(r) ==
  CASE op[r] = "auto"       -> "mark"
    [] op[r] = "approve_at" -> "slot"
    [] OTHER                -> "idle"

\* _promote_or_skip_existing: an existing row is promoted if it is approved and
\* this is no staging; any other one counts as published or staged already.
Find(r) ==
  /\ pc[r] = "find"
  /\ has' = [has EXCEPT ![r] = post # "none"]
  /\ Goto(r, CASE post = "none" -> "insert"
               [] post = "approved" /\ ~Stages(r) -> "promote"
               [] OTHER -> AfterStaging(r))
  /\ UNCHANGED <<task, row, gated, op, turns, go, signed>>

\* create_post; the slug is unique, so a second row for the task is refused.
Insert(r) ==
  /\ pc[r] = "insert"
  /\ IF post = "none"
       THEN /\ post' = IF Stages(r) THEN "approved" ELSE "published"
            /\ slot' = IF Stages(r) THEN "none" ELSE "due"
            /\ parked' = FALSE /\ auto' = FALSE
            /\ has' = [has EXCEPT ![r] = TRUE]
            /\ Goto(r, "stamp")
       ELSE Goto(r, "idle") /\ UNCHANGED <<row, has>>
  /\ UNCHANGED <<task, gated, op, turns, go, signed>>

\* update_task_status, whatever the status was.
Stamp(r) ==
  /\ pc[r] = "stamp"
  /\ task' = IF Stages(r) THEN "approved" ELSE "published"
  /\ Goto(r, AfterStaging(r))
  /\ UNCHANGED <<row, gated, op, has, turns, go, signed>>

\* The task of a row that goes live, if its approval stands.  Mutant: as it was
\* before the publisher wrote both tables.
SyncTaskNever == UNCHANGED task
SyncTask == task' = IF task = "approved" THEN "published" ELSE task

\* The UPDATE is keyed by id alone; the task turns with it.
Promote(r) ==
  /\ pc[r] = "promote"
  /\ IF has[r]
       THEN post' = "published" /\ slot' = IF slot = "none" THEN "due" ELSE slot
       ELSE UNCHANGED <<post, slot>>
  /\ SyncTask
  /\ Goto(r, "idle") /\ KeepSigned
  /\ UNCHANGED <<parked, auto, gated, op, has, turns, go>>

\* _stage_with_veto_window: the marker comes before the slot.
Mark(r) ==
  /\ pc[r] = "mark"
  /\ auto' = (auto \/ has[r])
  /\ Goto(r, "slot")
  /\ UNCHANGED <<task, post, slot, parked, gated, op, has, turns, go, signed>>

------------------------------------------------------------------------------
(* Slots: scheduling_service. *)

\* assign_slot, and assign_batch, which takes whatever is staged.
Schedule(r) ==
  /\ Free(r) /\ post # "none" /\ Turn
  /\ \/ /\ Allowed("reschedule", post \in {"approved", "scheduled"})
        /\ op' = [op EXCEPT ![r] = "schedule"] /\ go' = TRUE
     \/ /\ post = "approved" /\ slot = "none"
        /\ op' = [op EXCEPT ![r] = "batch"] /\ UNCHANGED go
  /\ Goto(r, "slot")
  /\ UNCHANGED <<task, row, gated, has, signed>>

\* The SELECT.  A slot in the future is overwritten only with force.
SlotRead(r) ==
  /\ pc[r] = "slot"
  /\ has' = [has EXCEPT ![r] = post # "none"]
  /\ Goto(r, IF \/ post = "none"
                \/ op[r] = "auto" /\ post = "scheduled" /\ slot = "future"
                \/ op[r] = "batch" /\ ~(post = "approved" /\ slot = "none")
             THEN "idle" ELSE "schedule")
  /\ UNCHANGED <<task, row, gated, op, turns, go, signed>>

\* The UPDATE, which does not look at the status again.
SlotWrite(r) ==
  /\ pc[r] = "schedule"
  /\ IF has[r] THEN post' = "scheduled" /\ slot' = "future" ELSE UNCHANGED <<post, slot>>
  /\ Goto(r, "idle")
  /\ signed' = FALSE
  /\ UNCHANGED <<task, parked, auto, gated, op, has, turns, go>>

\* Mutant: takes the slot, and leaves the status.
ClearSlotOnly(r) ==
  /\ Free(r) /\ post = "scheduled"
  /\ slot' = "none" /\ signed' = FALSE
  /\ UNCHANGED <<task, post, parked, auto, gated, pc, op, has, turns, go>>
Clear(r) ==
  /\ Free(r) /\ post = "scheduled"
  /\ post' = "approved" /\ slot' = "none" /\ signed' = FALSE
  /\ UNCHANGED <<task, parked, auto, gated, pc, op, has, turns, go>>

\* By id: any row with a slot, whatever its status, and in either direction.
Shift(r) ==
  /\ Free(r) /\ slot # "none" /\ Turn
  /\ slot' \in {"future", "due"}
  /\ UNCHANGED <<task, post, parked, auto, gated, pc, op, has, go, signed>>

SlotComes ==
  /\ slot = "future" /\ slot' = "due"
  /\ UNCHANGED <<task, post, parked, auto, gated, pc, op, has, turns, go, signed>>

------------------------------------------------------------------------------
(* Withdrawals. *)

Forget == has' = [p \in Process |-> FALSE]
Delete == post' = "none" /\ slot' = "none" /\ parked' = FALSE /\ auto' = FALSE /\ Forget

\* The staged row goes with its slot.  Mutant: a scheduled one is left.
DeletedIfUnscheduled == post = "approved"
Deleted == post \in {"approved", "scheduled"}

\* unapprove_task, to the review queue or to a rejection.
Unapprove(r) ==
  /\ Free(r) /\ task = "approved"
  /\ task' \in {"awaiting_approval", "rejected"}
  /\ IF Deleted THEN Delete ELSE UNCHANGED <<row, has>>
  /\ go' = FALSE /\ KeepSigned
  /\ UNCHANGED <<gated, pc, op, turns>>

\* veto_auto_publish
Veto(r) ==
  /\ Free(r) /\ post = "scheduled"
  /\ Allowed("veto_manual", auto)
  /\ post' = "approved" /\ slot' = "none"
  /\ task' = IF task = "approved" THEN "awaiting_approval" ELSE task
  /\ go' = FALSE /\ signed' = FALSE
  /\ UNCHANGED <<parked, auto, gated, pc, op, has, turns>>

\* reject_task: reads the status, then writes.
Reject(r) ==
  /\ Free(r) /\ task = "awaiting_approval"
  /\ Goto(r, "reject")
  /\ UNCHANGED <<task, row, gated, op, has, turns, go, signed>>

RejectWrite(r) ==
  /\ pc[r] = "reject"
  /\ task' = "rejected" /\ go' = FALSE /\ Goto(r, "idle")
  /\ UNCHANGED <<row, gated, op, has, turns, signed>>

\* unpublish_post: both statements run, whichever of them finds its row.
Unpublish(r) ==
  /\ Free(r) /\ post # "none"
  /\ post' = IF post = "published" THEN "draft" ELSE post
  /\ task' = IF task = "published" THEN "approved" ELSE task
  /\ go' = (go /\ post # "published")
  /\ UNCHANGED <<slot, parked, auto, gated, pc, op, has, turns, signed>>

------------------------------------------------------------------------------
(* The CMS routes write the row by id. *)

\* update_post: a slot, a status or both, without a look at either or at the task.
\* A new status is a word, or takes it back.
Patch(r) ==
  /\ Free(r) /\ post # "none" /\ Turn
  /\ slot' \in {slot, "future", "due"}
  /\ post' \in {post, "draft", "approved", "scheduled", "published", "rejected"}
  /\ post' # post =>
       /\ Allowed("cms", {post, post'} = {"approved", "scheduled"})
       /\ post' = "scheduled" => slot' = "future"
       /\ post' = "published" => slot' # "none"
  /\ go' = IF post' = post THEN go ELSE post' \in {"approved", "scheduled", "published"}
  /\ KeepSigned
  /\ UNCHANGED <<task, parked, auto, gated, pc, op, has>>

\* delete_post.  An article without a row is withdrawn.
DeletePost(r) ==
  /\ Free(r) /\ post # "none"
  /\ Allowed("cms", post # "published")
  /\ Delete
  /\ go' = FALSE /\ KeepSigned
  /\ UNCHANGED <<task, gated, pc, op, turns>>

\* go_live reads that the post is a draft ...
GoLive(r) ==
  /\ Free(r) /\ post = "draft"
  /\ Allowed("cms", task = "approved")
  /\ has' = [has EXCEPT ![r] = TRUE] /\ go' = TRUE
  /\ Goto(r, "live")
  /\ UNCHANGED <<task, row, gated, op, turns, signed>>

\* ... and writes row and task by id.
GoLiveWrite(r) ==
  /\ pc[r] = "live"
  /\ IF has[r]
       THEN post' = "published" /\ slot' = "due" /\ SyncTask
       ELSE UNCHANGED <<task, post, slot>>
  /\ Goto(r, "idle") /\ KeepSigned
  /\ UNCHANGED <<parked, auto, gated, op, has, turns, go>>

------------------------------------------------------------------------------
(* The final publish gate: posts_approval_service. *)

\* approve_publish and reject_publish read the parked row ...
Decide(r) ==
  /\ Free(r) /\ parked
  /\ \/ Goto(r, "sign")
     \/ Allowed("refuse_live", post = "scheduled") /\ Goto(r, "refuse")
  /\ has' = [has EXCEPT ![r] = TRUE]
  /\ UNCHANGED <<task, row, gated, op, turns, go, signed>>

\* ... and write by id.  Approving leaves the status alone.
Sign(r) ==
  /\ pc[r] = "sign"
  /\ parked' = (parked /\ ~has[r])
  /\ signed' = (has[r] /\ post = "scheduled")
  /\ go' = (go \/ has[r])
  /\ Goto(r, "idle")
  /\ UNCHANGED <<task, post, slot, auto, gated, op, has, turns>>

Refuse(r) ==
  /\ pc[r] = "refuse"
  /\ IF has[r] THEN post' = "rejected" /\ parked' = FALSE ELSE UNCHANGED <<post, parked>>
  /\ go' = FALSE /\ Goto(r, "idle") /\ KeepSigned
  /\ UNCHANGED <<task, slot, auto, gated, op, has, turns>>

Switch ==
  /\ "gate" \in Events /\ Turn /\ gated' = ~gated
  /\ UNCHANGED <<task, row, pc, op, has, go, signed>>

------------------------------------------------------------------------------
(* The scheduled publisher: one tick. *)

IsDue == post = "scheduled" /\ slot = "due" /\ ~parked

\* _maybe_park_due_posts_at_gate: the SELECT ...
TickStart ==
  /\ pc[Publisher] = "idle"
  /\ has' = [has EXCEPT ![Publisher] = gated /\ IsDue]
  /\ Goto(Publisher, IF gated /\ IsDue THEN "park" ELSE "tick")
  /\ UNCHANGED <<task, row, gated, op, turns, go, signed>>

\* ... and pause_post_at_gate, keyed by id.
Park ==
  /\ pc[Publisher] = "park"
  /\ \/ parked' = (parked \/ has[Publisher])
     \/ "unparked" \in Events /\ UNCHANGED parked
  /\ Goto(Publisher, "tick")
  /\ UNCHANGED <<task, post, slot, auto, gated, op, has, turns, go, signed>>

\* _demote_vetoed_auto_posts.  Mutant: the slot is trusted.
VetoedNever == FALSE
Vetoed == post = "scheduled" /\ slot = "due" /\ auto /\ task \notin {"approved", "published"}

MovingSlot(r) ==
  op[r] \notin {"approve", "publish", "auto_now"} /\ pc[r] \in {"find", "slot", "schedule"}

\* The transaction: demote, promote, sync the task.
Tick ==
  /\ pc[Publisher] = "tick"
  /\ Allowed("overtaken", \A r \in Writers : ~MovingSlot(r))
  /\ \/ /\ Vetoed /\ post' = "approved" /\ slot' = "none" /\ UNCHANGED task
     \/ /\ ~Vetoed /\ IsDue /\ post' = "published" /\ SyncTask /\ UNCHANGED slot
     \/ /\ ~Vetoed /\ ~IsDue /\ UNCHANGED <<task, post, slot>>
  /\ Goto(Publisher, "idle") /\ KeepSigned
  /\ UNCHANGED <<parked, auto, gated, op, has, turns, go>>

------------------------------------------------------------------------------

\* A process dies; the worker restarts its loop.
Die(p) ==
  /\ "die" \in Events /\ pc[p] # "idle" /\ Turn
  /\ Allowed("die_late", pc[p] # "stamp")
  /\ Goto(p, "idle")
  /\ UNCHANGED <<task, row, gated, op, has, go, signed>>

GoOn(r) ==
  \/ ApproveWrite(r) \/ Find(r) \/ Insert(r) \/ Stamp(r) \/ Promote(r) \/ Mark(r)
  \/ SlotRead(r) \/ SlotWrite(r) \/ Sign(r) \/ Refuse(r) \/ RejectWrite(r) \/ GoLiveWrite(r)
Arrive(r) ==
  \/ Approve(r) \/ Publish(r) \/ Schedule(r) \/ Clear(r) \/ Shift(r) \/ Unapprove(r)
  \/ Veto(r) \/ Reject(r) \/ Unpublish(r) \/ Decide(r) \/ Patch(r) \/ DeletePost(r) \/ GoLive(r)
PublisherSteps == TickStart \/ Park \/ Tick

Next ==
  \/ SlotComes \/ Switch \/ PublisherSteps
  \/ \E r \in Writers : GoOn(r) \/ Arrive(r)
  \/ \E p \in Process : Die(p)

Spec == Init /\ [][Next]_vars

\* The worker's loop ticks, time passes, and a request that goes on ends.
FairSpec ==
  /\ Spec
  /\ WF_vars(PublisherSteps) /\ WF_vars(SlotComes)
  /\ \A r \in Writers : WF_vars(GoOn(r))

------------------------------------------------------------------------------
(* Properties. *)

\* Types; a scheduled post has a slot, and without a row nothing has its id.
TypeOK ==
  /\ task \in {"awaiting_approval", "approved", "published", "rejected"}
  /\ post \in {"none", "draft", "approved", "scheduled", "published", "rejected"}
  /\ slot \in {"none", "future", "due"}
  /\ parked \in BOOLEAN /\ auto \in BOOLEAN /\ gated \in BOOLEAN
  /\ pc \in [Process -> Labels] /\ op \in [Writers -> Ops] /\ has \in [Process -> BOOLEAN]
  /\ turns \in 0..MaxTurns /\ go \in BOOLEAN /\ signed \in BOOLEAN
  /\ post = "none" => slot = "none" /\ ~parked /\ ~auto /\ \A p \in Process : ~has[p]
  /\ post = "scheduled" => slot # "none"

\* "ANY reject path doubles as a veto" (_stage_with_veto_window): an article
\* goes live only on an approval, a slot or a status that was not withdrawn since,
\* even if the operator's batch gives it a slot again.
GoesLiveOnAWord == [][post # "published" /\ post' = "published" => go']_vars

\* "In lockstep": a live post has a published task, and a published task a live
\* post, but for the request that is just about to write the one.
LockStep ==
  \/ post = "published" <=> task = "published"
  \/ \E r \in Writers : pc[r] = "stamp" /\ post = "published"

\* A post that waits for its slot alone goes live, or stops waiting for it.
Waits == post = "scheduled" /\ ~parked /\ ~gated
ScheduledGoesLive == Waits ~> ~Waits

\* "Clear the publish gate so the next scheduler tick can publish"
\* (approve_publish): a post that was signed off goes live.
SignedGoesLive == signed ~> ~signed
==============================================================================
