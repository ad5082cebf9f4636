---------------------------- MODULE ApprovalGates ----------------------------
(***************************************************************************)
(* An approval gate inside a content graph, for one task.  The atom        *)
(* approval_gate pauses the graph; the operator approves, rejects or asks  *)
(* for a redo through a surface (an HTTP request of the worker, a CLI      *)
(* command), and the surface itself then drives the graph on from its      *)
(* checkpoint.  The flow run that claims a pending task, a crashed         *)
(* driver's sweep and a new deployment of the graph meet on the same row.  *)
(*                                                                         *)
(* One action is one statement or transaction on the row, or one           *)
(* checkpoint of the graph.                                                *)
(***************************************************************************)
EXTENDS Naturals, Sequences

CONSTANTS
  Worker,      \* requests that the worker process may serve at the same time
  Cli,         \* CLI commands, each a process of its own
  Flow,        \* the flow run that claims the task
  MaxRetries,  \* sweep_stale_tasks(max_retries)
  RegenCap,    \* regen_<component>_max_attempts
  MaxFaults,   \* bound: how many of the faults below happen
  Events       \* what may happen, a subset of EventKinds

EventKinds ==
  { "die",        \* a process dies
    "raise",      \* a node of the graph raises after the gate
    "setup",      \* the graph cannot be set up: runner.run raises
    "undo_fails", \* rolling an approval back fails
    "bare",       \* `poindexter approve` records an approval and resumes nothing
    "graduate",   \* the gate's streak of clean approvals reaches its setting
    "continue",   \* the operator resumes a task stranded past its gate
    "timeout",    \* gate_resume_timeout_seconds passes
    "readfail",   \* a read of the gate atom fails
    "redeploy",   \* the signature of the graph changes
    \* The same, where the code is not ready for it:
    "continue_stale",   \* ... although its approval is of an earlier attempt
    "timeout_late",     \* ... although the graph has passed the gate
    "readfail_resumed", \* ... in a run that interrupt() will not stop
    "readfail_regen",   \* ... of a pending regen
    "redeploy_paused",  \* ... while a decision is pending or about to be used
    "race" }            \* surfaces act at the same time

ASSUME GatesAssumption ==
  /\ Worker \cap Cli = {} /\ Flow \notin Worker \cup Cli
  /\ MaxRetries \in Nat /\ RegenCap \in Nat /\ MaxFaults \in Nat
  /\ Events \subseteq EventKinds

VARIABLES
  status,    \* pipeline_tasks.status
  gate,      \* pipeline_tasks.awaiting_gate IS NOT NULL
  retry,     \* pipeline_tasks.retry_count
  pending,   \* pipeline_tasks.regen_<component>_pending
  regens,    \* pipeline_tasks.regen_<component>_attempts
  history,   \* pipeline_gate_history, in order
  ck,        \* the node the checkpoint of the task's thread leads to
  old,       \* the checkpoint has another graph's signature
  target,    \* the gate's regen_targets names a node
  draft,     \* the draft in the state of the graph: the how-manieth
  pc,        \* where each process is
  seen,      \* the draft and retry_count a surface read with the paused row
  row,       \* the history row a surface may have to roll back
  resumed,   \* interrupt() has a resume value to return
  decision,  \* what the gate atom read
  faults,    \* how many faults happened
  reviewed,  \* history: drafts somebody entitled to let them through did
  refused,   \* history: drafts the operator rejected or wants redone
  passed     \* history: drafts that went past the gate

task    == <<status, gate, retry, pending, regens, history>>
graph   == <<ck, old, draft>>
process == <<seen, row, resumed, decision>>
ghosts  == <<reviewed, refused, passed>>
vars    == <<task, graph, target, pc, process, faults, ghosts>>

Surfaces == Worker \cup Cli
Drivers  == Surfaces \cup {Flow}
Node     == {"draft", "gate", "tail", "end"}
InGraph  == {"draft", "gate", "regen", "redo", "pause", "interrupt", "tail", "mark"}
Live     == InGraph \cup {"resume", "undo"}
Labels   == Live \cup {"idle", "approve", "reject", "log", "redraft"}
Status   == {"pending", "in_progress", "awaiting_gate", "rejected", "failed", "completed"}
Decision == [kind : {"approved", "rejected", "deleted"}, at : Nat]

Init ==
  /\ status = "pending" /\ gate = FALSE /\ retry = 0
  /\ pending = FALSE /\ regens = 0 /\ history = <<>>
  /\ ck = "none" /\ old = FALSE /\ target \in BOOLEAN /\ draft = 0
  /\ pc = [d \in Drivers |-> "idle"]
  /\ seen = [d \in Drivers |-> [draft |-> 0, retry |-> 0]]
  /\ row = [d \in Drivers |-> 0]
  /\ resumed = [d \in Drivers |-> FALSE]
  /\ decision = [d \in Drivers |-> "none"]
  /\ faults = 0
  /\ reviewed = {} /\ refused = {} /\ passed = {}

Goto(d, label) == pc' = [pc EXCEPT ![d] = label]

Fault(kind) ==
  /\ kind \in Events
  /\ faults < MaxFaults
  /\ faults' = faults + 1

\* The part of an event that only runs with kind allow in full.
Allowed(kind, mild) == kind \in Events \/ mild

\* Columns every UPDATE of the gate writes together.
SetGate(paused, new) == gate' = paused /\ status' = new

------------------------------------------------------------------------------
(* The graph, driven by a flow run or by a surface. *)

\* claim_pending_task, then TemplateRunner.run from the entry of the graph.
Claim ==
  /\ status = "pending" /\ pc[Flow] = "idle"
  /\ status' = "in_progress"
  /\ ck' = "none" /\ old' = FALSE
  /\ Goto(Flow, "draft")
  /\ resumed' = [resumed EXCEPT ![Flow] = FALSE]
  /\ UNCHANGED <<gate, retry, pending, regens, history, target, draft, seen, row,
                 decision, faults, ghosts>>

\* The nodes before the gate, up to the checkpoint that leads to it.
Draft(d) ==
  /\ pc[d] = "draft"
  /\ draft' = draft + 1
  /\ ck' = "gate"
  /\ Goto(d, "gate")
  /\ UNCHANGED <<task, old, target, process, faults, ghosts>>

\* _gate_decision: the latest row, an approval only if it was given for this
\* attempt.  Mutant: honours approvals of an earlier attempt.
Latest(kind) ==
  \E i \in 1..Len(history) :
    history[i].kind = kind /\ \A j \in 1..Len(history) : j > i => history[j].kind = "deleted"
Rejected == Latest("rejected")
ApprovedOnce == Latest("approved")
Approved ==
  \E i \in 1..Len(history) :
    /\ history[i] = [kind |-> "approved", at |-> retry]
    /\ \A j \in 1..Len(history) : j > i => history[j].kind = "deleted"

\* A rejection halts the graph; the run ends and leaves the row as it is.
GateRead(d) ==
  /\ pc[d] = "gate"
  /\ \/ /\ IF Rejected
             THEN Goto(d, "idle") /\ UNCHANGED decision
             ELSE /\ decision' = [decision EXCEPT ![d] = IF Approved THEN "approved" ELSE "none"]
                  /\ Goto(d, "regen")
        /\ UNCHANGED faults
     \/ /\ Allowed("readfail_resumed", ~resumed[d]) /\ Fault("readfail")
        /\ decision' = [decision EXCEPT ![d] = "none"]
        /\ Goto(d, "regen")
  /\ UNCHANGED <<task, graph, target, seen, row, resumed, ghosts>>

\* The gate node returns without pausing: the checkpoint leads past it.
Pass(d) ==
  /\ ck' = "tail" /\ passed' = passed \cup {draft}
  /\ Goto(d, "tail")

\* _pending_regen; a failed read counts as no regen.
RegenRead   == pending
NoRegenRead == Allowed("readfail_regen", ~pending)

\* Mutant: graduation is looked at before a pending regen.
GraduatesFirst(d) == "graduate" \in Events
Graduates(d) == NoRegenRead /\ decision[d] = "none" /\ "graduate" \in Events

\* _pending_regen outranks an approval, and both outrank graduation; a pending
\* regen without a target halts the graph and stays pending.
GateRegen(d) ==
  /\ pc[d] = "regen"
  /\ \/ /\ RegenRead /\ target
        /\ pending' = FALSE
        /\ Goto(d, "redo")
        /\ UNCHANGED <<ck, reviewed, passed>>
     \/ /\ RegenRead /\ ~target
        /\ Goto(d, "idle")
        /\ UNCHANGED <<pending, ck, reviewed, passed>>
     \/ /\ NoRegenRead /\ decision[d] = "approved"
        /\ Pass(d) /\ UNCHANGED <<pending, reviewed>>
     \/ /\ Graduates(d) /\ Pass(d)
        /\ reviewed' = reviewed \cup {draft} /\ UNCHANGED pending
     \/ /\ NoRegenRead /\ decision[d] = "none"
        /\ Goto(d, "pause") /\ UNCHANGED <<pending, ck, reviewed, passed>>
  /\ UNCHANGED <<status, gate, retry, regens, history, old, draft, target, process,
                 faults, refused>>

\* The loop edge's checkpoint.  interrupt() has no resume value after it.
Redo(d) ==
  /\ pc[d] = "redo"
  /\ ck' = "draft"
  /\ resumed' = [resumed EXCEPT ![d] = FALSE]
  /\ Goto(d, "draft")
  /\ UNCHANGED <<task, old, draft, target, seen, row, decision, faults, ghosts>>

\* pause_at_gate
GatePause(d) ==
  /\ pc[d] = "pause"
  /\ SetGate(TRUE, "awaiting_gate")
  /\ Goto(d, "interrupt")
  /\ UNCHANGED <<retry, pending, regens, history, graph, target, process, faults, ghosts>>

\* interrupt() ends the run, or returns the resume value and the gate passes.
Interrupt(d) ==
  /\ pc[d] = "interrupt"
  /\ IF resumed[d]
       THEN Pass(d) ELSE Goto(d, "idle") /\ UNCHANGED <<ck, passed>>
  /\ UNCHANGED <<task, old, draft, target, process, faults, reviewed, refused>>

\* The nodes past the gate: content.republish_post updates the live post ...
Republish(d) ==
  /\ pc[d] = "tail"
  /\ Goto(d, "mark")
  /\ UNCHANGED <<task, graph, target, process, faults, ghosts>>

\* ... and closes the task, if it is still in progress.
MarkDone(d) ==
  /\ pc[d] = "mark"
  /\ status' = IF status = "in_progress" THEN "completed" ELSE status
  /\ ck' = "end"
  /\ Goto(d, "idle")
  /\ UNCHANGED <<gate, retry, pending, regens, history, old, draft, target, process,
                 faults, ghosts>>

\* Mutant: the exception reaches the worker's surface, which rolls back.
AfterRaiseUndo(d) == IF d \in Worker THEN "undo" ELSE "idle"
AfterRaise(d) == "idle"

\* A node raises.  The runner reports the run as failed: content_router_service
\* then fails the task, a surface leaves it in_progress.
Raise(d) ==
  /\ pc[d] \in {"tail", "mark"}
  /\ Fault("raise")
  /\ Goto(d, AfterRaise(d))
  /\ status' = IF d = Flow THEN "failed" ELSE status
  /\ UNCHANGED <<gate, retry, pending, regens, history, graph, target, process, ghosts>>

------------------------------------------------------------------------------
(* The surfaces. *)

Resuming == \E d \in Worker : pc[d] \in Live
\* A driver that has paused the task only ends its run.
Pausing(d) == pc[d] = "interrupt" /\ ~resumed[d]
NobodyElse == \A d \in Drivers : pc[d] = "idle" \/ Pausing(d)

\* Read the paused row, and _RESUMING, before one of the three operations.
Look(s) ==
  /\ pc[s] = "idle" /\ gate
  /\ s \in Worker => ~Resuming
  /\ Allowed("race", NobodyElse)
  /\ \E op \in {"approve", "reject", "redraft"} : (op = "redraft" => s \in Cli) /\ Goto(s, op)
  /\ seen' = [seen EXCEPT ![s] = [draft |-> draft, retry |-> retry]]
  /\ UNCHANGED <<task, graph, target, row, resumed, decision, faults, ghosts>>

\* approve: the gate's columns and the history row in one transaction.
Approve(s) ==
  /\ pc[s] = "approve"
  /\ SetGate(FALSE, "in_progress")
  /\ history' = Append(history, [kind |-> "approved", at |-> seen[s].retry])
  /\ row' = [row EXCEPT ![s] = Len(history) + 1]
  /\ reviewed' = reviewed \cup {seen[s].draft}
  /\ \/ Goto(s, "resume")
     \/ "bare" \in Events /\ s \in Cli /\ Goto(s, "idle")
  /\ UNCHANGED <<retry, pending, regens, graph, target, seen, resumed, decision, faults,
                 refused, passed>>

\* reject, and the job that expires a gate: first the row ...
Reject(s) ==
  /\ pc[s] = "reject"
  /\ SetGate(FALSE, "rejected")
  /\ refused' = refused \cup {seen[s].draft}
  /\ Goto(s, "log")
  /\ UNCHANGED <<retry, pending, regens, history, graph, target, process, faults,
                 reviewed, passed>>

\* ... then its history.
LogRejection(s) ==
  /\ pc[s] = "log"
  /\ history' = Append(history, [kind |-> "rejected", at |-> retry])
  /\ Goto(s, "idle")
  /\ UNCHANGED <<status, gate, retry, pending, regens, graph, target, process, faults, ghosts>>

\* Mutant: one redraft too many.
UpToCap == regens <= RegenCap
BelowCap == regens < RegenCap

\* regen_at_gate; at the cap the task stays paused.
Redraft(s) ==
  /\ pc[s] = "redraft"
  /\ IF BelowCap
       THEN /\ SetGate(FALSE, "in_progress")
            /\ pending' = TRUE /\ regens' = regens + 1
            /\ refused' = refused \cup {seen[s].draft}
            /\ row' = [row EXCEPT ![s] = 0]
            /\ Goto(s, "resume")
       ELSE Goto(s, "idle") /\ UNCHANGED <<status, gate, pending, regens, refused, row>>
  /\ UNCHANGED <<retry, history, graph, target, seen, resumed, decision, faults,
                 reviewed, passed>>

\* `pipeline resume`, second path: a task past its gate that nothing drives.
ContinueResume(s) ==
  /\ s \in Cli /\ pc[s] = "idle"
  /\ ~gate /\ status = "in_progress" /\ ck # "none"
  /\ \E i \in 1..Len(history) : history[i].kind = "approved"
  /\ Allowed("race", NobodyElse)
  /\ Fault("continue")
  /\ Allowed("continue_stale", Approved)
  /\ row' = [row EXCEPT ![s] = 0]
  /\ Goto(s, "resume")
  /\ UNCHANGED <<task, graph, target, seen, resumed, decision, ghosts>>

\* TemplateRunner.run(resume=True).  A checkpoint of another signature is
\* discarded and the graph starts from its entry.
Resume(s) ==
  /\ pc[s] = "resume"
  /\ IF old \/ ck = "none"
       THEN /\ ck' = "none" /\ old' = FALSE
            /\ resumed' = [resumed EXCEPT ![s] = FALSE]
            /\ Goto(s, "draft")
       ELSE /\ resumed' = [resumed EXCEPT ![s] = TRUE]
            /\ Goto(s, IF ck = "end" THEN "idle" ELSE ck)
            /\ UNCHANGED <<ck, old>>
  /\ UNCHANGED <<task, draft, target, seen, row, decision, faults, ghosts>>

\* runner.run raises: an approval is rolled back, a redo or a continuation is not.
SetupFails(s) ==
  /\ pc[s] = "resume" /\ Fault("setup")
  /\ Goto(s, IF row[s] = 0 THEN "idle" ELSE "undo")
  /\ UNCHANGED <<task, graph, target, process, ghosts>>

\* asyncio.wait_for cancels the worker's resume, wherever it is.
Timeout(s) ==
  /\ s \in Worker /\ pc[s] \in InGraph /\ Fault("timeout")
  /\ Allowed("timeout_late", draft \notin passed)
  /\ Goto(s, "undo")
  /\ UNCHANGED <<task, graph, target, process, ghosts>>

\* rollback_resume_approval
Rollback(s) ==
  /\ pc[s] = "undo"
  /\ \/ /\ SetGate(TRUE, "awaiting_gate")
        /\ history' = [history EXCEPT ![row[s]].kind = "deleted"]
        /\ UNCHANGED faults
     \/ Fault("undo_fails") /\ UNCHANGED <<status, gate, history>>
  /\ Goto(s, "idle")
  /\ UNCHANGED <<retry, pending, regens, graph, target, process, ghosts>>

------------------------------------------------------------------------------
(* The environment. *)

\* The worker's requests die together.
Die ==
  \E dead \in {Worker, {Flow}} \cup {{s} : s \in Cli} :
    /\ \E d \in dead : pc[d] # "idle"
    /\ Fault("die")
    /\ pc' = [d \in Drivers |-> IF d \in dead THEN "idle" ELSE pc[d]]
    /\ UNCHANGED <<task, graph, target, process, ghosts>>

\* Rows the sweep selects.  A live run's heartbeat keeps its row fresh.
\* Mutants: ignores heartbeats; leaves rows without a retry alone.
StaleWithoutHeartbeats == status = "in_progress" /\ ~gate
StaleWithRetries ==
  status = "in_progress" /\ ~gate /\ retry < MaxRetries /\ \A d \in Drivers : pc[d] \notin Live
Stale == status = "in_progress" /\ ~gate /\ \A d \in Drivers : pc[d] \notin Live

\* sweep_stale_tasks
Sweep ==
  /\ Stale
  /\ IF retry < MaxRetries
       THEN status' = "pending" /\ retry' = retry + 1
       ELSE status' = "failed" /\ UNCHANGED retry
  /\ ck' = "none" /\ old' = FALSE
  /\ UNCHANGED <<gate, pending, regens, history, draft, target, pc, process, faults, ghosts>>

Redeploy ==
  /\ ck \notin {"none", "end"} /\ ~old /\ Fault("redeploy")
  /\ Allowed("redeploy_paused", ~gate /\ ~Approved)
  /\ \A d \in Drivers : pc[d] = "idle"
  /\ old' = TRUE
  /\ UNCHANGED <<task, ck, draft, target, pc, process, ghosts>>

Driver(d) ==
  \/ Draft(d) \/ GateRead(d) \/ GateRegen(d) \/ Redo(d) \/ GatePause(d)
  \/ Interrupt(d) \/ Republish(d) \/ MarkDone(d)

Surface(s) ==
  \/ Approve(s) \/ Reject(s) \/ LogRejection(s) \/ Redraft(s) \/ Resume(s) \/ Rollback(s)

Next ==
  \/ Claim \/ Sweep \/ Die \/ Redeploy
  \/ \E d \in Drivers : Driver(d) \/ Raise(d)
  \/ \E s \in Surfaces : Surface(s) \/ Look(s) \/ ContinueResume(s) \/ SetupFails(s) \/ Timeout(s)

Spec == Init /\ [][Next]_vars

\* Processes go on until they die; the flow runs and their sweep are scheduled.
FairSpec ==
  /\ Spec
  /\ WF_vars(Claim) /\ WF_vars(Sweep)
  /\ \A d \in Drivers : WF_vars(Driver(d))
  /\ \A s \in Surfaces : WF_vars(Surface(s))

------------------------------------------------------------------------------
(* Properties. *)

TypeOK ==
  /\ status \in Status /\ gate \in BOOLEAN /\ retry \in 0..MaxRetries
  /\ pending \in BOOLEAN /\ regens \in 0..RegenCap /\ history \in Seq(Decision)
  /\ ck \in {"none"} \cup Node /\ old \in BOOLEAN /\ target \in BOOLEAN /\ draft \in Nat
  /\ pc \in [Drivers -> Labels]
  /\ seen \in [Drivers -> [draft : Nat, retry : 0..MaxRetries]]
  /\ row \in [Drivers -> Nat]
  /\ resumed \in [Drivers -> BOOLEAN]
  /\ decision \in [Drivers -> {"none", "approved"}]
  /\ faults \in 0..MaxFaults
  /\ reviewed \subseteq Nat /\ refused \subseteq Nat /\ passed \subseteq Nat

\* What goes past the gate is a draft somebody let through: "No unreviewed
\* publish is possible on any path" (gate_resume.py).
NoUnreviewedPass == passed \subseteq reviewed

\* A draft the operator rejected or wants redone does not go past the gate:
\* a redo outranks approvals and graduation in the gate atom.
RefusalStands == passed \cap refused = {}

\* A task the operator sees paused has not gone past its gate: a rollback
\* restores the pause only when the graph never advanced (gate_resume.py).
PauseIsTrue == gate => draft \notin passed

\* At most one process drives the graph: approve takes the task off
\* awaiting_gate, _RESUMING and the lease of in_progress guard the rest.
Driving(d) == pc[d] \in Live /\ ~Pausing(d)
OneDriver == \A d, e \in Drivers : Driving(d) /\ Driving(e) => d = e

\* An approved or redrafted task is not left in_progress: it is completed,
\* paused again, or swept until it fails.
NotLeftInProgress == status = "in_progress" ~> status # "in_progress"
==============================================================================
