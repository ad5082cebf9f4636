-------------------------- MODULE PublicationProofs --------------------------
(***************************************************************************)
(* Why posts and tasks stay in lockstep, and why nothing goes live without *)
(* a word: a request that is between its read and its write is alone, and  *)
(* what it read can only have changed in ways that its write allows for.   *)
(***************************************************************************)
EXTENDS Publication, TLAPS

\* None of the events that the code is not ready for.
Calm ==
  Events \cap {"die_late", "race", "overtaken", "reschedule", "veto_manual", "refuse_live",
                "cms"} = {}

OneAtATime == \A p, q \in Writers : pc[p] # "idle" /\ pc[q] # "idle" => p = q

Approvals == {"approve", "approve_at", "auto", "auto_now", "publish"}
Staged == post \in {"approved", "scheduled"}

\* What still holds of task and post when a request comes to write.
ApproveKnows(r) ==
  /\ pc[r] = "approve" => task = "awaiting_approval" /\ op[r] \in Approvals /\ go
  /\ pc[r] \in {"approve", "find"} /\ op[r] \in {"auto", "auto_now"} => post = "none"
  /\ pc[r] = "find" =>
       /\ op[r] \in Approvals /\ go
       /\ task = "approved" \/ (post = "published" /\ op[r] # "approve_at")
  /\ pc[r] = "insert" => post = "none" /\ task = "approved" /\ op[r] \in Approvals /\ go
  /\ pc[r] = "stamp" =>
       /\ has[r] /\ task = "approved" /\ op[r] \in Approvals /\ go
       /\ post = IF Stages(r) THEN "approved" ELSE "published"
  /\ pc[r] = "promote" => has[r] /\ post = "approved" /\ task = "approved" /\ go
  /\ pc[r] = "live" => has[r] /\ post = "draft" /\ task = "approved" /\ go
  /\ pc[r] = "mark" => post = "approved" /\ task = "approved" /\ op[r] = "auto" /\ go

SlotKnows(r) ==
  pc[r] \in {"slot", "schedule"} =>
    /\ post # "published"
    /\ \/ op[r] \in {"approve_at", "auto"} /\ task = "approved" /\ go
       \/ op[r] \in {"schedule", "batch"} /\ Staged

DecisionKnows(r) ==
  /\ pc[r] = "reject" => task = "awaiting_approval"
  /\ pc[r] = "refuse" => Staged /\ parked /\ has[r]

Knows == \A r \in Writers : ApproveKnows(r) /\ SlotKnows(r) /\ DecisionKnows(r)

\* A staged row that no veto can hold back has a standing approval, and an
\* approval that stands is a word.
StagedIsApproved == Staged /\ ~auto => task = "approved"
ApprovalIsAWord == Staged /\ task = "approved" => go

PubInv == TypeOK /\ OneAtATime /\ Knows /\ StagedIsApproved /\ ApprovalIsAWord /\ LockStep

------------------------------------------------------------------------------
LEMMA InitPub == Init => PubInv
<1> SUFFICES ASSUME Init PROVE PubInv
  OBVIOUS
<1> USE PublicationAssumption DEF Init
<1>1. TypeOK
  <2>1. gated \in BOOLEAN
    OBVIOUS
  <2>2. has \in [Process -> BOOLEAN] /\ \A p \in Process : ~has[p]
    OBVIOUS
  <2>3. pc \in [Process -> Labels] /\ op \in [Writers -> Ops]
    BY DEF Labels, Ops
  <2>4. turns \in 0..MaxTurns
    OBVIOUS
  <2>5. parked \in BOOLEAN /\ auto \in BOOLEAN /\ go \in BOOLEAN /\ signed \in BOOLEAN
    OBVIOUS
  <2>6. post = "none" /\ slot = "none" /\ ~parked /\ ~auto /\ task = "awaiting_approval"
    OBVIOUS
  <2>7. post # "scheduled"
    OBVIOUS
  <2> HIDE DEF Init
  <2> QED
    BY <2>1, <2>2, <2>3, <2>4, <2>5, <2>6, <2>7, Zenon DEF TypeOK
<1>2. OneAtATime /\ Knows
  BY DEF OneAtATime, Knows, ApproveKnows, SlotKnows, DecisionKnows, Process
<1>3. StagedIsApproved /\ ApprovalIsAWord /\ LockStep
  BY DEF StagedIsApproved, ApprovalIsAWord, LockStep, Staged
<1> QED
  BY <1>1, <1>2, <1>3 DEF PubInv

------------------------------------------------------------------------------
(* Types. *)

LEMMA SlotWriteTyped ==
  ASSUME TypeOK, NEW r \in Writers, SlotWrite(r)
  PROVE  TypeOK'
<1>1. r \in Process /\ "idle" \in Labels
  BY DEF Process, Writers, Labels
<1>2. pc' \in [Process -> Labels]
  BY <1>1 DEF TypeOK, SlotWrite, Goto
<1>3. /\ task' = task /\ parked' = parked /\ auto' = auto /\ gated' = gated
      /\ op' = op /\ has' = has /\ turns' = turns /\ go' = go /\ signed' = FALSE
  BY DEF SlotWrite
<1>4. \/ has[r] /\ post' = "scheduled" /\ slot' = "future"
      \/ post' = post /\ slot' = slot
  BY DEF SlotWrite
<1>5. /\ post' \in {"none", "draft", "approved", "scheduled", "published", "rejected"}
      /\ slot' \in {"none", "future", "due"}
  BY <1>4 DEF TypeOK
<1>6. post' = "none" => slot' = "none" /\ ~parked' /\ ~auto' /\ \A p \in Process : ~has'[p]
  BY <1>3, <1>4 DEF TypeOK
<1>7. post' = "scheduled" => slot' # "none"
  BY <1>4 DEF TypeOK
<1> QED
  BY <1>2, <1>3, <1>5, <1>6, <1>7 DEF TypeOK

LEMMA StepTyped == TypeOK /\ [Next]_vars => TypeOK'
<1> SUFFICES ASSUME TypeOK, [Next]_vars PROVE TypeOK'
  OBVIOUS
<1> USE PublicationAssumption
    DEF TypeOK, Writers, Process, Labels, Ops, Goto, row, Free, Turn
<1>1. ASSUME NEW r \in Writers, ApproveWrite(r) PROVE TypeOK'
  BY <1>1 DEF ApproveWrite
<1>2. ASSUME NEW r \in Writers, Find(r) PROVE TypeOK'
  BY <1>2 DEF Find, AfterStaging, Stages
<1>3. ASSUME NEW r \in Writers, Insert(r) PROVE TypeOK'
  <2>1. CASE post = "none"
    <3>1. has' \in [Process -> BOOLEAN] /\ pc' \in [Process -> Labels]
      BY <1>3, <2>1 DEF Insert
    <3>2. post' \in {"approved", "published"} /\ slot' \in {"none", "due"}
      BY <1>3, <2>1 DEF Insert
    <3>3. /\ task' = task /\ gated' = gated /\ op' = op /\ turns' = turns /\ go' = go
          /\ signed' = signed /\ parked' = FALSE /\ auto' = FALSE
      BY <1>3, <2>1 DEF Insert
    <3>4. post' # "none" /\ post' # "scheduled"
      BY <3>2
    <3> QED
      BY <3>1, <3>2, <3>3, <3>4, Zenon
  <2>2. CASE post # "none"
    BY <1>3, <2>2 DEF Insert
  <2> QED
    BY <2>1, <2>2
<1>4. ASSUME NEW r \in Writers, Stamp(r) PROVE TypeOK'
  BY <1>4 DEF Stamp, AfterStaging, Stages
<1>5. ASSUME NEW r \in Writers, Promote(r) PROVE TypeOK'
  BY <1>5 DEF Promote, SyncTask, KeepSigned
<1>6. ASSUME NEW r \in Writers, Mark(r) PROVE TypeOK'
  BY <1>6 DEF Mark
<1>7. ASSUME NEW r \in Writers, SlotRead(r) PROVE TypeOK'
  BY <1>7 DEF SlotRead
<1>8. ASSUME NEW r \in Writers, SlotWrite(r) PROVE TypeOK'
  BY <1>8, SlotWriteTyped
<1>9. ASSUME NEW r \in Writers, Sign(r) PROVE TypeOK'
  BY <1>9 DEF Sign
<1>10. ASSUME NEW r \in Writers, Refuse(r) PROVE TypeOK'
  BY <1>10 DEF Refuse, KeepSigned
<1>11. ASSUME NEW r \in Writers, RejectWrite(r) PROVE TypeOK'
  BY <1>11 DEF RejectWrite
<1>12. ASSUME NEW r \in Writers, Approve(r) PROVE TypeOK'
  BY <1>12 DEF Approve
<1>13. ASSUME NEW r \in Writers, Publish(r) PROVE TypeOK'
  BY <1>13 DEF Publish
<1>14. ASSUME NEW r \in Writers, Schedule(r) PROVE TypeOK'
  <2>1. \E o \in {"schedule", "batch"} : op' = [op EXCEPT ![r] = o]
    BY <1>14 DEF Schedule
  <2>2. op' \in [Writers -> Ops]
    BY <2>1
  <2>3. pc' \in [Process -> Labels]
    BY <1>14 DEF Schedule
  <2>4. turns' \in 0..MaxTurns
    BY <1>14 DEF Schedule
  <2>6. go' \in BOOLEAN
    <3>1. go' = TRUE \/ go' = go
      BY <1>14 DEF Schedule
    <3> QED
      BY <3>1, Zenon
  <2>5. UNCHANGED <<task, post, slot, parked, auto, gated, has, signed>>
    BY <1>14 DEF Schedule
  <2>7. post # "none"
    BY <1>14 DEF Schedule
  <2> QED
    BY <2>2, <2>3, <2>4, <2>5, <2>6, <2>7
<1>15. ASSUME NEW r \in Writers, Clear(r) PROVE TypeOK'
  BY <1>15 DEF Clear
<1>16. ASSUME NEW r \in Writers, Shift(r) PROVE TypeOK'
  BY <1>16 DEF Shift
<1>17. ASSUME NEW r \in Writers, Unapprove(r) PROVE TypeOK'
  BY <1>17 DEF Unapprove, Delete, Forget, KeepSigned, Deleted
<1>18. ASSUME NEW r \in Writers, Veto(r) PROVE TypeOK'
  BY <1>18 DEF Veto
<1>19. ASSUME NEW r \in Writers, Reject(r) PROVE TypeOK'
  BY <1>19 DEF Reject
<1>20. ASSUME NEW r \in Writers, Unpublish(r) PROVE TypeOK'
  BY <1>20 DEF Unpublish
<1>21. ASSUME NEW r \in Writers, Decide(r) PROVE TypeOK'
  BY <1>21 DEF Decide
<1>22. ASSUME NEW r \in Writers, Patch(r) PROVE TypeOK'
  <2>1. /\ post' \in {"none", "draft", "approved", "scheduled", "published", "rejected"}
        /\ slot' \in {"none", "future", "due"} /\ turns' \in 0..MaxTurns
        /\ post # "none" /\ post' # "none" /\ (post' = "scheduled" => slot' # "none")
    BY <1>22 DEF Patch
  <2>2. go' = go \/ go' = TRUE \/ go' = FALSE
    BY <1>22 DEF Patch
  <2>3. UNCHANGED <<task, parked, auto, gated, pc, op, has>>
    BY <1>22 DEF Patch
  <2>4. go' \in BOOLEAN
    BY <2>2, Zenon
  <2>5. signed' \in BOOLEAN
    BY <1>22 DEF Patch, KeepSigned
  <2> QED
    BY <2>1, <2>3, <2>4, <2>5, Zenon
<1>23. ASSUME NEW r \in Writers, DeletePost(r) PROVE TypeOK'
  BY <1>23 DEF DeletePost, Delete, Forget, KeepSigned
<1>24. ASSUME NEW r \in Writers, GoLive(r) PROVE TypeOK'
  BY <1>24 DEF GoLive
<1>25. ASSUME NEW r \in Writers, GoLiveWrite(r) PROVE TypeOK'
  BY <1>25 DEF GoLiveWrite, SyncTask, KeepSigned
<1>26. CASE TickStart
  BY <1>26 DEF TickStart, IsDue
<1>27. CASE Park
  BY <1>27 DEF Park
<1>28. CASE Tick
  BY <1>28 DEF Tick, IsDue, Vetoed, SyncTask, KeepSigned
<1>29. CASE SlotComes
  BY <1>29 DEF SlotComes
<1>30. CASE Switch
  BY <1>30 DEF Switch
<1>31. ASSUME NEW p \in Process, Die(p) PROVE TypeOK'
  BY <1>31 DEF Die
<1>32. CASE UNCHANGED vars
  BY <1>32 DEF vars
<1> QED
  BY <1>1, <1>2, <1>3, <1>4, <1>5, <1>6, <1>7, <1>8, <1>9, <1>10, <1>11, <1>12, <1>13, <1>14, <1>15, <1>16, <1>17, <1>18, <1>19, <1>20, <1>21, <1>22, <1>23, <1>24, <1>25, <1>26, <1>27, <1>28, <1>29, <1>30, <1>31, <1>32 DEF Next, GoOn, Arrive, PublisherSteps

THEOREM PublicationTyped == Spec => []TypeOK
<1>1. Init => TypeOK
  BY InitPub DEF PubInv
<1> QED
  BY <1>1, StepTyped, PTL DEF Spec

------------------------------------------------------------------------------
(* The steps, one by one. *)

Core == OneAtATime /\ Knows /\ StagedIsApproved /\ ApprovalIsAWord /\ LockStep

LEMMA StepCore ==
  ASSUME Calm, PubInv, [Next]_vars
  PROVE  Core'
<1> USE PublicationAssumption
    DEF Calm, PubInv, Core, TypeOK, Allowed, Writers, Process, Goto, row, Free, Alone, Turn,
        OneAtATime, Knows, ApproveKnows, SlotKnows, DecisionKnows, Approvals, Staged,
        StagedIsApproved, ApprovalIsAWord, LockStep, Stages
<1>1. ASSUME NEW r \in Writers, ApproveWrite(r) PROVE Core'
  BY <1>1 DEF ApproveWrite
<1>2. ASSUME NEW r \in Writers, Find(r) PROVE Core'
  BY <1>2 DEF Find, AfterStaging
<1>3. ASSUME NEW r \in Writers, Insert(r) PROVE Core'
  BY <1>3 DEF Insert
<1>4. ASSUME NEW r \in Writers, Stamp(r) PROVE Core'
  BY <1>4 DEF Stamp, AfterStaging
<1>5. ASSUME NEW r \in Writers, Promote(r) PROVE Core'
  BY <1>5 DEF Promote, SyncTask, KeepSigned
<1>6. ASSUME NEW r \in Writers, Mark(r) PROVE Core'
  BY <1>6 DEF Mark
<1>7. ASSUME NEW r \in Writers, SlotRead(r) PROVE Core'
  BY <1>7 DEF SlotRead
<1>8. ASSUME NEW r \in Writers, SlotWrite(r) PROVE Core'
  BY <1>8 DEF SlotWrite
<1>9. ASSUME NEW r \in Writers, Sign(r) PROVE Core'
  BY <1>9 DEF Sign
<1>10. ASSUME NEW r \in Writers, Refuse(r) PROVE Core'
  BY <1>10 DEF Refuse, KeepSigned
<1>11. ASSUME NEW r \in Writers, RejectWrite(r) PROVE Core'
  BY <1>11 DEF RejectWrite
<1>12. ASSUME NEW r \in Writers, Approve(r) PROVE Core'
  BY <1>12 DEF Approve
<1>13. ASSUME NEW r \in Writers, Publish(r) PROVE Core'
  BY <1>13 DEF Publish
<1>14. ASSUME NEW r \in Writers, Schedule(r) PROVE Core'
  BY <1>14 DEF Schedule
<1>15. ASSUME NEW r \in Writers, Clear(r) PROVE Core'
  BY <1>15 DEF Clear
<1>16. ASSUME NEW r \in Writers, Shift(r) PROVE Core'
  BY <1>16 DEF Shift
<1>17. ASSUME NEW r \in Writers, Unapprove(r) PROVE Core'
  BY <1>17 DEF Unapprove, Delete, Forget, KeepSigned, Deleted
<1>18. ASSUME NEW r \in Writers, Veto(r) PROVE Core'
  BY <1>18 DEF Veto
<1>19. ASSUME NEW r \in Writers, Reject(r) PROVE Core'
  BY <1>19 DEF Reject
<1>20. ASSUME NEW r \in Writers, Unpublish(r) PROVE Core'
  BY <1>20 DEF Unpublish
<1>21. ASSUME NEW r \in Writers, Decide(r) PROVE Core'
  BY <1>21 DEF Decide
<1>22. ASSUME NEW r \in Writers, Patch(r) PROVE Core'
  BY <1>22 DEF Patch, KeepSigned
<1>23. ASSUME NEW r \in Writers, DeletePost(r) PROVE Core'
  BY <1>23 DEF DeletePost, Delete, Forget, KeepSigned
<1>24. ASSUME NEW r \in Writers, GoLive(r) PROVE Core'
  BY <1>24 DEF GoLive
<1>25. ASSUME NEW r \in Writers, GoLiveWrite(r) PROVE Core'
  BY <1>25 DEF GoLiveWrite, SyncTask, KeepSigned
<1>26. CASE TickStart
  BY <1>26 DEF TickStart, IsDue
<1>27. CASE Park
  BY <1>27 DEF Park
<1>28. CASE Tick
  BY <1>28 DEF Tick, IsDue, Vetoed, SyncTask, KeepSigned, MovingSlot
<1>29. CASE SlotComes
  BY <1>29 DEF SlotComes
<1>30. CASE Switch
  BY <1>30 DEF Switch
<1>31. ASSUME NEW p \in Process, Die(p) PROVE Core'
  BY <1>31 DEF Die
<1>32. CASE UNCHANGED vars
  BY <1>32 DEF vars
<1> QED
  BY <1>1, <1>2, <1>3, <1>4, <1>5, <1>6, <1>7, <1>8, <1>9, <1>10, <1>11, <1>12, <1>13, <1>14, <1>15, <1>16, <1>17, <1>18, <1>19, <1>20, <1>21, <1>22, <1>23, <1>24, <1>25, <1>26, <1>27, <1>28, <1>29, <1>30, <1>31, <1>32 DEF Next, GoOn, Arrive, PublisherSteps

LEMMA PubInvariant == ASSUME Calm PROVE Spec => []PubInv
<1>1. PubInv /\ [Next]_vars => PubInv'
  <2> SUFFICES ASSUME PubInv, [Next]_vars PROVE PubInv'
    OBVIOUS
  <2>1. TypeOK'
    BY StepTyped DEF PubInv
  <2> QED
    BY <2>1, StepCore DEF Core, PubInv
<1> QED
  BY <1>1, InitPub, PTL DEF Spec

------------------------------------------------------------------------------
\* A live post has a published task, and a published task a live post.
THEOREM PostsAndTasksInLockstep == ASSUME Calm PROVE Spec => []LockStep
BY PubInvariant, PTL DEF PubInv

\* Nothing goes live on an approval or a slot that was withdrawn.
THEOREM NothingGoesLiveUnbidden == ASSUME Calm PROVE Spec => GoesLiveOnAWord
<1> DEFINE Bidden == post # "published" /\ post' = "published" => go'
<1>1. ASSUME PubInv, [Next]_vars PROVE Bidden
  <2> USE <1>1
      DEF Calm, PubInv, TypeOK, Knows, ApproveKnows, SlotKnows, Staged, StagedIsApproved,
          ApprovalIsAWord, LockStep, row, Allowed, Writers
  <2>1. ASSUME NEW r \in Writers, Insert(r) \/ Promote(r) \/ GoLiveWrite(r) PROVE Bidden
    BY <2>1 DEF Insert, Promote, GoLiveWrite
  <2>2. CASE Tick
    BY <2>2 DEF Tick, IsDue, Vetoed
  <2>3. ASSUME NEW r \in Writers, GoOn(r), ~(Insert(r) \/ Promote(r) \/ GoLiveWrite(r)) PROVE Bidden
    BY <2>3 DEF GoOn, ApproveWrite, Find, Stamp, Mark, SlotRead, SlotWrite, Sign, Refuse, RejectWrite
  <2>4. ASSUME NEW r \in Writers, Arrive(r) PROVE Bidden
    BY <2>4 DEF Arrive, Approve, Publish, Schedule, Clear, Shift, Unapprove, Delete, Veto, Reject,
                Unpublish, Decide, Patch, DeletePost, GoLive
  <2>5. CASE TickStart \/ Park \/ SlotComes \/ Switch
    BY <2>5 DEF TickStart, Park, SlotComes, Switch
  <2>6. ASSUME NEW p \in Process, Die(p) PROVE Bidden
    BY <2>6 DEF Die
  <2>7. CASE UNCHANGED vars
    BY <2>7 DEF vars
  <2> QED
    BY <2>1, <2>2, <2>3, <2>4, <2>5, <2>6, <2>7 DEF Next, PublisherSteps
<1> QED
  BY <1>1, PubInvariant, PTL DEF Spec, GoesLiveOnAWord
==============================================================================
