------------------------------ MODULE StaticSite ------------------------------
(***************************************************************************)
(* The public site reads files in object storage, never the database.  A   *)
(* process that publishes, edits or takes down a post also writes the      *)
(* files; two jobs repair what such a process left undone.  This is the    *)
(* story of some posts: their rows, the page posts/<slug>.json of each,    *)
(* posts/index.json that lists them, and manifest.json that counts them.   *)
(* Every export writes one page, and index and manifest for all posts.     *)
(*                                                                         *)
(* One action is one statement or the upload or deletion of one file.      *)
(***************************************************************************)
EXTENDS Naturals, FiniteSets

CONSTANTS
  Post,        \* the posts
  Writer,      \* processes that change a post: publisher loop, requests
  Sweep,       \* the job static_export_orphan_sweep
  Reconcile,   \* the job static_export_reconciliation
  MaxPerRun,   \* max_per_run of the sweep
  MaxChanges,  \* bound: how often the posts change
  MaxFaults,   \* bound: how many of the faults below happen
  Events       \* what may happen, a subset of EventKinds

EventKinds ==
  { "die",         \* a process dies, or storage is gone for the rest of its run
    "file_fails",  \* one file cannot be read, written or deleted, the next can
    "withdraw",    \* a status changes and nobody touches the files
    \* The same, where the code is not ready for it:
    "file_lost",   \* ... and the file is an index that the manifest vouches for
    "quick",       \* posts come and go within stale_minutes so that the count
                   \*   comes out right although they are others
    "overlap" }    \* exports that list different posts write at the same time

ASSUME SiteAssumption ==
  /\ IsFiniteSet(Post)
  /\ Sweep \notin Writer /\ Reconcile \notin Writer \cup {Sweep}
  /\ MaxPerRun \in Nat \ {0} /\ MaxChanges \in Nat /\ MaxFaults \in Nat
  /\ Events \subseteq EventKinds

VARIABLES
  live,      \* the rows with status = 'published'
  young,     \* those whose published_at is stale_minutes newer than exported_at
  page,      \* per post: "none", or if posts/<slug>.json is up to date
  index,     \* the posts in posts/index.json
  manifest,  \* post_count in manifest.json
  pc,        \* where each process is
  todo,      \* the posts whose pages it is to write or delete
  got,       \* the rows it has read: "none" for a post that was not published,
             \*   "new" for its content, "old" once that was edited
  changes, faults

files == <<page, index, manifest>>
local == <<pc, todo, got>>
vars  == <<live, young, files, local, changes, faults>>

Process == Writer \cup {Sweep, Reconcile}
WriterLabels    == {"idle", "fetch", "page", "retire", "select", "index", "manifest", "takedown"}
SweepLabels     == {"idle", "list", "retire"}
ReconcileLabels == {"idle", "all", "index", "page", "list", "retire", "manifest"}
Labels(p) == CASE p = Sweep     -> SweepLabels
               [] p = Reconcile -> ReconcileLabels
               [] OTHER         -> WriterLabels

Nothing == [q \in Post |-> "none"]
Row     == [q \in Post |-> IF q \in live THEN "new" ELSE "none"]

Init ==
  /\ live = {} /\ young = {}
  /\ page = Nothing /\ index = {} /\ manifest = 0
  /\ pc = [p \in Process |-> "idle"] /\ todo = [p \in Process |-> {}]
  /\ got = [p \in Process |-> Nothing]
  /\ changes = 0 /\ faults = 0

\* p goes on to a label, with the posts ps to do and the rows it read.
Goto(p, label, ps, rows) ==
  /\ pc' = [pc EXCEPT ![p] = label]
  /\ todo' = [todo EXCEPT ![p] = ps]
  /\ got' = [got EXCEPT ![p] = rows]
End(p) == Goto(p, "idle", {}, Nothing)

Allowed(kind, mild) == kind \in Events \/ mild
Change == changes < MaxChanges /\ changes' = changes + 1
Fault(kind) == kind \in Events /\ faults < MaxFaults /\ faults' = faults + 1

\* The posts that p has selected, for an index or a manifest to be written.
Listed(p) == {q \in Post : got[p][q] # "none"}
Selected(p) ==
  \/ p \in Writer /\ pc[p] \in {"index", "manifest"}
  \/ p = Reconcile /\ pc[p] \notin {"idle", "all"}

\* Count and age tell an index, written or about to be, from the posts l, of
\* which those in y are young.  A manifest that is about to be written will be
\* younger than all of them.
Tells(l, y) ==
  /\ \A S \in {index} \cup {Listed(p) : p \in {r \in Process : Selected(r)}} :
       S = l \/ manifest # Cardinality(l) \/ y \cap l # {}
  /\ \A p \in Process : Selected(p) /\ Listed(p) # l => Cardinality(Listed(p)) # Cardinality(l)

------------------------------------------------------------------------------
(* The rows. *)

\* Any path that goes live exports the post next.
Publish(w) ==
  \E q \in Post \ live :
    /\ pc[w] = "idle" /\ Change
    /\ live' = live \cup {q}
    /\ young' \in {young \cup {q}, young \ {q}}
    /\ Allowed("quick", Tells(live', young'))
    /\ Goto(w, "fetch", {q}, Nothing)
    /\ UNCHANGED <<files, faults>>

\* What was read or written of the post before is old now.
Edited(content, q) == IF content[q] = "none" THEN content ELSE [content EXCEPT ![q] = "old"]

\* refresh_live_post after an edit.
Edit(w) ==
  \E q \in live :
    /\ pc[w] = "idle" /\ Change
    /\ page' = Edited(page, q)
    /\ pc' = [pc EXCEPT ![w] = "fetch"]
    /\ todo' = [todo EXCEPT ![w] = {q}]
    /\ got' = [p \in Process |-> Edited(got[p], q)]
    /\ UNCHANGED <<live, young, index, manifest, faults>>

\* unpublish_post
Unpublish(w) ==
  \E q \in live :
    /\ pc[w] = "idle" /\ Change
    /\ live' = live \ {q}
    /\ Allowed("quick", Tells(live', young))
    /\ Goto(w, "takedown", {q}, Nothing)
    /\ UNCHANGED <<young, files, faults>>

\* A rejection, a new slot or an UPDATE of the status.
Withdraw ==
  /\ "withdraw" \in Events
  /\ \E q \in live :
       /\ Change
       /\ live' = live \ {q}
       /\ Allowed("quick", Tells(live', young))
  /\ UNCHANGED <<young, files, local, faults>>

------------------------------------------------------------------------------
(* export_post, for one post.  A file that cannot be written or deleted is   *)
(* logged, and the export goes on.                                           *)

Fetch(w) ==
  /\ pc[w] = "fetch"
  /\ Goto(w, IF todo[w] \subseteq live THEN "page" ELSE "retire", todo[w],
          [q \in Post |-> IF q \in todo[w] THEN Row[q] ELSE "none"])
  /\ UNCHANGED <<live, young, files, changes, faults>>

\* Where p goes on when it has no pages left to write or delete.  Mutant: the
\* sweep goes on like the rebuild, whose function it shares.
AfterPagesAlike(p) ==
  CASE p \in Writer   -> IF pc[p] = "takedown" THEN "idle" ELSE "select"
    [] p = Sweep      -> "manifest"
    [] p = Reconcile  -> IF pc[p] = "page" THEN "list" ELSE "manifest"
AfterPages(p) ==
  CASE p \in Writer   -> IF pc[p] = "takedown" THEN "idle" ELSE "select"
    [] p = Sweep      -> "idle"
    [] p = Reconcile  -> IF pc[p] = "page" THEN "list" ELSE "manifest"

\* The rows a process needs no longer are forgotten.
GoOn(p) ==
  Goto(p, AfterPages(p), {}, IF AfterPages(p) \in {"idle", "select"} THEN Nothing ELSE got[p])
DoneWith(p, q) == IF todo[p] = {q} THEN GoOn(p) ELSE Goto(p, pc[p], todo[p] \ {q}, got[p])

\* Also a page of the full rebuild.
UploadPage(p) ==
  /\ pc[p] = "page"
  /\ \E q \in todo[p] :
       /\ \/ page' = [page EXCEPT ![q] = got[p][q]] /\ UNCHANGED faults
          \/ Fault("file_fails") /\ UNCHANGED page
       /\ DoneWith(p, q)
  /\ UNCHANGED <<live, young, index, manifest, changes>>

\* _retire_slug, for a slug found unpublished, after a takedown, or an orphan.
Retire(p) ==
  /\ pc[p] \in {"retire", "takedown"}
  /\ \E q \in todo[p] :
       /\ \/ page' = [page EXCEPT ![q] = "none"] /\ UNCHANGED faults
          \/ Fault("file_fails") /\ UNCHANGED page
       /\ DoneWith(p, q)
  /\ UNCHANGED <<live, young, index, manifest, changes>>

\* Another export is about to write index and manifest for other posts.
Disagreed(p) == \E r \in Process \ {p} : Selected(r) /\ Listed(r) # live

\* Mutant: the manifest is written first.
SelectAndCount(p) ==
  /\ pc[p] \in {"select", "all"}
  /\ Allowed("overlap", ~Disagreed(p))
  /\ Goto(p, "index", {}, Row)
  /\ manifest' = Cardinality(live) /\ young' = {}
  /\ UNCHANGED <<live, page, index, changes, faults>>

\* The published posts, for an export and for a full rebuild.
Select(p) ==
  /\ pc[p] \in {"select", "all"}
  /\ Allowed("overlap", ~Disagreed(p))
  /\ Goto(p, "index", {}, Row)
  /\ UNCHANGED <<live, young, files, changes, faults>>

\* The rebuild goes on with the page of every post it lists.  Mutant: only of
\* those that were not listed before.
PagesNotListed(p) == Listed(p) \ index
Pages(p) == Listed(p)

UploadIndex(p) ==
  /\ pc[p] = "index"
  /\ \/ index' = Listed(p) /\ UNCHANGED faults
     \/ Fault("file_fails") /\ Allowed("file_lost", index = Listed(p)) /\ UNCHANGED index
  /\ IF p = Reconcile /\ Pages(p) # {}
       THEN Goto(p, "page", Pages(p), got[p])
       ELSE Goto(p, IF p = Reconcile THEN "list" ELSE "manifest", {}, got[p])
  /\ UNCHANGED <<live, young, page, manifest, changes>>

\* The manifest comes last: an export that did not get here shows as drift.
UploadManifest(p) ==
  /\ pc[p] = "manifest"
  /\ \/ manifest' = Cardinality(Listed(p)) /\ young' = {} /\ UNCHANGED faults
     \/ Fault("file_fails") /\ UNCHANGED <<manifest, young>>
  /\ End(p)
  /\ UNCHANGED <<live, page, index, changes>>

------------------------------------------------------------------------------
(* The jobs. *)

\* static_export_orphan_sweep: the published slugs ...
SweepRead ==
  /\ pc[Sweep] = "idle"
  /\ Goto(Sweep, "list", {}, Row)
  /\ UNCHANGED <<live, young, files, changes, faults>>

\* ... and the pages there are for other slugs, as many as a run may retire.
Orphans(p) == {q \in Post : page[q] # "none"} \ Listed(p)

List(p) ==
  /\ pc[p] = "list"
  /\ \/ \E ps \in SUBSET Orphans(p) :
          /\ IF p = Sweep /\ Cardinality(Orphans(p)) > MaxPerRun
               THEN Cardinality(ps) = MaxPerRun ELSE ps = Orphans(p)
          /\ IF ps = {} THEN GoOn(p) ELSE Goto(p, "retire", ps, got[p])
          /\ UNCHANGED faults
     \/ Fault("file_fails") /\ GoOn(p)
  /\ UNCHANGED <<live, young, files, changes>>

\* static_export_reconciliation: a count that differs, or a manifest that is
\* older than the newest post.  Mutant: only the count.
DriftOfCount == manifest # Cardinality(live)
Drift == manifest # Cardinality(live) \/ young \cap live # {}

\* A manifest that cannot be read counts as drift.
ReconcileRead ==
  /\ pc[Reconcile] = "idle"
  /\ (Drift /\ UNCHANGED faults) \/ Fault("file_fails")
  /\ Goto(Reconcile, "all", {}, Nothing)
  /\ UNCHANGED <<live, young, files, changes>>

Die(p) ==
  /\ pc[p] # "idle" /\ Fault("die")
  /\ End(p)
  /\ UNCHANGED <<live, young, files, changes>>

Export(p) ==
  \/ Fetch(p) \/ UploadPage(p) \/ Retire(p) \/ Select(p) \/ UploadIndex(p)
  \/ List(p) \/ UploadManifest(p)

Next ==
  \/ Withdraw \/ SweepRead \/ ReconcileRead
  \/ \E w \in Writer : Publish(w) \/ Edit(w) \/ Unpublish(w)
  \/ \E p \in Process : Export(p) \/ Die(p)

Spec == Init /\ [][Next]_vars

\* Both jobs are scheduled, and a process goes on until it dies.
FairSpec ==
  /\ Spec
  /\ WF_vars(SweepRead) /\ WF_vars(ReconcileRead)
  /\ \A p \in Process : WF_vars(Export(p))

------------------------------------------------------------------------------
(* Properties. *)

\* Types; each process is at a place of its own code.
TypeOK ==
  /\ live \subseteq Post /\ young \subseteq Post
  /\ page \in [Post -> {"none", "old", "new"}] /\ index \subseteq Post /\ manifest \in Nat
  /\ pc \in [Process -> WriterLabels \cup SweepLabels \cup ReconcileLabels]
  /\ \A p \in Process : pc[p] \in Labels(p)
  /\ todo \in [Process -> SUBSET Post]
  /\ got \in [Process -> [Post -> {"none", "old", "new"}]]
  /\ changes \in 0..MaxChanges /\ faults \in 0..MaxFaults

AllIdle == \A p \in Process : pc[p] = "idle"

\* "This watchdog is the safety net ... the index doesn't reflect the new content"
\* (static_export_reconciliation): whoever died and whatever failed on the way, an
\* index that lists other posts than are published is one that manifest and rows
\* tell.  Of pages they tell nothing; see PageDriftIsSeen.
IndexDriftIsSeen == index # live => Drift

\* Pages of posts that are not published.
Ghosts == {q \in Post \ live : page[q] # "none"}

\* The index comes to list the published posts, and the pages of others go,
\* "independent of which takedown path ran" (static_export_orphan_sweep), whatever
\* dies, and whichever page, manifest or deletion fails on the way.
ListingFollows == <>[](index = live /\ Ghosts = {})

\* Nothing changes and nothing fails any more.
Quiet == changes = MaxChanges /\ faults = MaxFaults

\* The site is what the database says, each page with the latest content.
Shown == index = live /\ page = Row

\* "On drift it fires a full rebuild" (static_export_reconciliation): once it sees a
\* difference and is left alone, pages that were lost before come back too.
RebuildRestores == Quiet /\ AllIdle /\ Drift ~> Shown

\* "A failed export leaves R2 stale until the reconciliation job rebuilds it"
\* (_export_for_row in scheduled_publisher): a page that is missing or old shows as
\* drift, when every process has ended.  It does not: an upload that fails does not
\* stop the export from writing the manifest, and the next export of any other post
\* writes it as well.
PageDriftIsSeen == AllIdle /\ ~Shown => Drift \/ Ghosts # {}
==============================================================================
