--------------------------- MODULE StaticSiteProofs ---------------------------
(***************************************************************************)
(* Why an index that is wrong shows: exports that write at the same time   *)
(* list the same posts, the manifest is written after the index, and of    *)
(* what is written or about to be, count and age tell what is published.   *)
(* And why no export, repair or sweep makes a right site wrong.            *)
(***************************************************************************)
EXTENDS StaticSite, FiniteSetTheorems, TLAPS

\* None of the events that the code is not ready for.
Calm == Events \cap {"file_lost", "quick", "overlap"} = {}

\* An export that has written the index, and is to write the manifest.
Indexed(p) ==
  \/ p \in Writer /\ pc[p] = "manifest"
  \/ p = Reconcile /\ pc[p] \in {"page", "list", "retire", "manifest"}

ExportsAgree == \A p, q \in Process : Selected(p) /\ Selected(q) => Listed(p) = Listed(q)
IndexIsTheirs == \A p \in Process : Indexed(p) => index = Listed(p)

SiteInv == ExportsAgree /\ IndexIsTheirs /\ Tells(live, young)

\* A writer that looks at the row of a post looks at one.
FetchesOne == \A w \in Writer : pc[w] = "fetch" => \E q \in Post : todo[w] = {q}

Rows == [Post -> {"none", "old", "new"}]
LocalTyped ==
  /\ pc \in [Process -> WriterLabels \cup SweepLabels \cup ReconcileLabels]
  /\ \A p \in Process : pc[p] \in Labels(p)
  /\ todo \in [Process -> SUBSET Post]
  /\ got \in [Process -> Rows]

------------------------------------------------------------------------------
(* Types. *)

LEMMA Different == Sweep # Reconcile /\ Sweep \notin Writer /\ Reconcile \notin Writer
  BY SiteAssumption

\* What a step of p changes of the processes.
LEMMA GotoIs ==
  ASSUME LocalTyped, NEW p \in Process, NEW l, NEW ps, NEW rows, Goto(p, l, ps, rows)
  PROVE  /\ pc'[p] = l /\ todo'[p] = ps /\ got'[p] = rows
         /\ \A q \in Process \ {p} : pc'[q] = pc[q] /\ todo'[q] = todo[q] /\ got'[q] = got[q]
  BY DEF LocalTyped, Goto

LEMMA GotoTyped ==
  ASSUME LocalTyped, NEW p \in Process, NEW l \in Labels(p), NEW ps \in SUBSET Post,
         NEW rows \in Rows, Goto(p, l, ps, rows)
  PROVE  LocalTyped'
<1>1. l \in WriterLabels \cup SweepLabels \cup ReconcileLabels
  BY DEF Labels
<1>2. /\ pc' \in [Process -> WriterLabels \cup SweepLabels \cup ReconcileLabels]
      /\ todo' \in [Process -> SUBSET Post] /\ got' \in [Process -> Rows]
  BY <1>1 DEF LocalTyped, Goto
<1>3. \A q \in Process : pc'[q] \in Labels(q)
  BY GotoIs DEF LocalTyped
<1> QED
  BY <1>2, <1>3 DEF LocalTyped

LEMMA RowsTyped == Nothing \in Rows /\ Row \in Rows
  BY DEF Nothing, Row, Rows

LEMMA EndTyped ==
  ASSUME LocalTyped, NEW p \in Process, End(p)
  PROVE  LocalTyped'
<1>1. "idle" \in Labels(p)
  BY DEF Labels, WriterLabels, SweepLabels, ReconcileLabels
<1> QED
  BY <1>1, GotoTyped, RowsTyped DEF End

LEMMA AfterPagesIs ==
  ASSUME LocalTyped, NEW p \in Process, pc[p] \in {"page", "retire", "takedown", "list"}
  PROVE  /\ AfterPages(p) \in Labels(p)
         /\ AfterPages(p) \in {"idle", "select"} \/ p = Reconcile
         /\ AfterPages(p) \in {"idle", "select", "list", "manifest"}
         /\ p = Reconcile => AfterPages(p) \in {"list", "manifest"}
<1> USE Different DEF Labels, WriterLabels, SweepLabels, ReconcileLabels
<1>1. CASE p = Sweep
  BY <1>1 DEF AfterPages
<1>2. CASE p = Reconcile
  <2>1. pc[p] \in ReconcileLabels
    BY <1>2 DEF LocalTyped
  <2> QED
    BY <1>2, <2>1 DEF AfterPages
<1>3. CASE p \in Writer
  BY <1>3 DEF AfterPages
<1> QED
  BY <1>1, <1>2, <1>3 DEF Process

\* Where a process is when a page is done, and which rows it keeps.
LEMMA GoOnIs ==
  ASSUME LocalTyped, NEW p \in Process, pc[p] \in {"page", "retire", "takedown", "list"}, GoOn(p)
  PROVE  /\ LocalTyped'
         /\ pc'[p] = AfterPages(p) /\ todo'[p] = {}
         /\ p = Reconcile => got'[p] = got[p]
         /\ \A q \in Process \ {p} : pc'[q] = pc[q] /\ todo'[q] = todo[q] /\ got'[q] = got[q]
<1> DEFINE rows == IF AfterPages(p) \in {"idle", "select"} THEN Nothing ELSE got[p]
<1>1. Goto(p, AfterPages(p), {}, rows)
  BY DEF GoOn
<1>2. rows \in Rows
  BY RowsTyped DEF LocalTyped
<1>3. AfterPages(p) \in Labels(p)
  BY AfterPagesIs
<1>4. p = Reconcile => rows = got[p]
  BY AfterPagesIs
<1> HIDE DEF rows
<1>5. LocalTyped'
  BY <1>1, <1>2, <1>3, GotoTyped
<1> QED
  BY <1>1, <1>4, <1>5, GotoIs

LEMMA DoneWithIs ==
  ASSUME LocalTyped, NEW p \in Process, pc[p] \in {"page", "retire", "takedown"},
         NEW q \in Post, DoneWith(p, q)
  PROVE  /\ LocalTyped'
         /\ pc'[p] \in {pc[p], AfterPages(p)} /\ todo'[p] \subseteq todo[p]
         /\ p = Reconcile \/ pc'[p] = pc[p] => got'[p] = got[p]
         /\ \A r \in Process \ {p} : pc'[r] = pc[r] /\ todo'[r] = todo[r] /\ got'[r] = got[r]
<1>1. CASE todo[p] = {q}
  <2>1. GoOn(p)
    BY <1>1 DEF DoneWith
  <2>2. pc[p] # AfterPages(p)
    BY AfterPagesIs
  <2> QED
    BY <2>1, <2>2, GoOnIs
<1>2. CASE todo[p] # {q}
  <2>1. Goto(p, pc[p], todo[p] \ {q}, got[p])
    BY <1>2 DEF DoneWith
  <2>2. pc[p] \in Labels(p) /\ todo[p] \ {q} \in SUBSET Post /\ got[p] \in Rows
    BY DEF LocalTyped
  <2>3. LocalTyped'
    BY <2>1, <2>2, GotoTyped
  <2> QED
    BY <2>1, <2>3, GotoIs
<1> QED
  BY <1>1, <1>2

LEMMA EditedIs ==
  ASSUME NEW content \in Rows, NEW q \in Post
  PROVE  /\ Edited(content, q) \in Rows
         /\ \A r \in Post : Edited(content, q)[r] # "none" <=> content[r] # "none"
  BY DEF Edited, Rows

LEMMA CountsAreNumbers == \A S \in SUBSET Post : Cardinality(S) \in Nat
<1> SUFFICES ASSUME NEW S \in SUBSET Post PROVE Cardinality(S) \in Nat
  OBVIOUS
<1>1. IsFiniteSet(S)
  BY SiteAssumption, FS_Subset
<1> QED
  BY <1>1, FS_CardinalityType

\* The types, of the processes and of the rest.
LEMMA TypedParts ==
  TypeOK <=> /\ LocalTyped
             /\ live \subseteq Post /\ young \subseteq Post
             /\ page \in Rows /\ index \subseteq Post /\ manifest \in Nat
             /\ changes \in 0..MaxChanges /\ faults \in 0..MaxFaults
  BY DEF TypeOK, LocalTyped, Rows

LEMMA InitSite == Init => TypeOK /\ FetchesOne /\ SiteInv
<1> SUFFICES ASSUME Init PROVE TypeOK /\ FetchesOne /\ SiteInv
  OBVIOUS
<1>1. \A p \in Process : pc[p] = "idle" /\ todo[p] = {} /\ got[p] = Nothing
  BY DEF Init
<1>2. LocalTyped
  <2>1. "idle" \in WriterLabels /\ \A p \in Process : "idle" \in Labels(p)
    BY DEF Labels, WriterLabels, SweepLabels, ReconcileLabels
  <2> QED
    BY <2>1, RowsTyped DEF LocalTyped, Init
<1>3. TypeOK
  BY <1>2, TypedParts, RowsTyped, SiteAssumption DEF Init
<1>4. \A p \in Process : ~Selected(p) /\ ~Indexed(p)
  BY <1>1, Different DEF Selected, Indexed
<1>5. SiteInv
  BY <1>4 DEF SiteInv, ExportsAgree, IndexIsTheirs, Tells, Init
<1> QED
  BY <1>1, <1>3, <1>5 DEF FetchesOne, Process

LEMMA StepTyped == TypeOK /\ [Next]_vars => TypeOK'
<1> SUFFICES ASSUME TypeOK, [Next]_vars PROVE TypeOK'
  OBVIOUS
<1> DEFINE DataTyped ==
      /\ live \subseteq Post /\ young \subseteq Post
      /\ page \in Rows /\ index \subseteq Post /\ manifest \in Nat
      /\ changes \in 0..MaxChanges /\ faults \in 0..MaxFaults
<1>0. LocalTyped /\ DataTyped
  BY TypedParts
<1>a. LocalTyped' /\ DataTyped' => TypeOK'
  BY TypedParts, PTL
<1> USE SiteAssumption, Different
    DEF Change, Fault, files, local, Labels, WriterLabels, SweepLabels, ReconcileLabels
<1>1. ASSUME NEW w \in Writer, Publish(w) PROVE LocalTyped' /\ DataTyped'
  <2>1. PICK q \in Post : Goto(w, "fetch", {q}, Nothing)
    BY <1>1 DEF Publish
  <2>2. LocalTyped'
    BY <1>0, <2>1, GotoTyped, RowsTyped DEF Process
  <2>3. DataTyped'
    BY <1>0, <1>1 DEF Publish
  <2> QED
    BY <2>2, <2>3
<1>2. ASSUME NEW w \in Writer, Edit(w) PROVE LocalTyped' /\ DataTyped'
  <2>1. PICK q \in live :
          /\ page' = Edited(page, q) /\ pc' = [pc EXCEPT ![w] = "fetch"]
          /\ todo' = [todo EXCEPT ![w] = {q}]
          /\ got' = [p \in Process |-> Edited(got[p], q)]
    BY <1>2 DEF Edit
  <2>2. q \in Post
    BY <1>0
  <2>3. got' \in [Process -> Rows] /\ page' \in Rows
    BY <1>0, <2>1, <2>2, EditedIs DEF LocalTyped
  <2>4. LocalTyped'
    BY <1>0, <2>1, <2>2, <2>3 DEF LocalTyped, Process
  <2>5. DataTyped'
    BY <1>0, <1>2, <2>3 DEF Edit
  <2> QED
    BY <2>4, <2>5
<1>3. ASSUME NEW w \in Writer, Unpublish(w) PROVE LocalTyped' /\ DataTyped'
  <2>1. PICK q \in live : Goto(w, "takedown", {q}, Nothing)
    BY <1>3 DEF Unpublish
  <2>2. LocalTyped'
    BY <1>0, <2>1, GotoTyped, RowsTyped DEF Process
  <2>3. DataTyped'
    BY <1>0, <1>3 DEF Unpublish
  <2> QED
    BY <2>2, <2>3
<1>4. ASSUME NEW p \in Process, Fetch(p) PROVE LocalTyped' /\ DataTyped'
  <2>1. p \in Writer
    BY <1>0, <1>4 DEF Fetch, LocalTyped, Process
  <2>2. [q \in Post |-> IF q \in todo[p] THEN Row[q] ELSE "none"] \in Rows
    BY RowsTyped DEF Rows
  <2>3. todo[p] \in SUBSET Post
    BY <1>0 DEF LocalTyped
  <2>4. LocalTyped'
    BY <1>0, <1>4, <2>1, <2>2, <2>3, GotoTyped DEF Fetch
  <2> QED
    BY <1>0, <1>4, <2>4 DEF Fetch
<1>5. ASSUME NEW p \in Process, UploadPage(p) PROVE LocalTyped' /\ DataTyped'
  <2>1. PICK q \in todo[p] :
          DoneWith(p, q) /\ (page' = [page EXCEPT ![q] = got[p][q]] \/ page' = page)
    BY <1>5 DEF UploadPage
  <2>2. q \in Post /\ got[p] \in Rows
    BY <1>0 DEF LocalTyped
  <2>3. LocalTyped'
    BY <1>0, <1>5, <2>1, <2>2, DoneWithIs DEF UploadPage
  <2>4. page' \in Rows
    BY <1>0, <2>1, <2>2 DEF Rows
  <2> QED
    BY <1>0, <1>5, <2>3, <2>4 DEF UploadPage
<1>6. ASSUME NEW p \in Process, Retire(p) PROVE LocalTyped' /\ DataTyped'
  <2>1. PICK q \in todo[p] :
          DoneWith(p, q) /\ (page' = [page EXCEPT ![q] = "none"] \/ page' = page)
    BY <1>6 DEF Retire
  <2>2. q \in Post
    BY <1>0 DEF LocalTyped
  <2>3. LocalTyped'
    BY <1>0, <1>6, <2>1, <2>2, DoneWithIs DEF Retire
  <2>4. page' \in Rows
    BY <1>0, <2>1 DEF Rows
  <2> QED
    BY <1>0, <1>6, <2>3, <2>4 DEF Retire
<1>7. ASSUME NEW p \in Process, Select(p) PROVE LocalTyped' /\ DataTyped'
  <2>1. p \in Writer \cup {Reconcile}
    BY <1>0, <1>7 DEF Select, LocalTyped, Process
  <2>2. LocalTyped'
    BY <1>0, <1>7, <2>1, GotoTyped, RowsTyped DEF Select
  <2> QED
    BY <1>0, <1>7, <2>2 DEF Select
<1>8. ASSUME NEW p \in Process, UploadIndex(p) PROVE LocalTyped' /\ DataTyped'
  <2>1. p \in Writer \cup {Reconcile}
    BY <1>0, <1>8 DEF UploadIndex, LocalTyped, Process
  <2>2. Listed(p) \subseteq Post /\ got[p] \in Rows
    BY <1>0 DEF Listed, LocalTyped
  <2>3. LocalTyped'
    <3>1. CASE p # Reconcile
      <4>1. Goto(p, "manifest", {}, got[p])
        BY <1>8, <3>1 DEF UploadIndex
      <4> QED
        BY <1>0, <2>1, <2>2, <3>1, <4>1, GotoTyped
    <3>2. CASE p = Reconcile
      <4>1. Goto(p, "page", Listed(p), got[p]) \/ Goto(p, "list", {}, got[p])
        BY <1>8, <3>2 DEF UploadIndex, Pages
      <4> QED
        BY <1>0, <2>2, <3>2, <4>1, GotoTyped
    <3> QED
      BY <3>1, <3>2
  <2>4. index' \subseteq Post
    BY <1>0, <1>8, <2>2 DEF UploadIndex
  <2>5. UNCHANGED <<live, young, page, manifest, changes>> /\ faults' \in 0..MaxFaults
    BY <1>0, <1>8 DEF UploadIndex
  <2> QED
    BY <1>0, <2>3, <2>4, <2>5
<1>9. ASSUME NEW p \in Process, UploadManifest(p) PROVE LocalTyped' /\ DataTyped'
  <2>1. LocalTyped'
    BY <1>0, <1>9, EndTyped DEF UploadManifest
  <2>2. manifest' \in Nat
    BY <1>0, <1>9, CountsAreNumbers DEF UploadManifest, Listed
  <2> QED
    BY <1>0, <1>9, <2>1, <2>2 DEF UploadManifest
<1>10. ASSUME NEW p \in Process, List(p) PROVE LocalTyped' /\ DataTyped'
  <2>1. pc[p] = "list" /\ got[p] \in Rows
    BY <1>0, <1>10 DEF List, LocalTyped
  <2>2. p \in {Sweep, Reconcile}
    BY <1>0, <2>1 DEF LocalTyped, Process
  <2>3. GoOn(p) \/ \E ps \in SUBSET Post : Goto(p, "retire", ps, got[p])
    BY <1>10 DEF List, Orphans
  <2>4. LocalTyped'
    BY <1>0, <2>1, <2>2, <2>3, GotoTyped, GoOnIs
  <2> QED
    BY <1>0, <1>10, <2>4 DEF List
<1>11. ASSUME NEW p \in Process, Die(p) PROVE LocalTyped' /\ DataTyped'
  BY <1>0, <1>11, EndTyped DEF Die
<1>12. ASSUME Withdraw PROVE LocalTyped' /\ DataTyped'
  BY <1>0, <1>12 DEF Withdraw, LocalTyped
<1>13. ASSUME SweepRead PROVE LocalTyped' /\ DataTyped'
  <2>1. LocalTyped'
    BY <1>0, <1>13, GotoTyped, RowsTyped DEF SweepRead, Process
  <2> QED
    BY <1>0, <1>13, <2>1 DEF SweepRead
<1>14. ASSUME ReconcileRead PROVE LocalTyped' /\ DataTyped'
  <2>1. LocalTyped'
    BY <1>0, <1>14, GotoTyped, RowsTyped DEF ReconcileRead, Process
  <2> QED
    BY <1>0, <1>14, <2>1 DEF ReconcileRead
<1>15. ASSUME UNCHANGED vars PROVE LocalTyped' /\ DataTyped'
  BY <1>0, <1>15 DEF vars, LocalTyped
<1> HIDE DEF DataTyped
<1> QED
  BY <1>a, <1>1, <1>2, <1>3, <1>4, <1>5, <1>6, <1>7, <1>8, <1>9, <1>10, <1>11, <1>12, <1>13, <1>14,
     <1>15 DEF Next, Export

\* Every process is at a place of its own code, and every file has a content.
THEOREM SiteTyped == Spec => []TypeOK
BY InitSite, StepTyped, PTL DEF Spec

------------------------------------------------------------------------------
(* An index that is wrong is seen. *)

\* Of nothing that is written or about to be written count and age tell less
\* after a step that writes neither index nor manifest nor rows, and selects nothing.
LEMMA NothingSelected ==
  ASSUME SiteInv, UNCHANGED <<live, young, index, manifest>>,
         \A p \in Process : Selected(p)' => Selected(p) /\ Listed(p)' = Listed(p),
         \A p \in Process : Indexed(p)' => Indexed(p)
  PROVE  SiteInv'
<1>1. \A p \in Process : Indexed(p)' => Selected(p)'
  BY Different DEF Indexed, Selected
<1>2. ExportsAgree'
  BY DEF SiteInv, ExportsAgree
<1>3. IndexIsTheirs'
  BY <1>1 DEF SiteInv, IndexIsTheirs
<1>4. Tells(live, young)'
  BY DEF SiteInv, Tells
<1> QED
  BY <1>2, <1>3, <1>4 DEF SiteInv

\* What Tells says, without the set of what is selected.
LEMMA TellsIs ==
  ASSUME NEW l, NEW y
  PROVE  Tells(l, y) <=>
           /\ index = l \/ manifest # Cardinality(l) \/ y \cap l # {}
           /\ \A p \in Process : Selected(p) =>
                \/ Listed(p) = l
                \/ /\ manifest # Cardinality(l) \/ y \cap l # {}
                   /\ Cardinality(Listed(p)) # Cardinality(l)
  BY DEF Tells

LEMMA TellsAfter ==
  ASSUME index' = live' \/ manifest' # Cardinality(live') \/ young' \cap live' # {},
         \A p \in Process : Selected(p)' =>
           \/ Listed(p)' = live'
           \/ /\ manifest' # Cardinality(live') \/ young' \cap live' # {}
              /\ Cardinality(Listed(p)') # Cardinality(live')
  PROVE  Tells(live, young)'
  BY DEF Tells

\* A row that changes: the writer has not selected, the others keep what they have.
LEMMA RowChanges ==
  ASSUME SiteInv, Tells(live', young'), UNCHANGED <<index, manifest>>,
         \A p \in Process : Selected(p)' => Selected(p) /\ Listed(p)' = Listed(p),
         \A p \in Process : Indexed(p)' => Indexed(p)
  PROVE  SiteInv'
<1>1. ExportsAgree'
  BY DEF SiteInv, ExportsAgree
<1>2. \A p \in Process : Indexed(p)' => Selected(p)'
  BY Different DEF Indexed, Selected
<1>3. IndexIsTheirs'
  BY <1>2 DEF SiteInv, IndexIsTheirs
<1>4. Tells(live, young)'
  BY TellsIs, TellsAfter
<1> QED
  BY <1>1, <1>3, <1>4 DEF SiteInv

LEMMA StepSite ==
  ASSUME Calm, TypeOK, SiteInv, [Next]_vars
  PROVE  SiteInv'
<1>0. LocalTyped
  BY TypedParts
<1> USE Different DEF files, local
<1>1. ASSUME NEW w \in Writer, Publish(w) PROVE SiteInv'
  <2>1. PICK q \in Post \ live : pc[w] = "idle" /\ Goto(w, "fetch", {q}, Nothing) /\ Tells(live', young')
    BY <1>1 DEF Publish, Allowed, Calm
  <2>2. \A p \in Process : /\ Selected(p)' => Selected(p) /\ Listed(p)' = Listed(p)
                           /\ Indexed(p)' => Indexed(p)
    BY <1>0, <2>1, GotoIs DEF Selected, Indexed, Listed, Process
  <2>3. UNCHANGED <<index, manifest>>
    BY <1>1 DEF Publish
  <2> QED
    BY <2>1, <2>2, <2>3, RowChanges
<1>2. ASSUME NEW w \in Writer, Edit(w) PROVE SiteInv'
  <2>1. PICK q \in live :
          /\ pc[w] = "idle" /\ pc' = [pc EXCEPT ![w] = "fetch"]
          /\ got' = [p \in Process |-> Edited(got[p], q)]
          /\ UNCHANGED <<live, young, index, manifest>>
    BY <1>2 DEF Edit
  <2>2. \A p \in Process : got'[p] = Edited(got[p], q) /\ got[p] \in Rows
    BY <1>0, <2>1 DEF LocalTyped
  <2>3. q \in Post
    BY DEF TypeOK
  <2>4. \A p \in Process : Listed(p)' = Listed(p)
    BY <2>2, <2>3, EditedIs DEF Listed
  <2>5. \A p \in Process : /\ Selected(p)' => Selected(p)
                           /\ Indexed(p)' => Indexed(p)
    BY <1>0, <2>1 DEF Selected, Indexed, Process, LocalTyped
  <2> QED
    BY <2>1, <2>4, <2>5, NothingSelected
<1>3. ASSUME NEW w \in Writer, Unpublish(w) PROVE SiteInv'
  <2>1. PICK q \in live : pc[w] = "idle" /\ Goto(w, "takedown", {q}, Nothing) /\ Tells(live', young')
    BY <1>3 DEF Unpublish, Allowed, Calm
  <2>2. \A p \in Process : /\ Selected(p)' => Selected(p) /\ Listed(p)' = Listed(p)
                           /\ Indexed(p)' => Indexed(p)
    BY <1>0, <2>1, GotoIs DEF Selected, Indexed, Listed, Process
  <2>3. UNCHANGED <<index, manifest>>
    BY <1>3 DEF Unpublish
  <2> QED
    BY <2>1, <2>2, <2>3, RowChanges
<1>4. ASSUME NEW p \in Process, Fetch(p) PROVE SiteInv'
  <2>1. pc[p] = "fetch" /\ \E l \in {"page", "retire"} : \E ps, rows : Goto(p, l, ps, rows)
    BY <1>4 DEF Fetch
  <2>2. p \in Writer
    BY <1>0, <2>1 DEF LocalTyped, Labels, SweepLabels, ReconcileLabels, Process
  <2>3. \A q \in Process : /\ Selected(q)' => Selected(q) /\ Listed(q)' = Listed(q)
                           /\ Indexed(q)' => Indexed(q)
    BY <1>0, <2>1, <2>2, GotoIs DEF Selected, Indexed, Listed
  <2>4. UNCHANGED <<live, young, index, manifest>>
    BY <1>4 DEF Fetch
  <2> QED
    BY <2>3, <2>4, NothingSelected
<1>5. ASSUME NEW p \in Process, UploadPage(p) \/ Retire(p) PROVE SiteInv'
  <2>1. PICK q \in Post : pc[p] \in {"page", "retire", "takedown"} /\ DoneWith(p, q)
    BY <1>0, <1>5 DEF UploadPage, Retire, LocalTyped
  <2>2. UNCHANGED <<live, young, index, manifest>>
    BY <1>5 DEF UploadPage, Retire
  <2>3. \A r \in Process \ {p} : /\ Selected(r)' => Selected(r) /\ Listed(r)' = Listed(r)
                                 /\ Indexed(r)' => Indexed(r)
    BY <1>0, <2>1, DoneWithIs DEF Selected, Indexed, Listed
  <2>4. CASE p = Reconcile
    <3>1. pc[p] \in {"page", "retire"}
      BY <1>0, <2>1, <2>4 DEF LocalTyped, Labels, ReconcileLabels
    <3>2. Selected(p) /\ Indexed(p) /\ got'[p] = got[p]
      BY <1>0, <2>1, <2>4, <3>1, DoneWithIs DEF Selected, Indexed
    <3> QED
      BY <2>2, <2>3, <3>2, NothingSelected DEF Listed
  <2>5. CASE p # Reconcile
    <3>1. AfterPages(p) \in {"idle", "select"}
      BY <1>0, <2>1, <2>5, AfterPagesIs
    <3>2. pc'[p] \notin {"index", "manifest"}
      BY <1>0, <2>1, <3>1, DoneWithIs
    <3>3. ~Selected(p)' /\ ~Indexed(p)'
      BY <2>5, <3>2 DEF Selected, Indexed
    <3> QED
      BY <2>2, <2>3, <3>3, NothingSelected
  <2> QED
    BY <2>4, <2>5
<1>6. ASSUME NEW p \in Process, Select(p) PROVE SiteInv'
  <2>1. /\ pc[p] \in {"select", "all"} /\ ~Disagreed(p) /\ Goto(p, "index", {}, Row)
        /\ UNCHANGED <<live, young, index, manifest>>
    BY <1>6 DEF Select, Allowed, Calm
  <2>2. pc'[p] = "index" /\ got'[p] = Row
    BY <1>0, <2>1, GotoIs
  <2>3. ~Indexed(p)' /\ Listed(p)' = live
    BY <2>2 DEF Indexed, Listed, Row, TypeOK
  <2>4. \A r \in Process \ {p} : /\ Selected(r)' <=> Selected(r)
                                 /\ Indexed(r)' <=> Indexed(r)
                                 /\ Listed(r)' = Listed(r)
    BY <1>0, <2>1, GotoIs DEF Selected, Indexed, Listed
  <2>5. \A r \in Process \ {p} : Selected(r)' => Listed(r)' = live
    BY <2>1, <2>4 DEF Disagreed
  <2>6. ExportsAgree'
    BY <2>3, <2>5 DEF ExportsAgree
  <2>7. IndexIsTheirs'
    BY <2>1, <2>3, <2>4 DEF SiteInv, IndexIsTheirs
  <2>8. index = live \/ manifest # Cardinality(live) \/ young \cap live # {}
    BY TellsIs DEF SiteInv
  <2>9. Tells(live, young)'
    BY <2>1, <2>3, <2>5, <2>8, TellsAfter
  <2> QED
    BY <2>6, <2>7, <2>9 DEF SiteInv
<1>7. ASSUME NEW p \in Process, UploadIndex(p) PROVE SiteInv'
  <2>1. pc[p] = "index" /\ index' = Listed(p) /\ UNCHANGED <<live, young, manifest>>
    BY <1>7 DEF UploadIndex, Allowed, Calm
  <2>2. p \in Writer \cup {Reconcile}
    BY <1>0, <2>1 DEF LocalTyped, Labels, SweepLabels, Process
  <2>3. Selected(p)
    BY <2>1, <2>2 DEF Selected
  <2>4. \E l \in {"manifest", "page", "list"} : \E ps : Goto(p, l, ps, got[p])
    BY <1>7 DEF UploadIndex
  <2>5. \A r \in Process : Listed(r)' = Listed(r) /\ (r # p => pc'[r] = pc[r])
    BY <1>0, <2>4, GotoIs DEF Listed
  <2>6. \A r \in Process : Selected(r)' => Selected(r)
    BY <2>3, <2>5 DEF Selected
  <2>7. \A r \in Process : Selected(r) => Listed(r) = Listed(p)
    BY <2>3 DEF SiteInv, ExportsAgree
  <2>8. ExportsAgree'
    BY <2>5, <2>6, <2>7 DEF ExportsAgree
  <2>9. \A r \in Process : Indexed(r)' => Selected(r)'
    BY DEF Indexed, Selected
  <2>10. IndexIsTheirs'
    BY <2>1, <2>5, <2>6, <2>7, <2>9 DEF IndexIsTheirs
  <2>11. Tells(live, young)
    BY DEF SiteInv
  <2>12. Tells(live, young)'
    BY <2>1, <2>3, <2>5, <2>6, <2>11, TellsIs, TellsAfter
  <2> QED
    BY <2>8, <2>10, <2>12 DEF SiteInv
<1>8. ASSUME NEW p \in Process, UploadManifest(p) PROVE SiteInv'
  <2>1. pc[p] = "manifest" /\ End(p) /\ UNCHANGED <<live, index>>
    BY <1>8 DEF UploadManifest
  <2>2. p \in Writer \cup {Reconcile}
    BY <1>0, <2>1 DEF LocalTyped, Labels, SweepLabels, Process
  <2>3. Selected(p) /\ Indexed(p)
    BY <2>1, <2>2 DEF Selected, Indexed
  <2>4. index = Listed(p) /\ \A r \in Process : Selected(r) => Listed(r) = Listed(p)
    BY <2>3 DEF SiteInv, ExportsAgree, IndexIsTheirs
  <2>5. ~Selected(p)' /\ ~Indexed(p)'
    BY <1>0, <2>1, GotoIs DEF End, Selected, Indexed
  <2>6. \A r \in Process : /\ Selected(r)' => Selected(r) /\ Listed(r)' = Listed(r)
                           /\ Indexed(r)' => Indexed(r)
    BY <1>0, <2>1, <2>5, GotoIs DEF End, Selected, Indexed, Listed
  <2>7. CASE UNCHANGED <<manifest, young>>
    BY <2>1, <2>6, <2>7, NothingSelected
  <2>8. CASE manifest' = Cardinality(Listed(p)) /\ young' = {}
    <3>1. Listed(p) = live \/ Cardinality(Listed(p)) # Cardinality(live)
      BY <2>3, TellsIs DEF SiteInv
    <3>2. index' = live' \/ manifest' # Cardinality(live')
      BY <2>1, <2>4, <2>8, <3>1
    <3>3. \A r \in Process : Selected(r)' =>
            \/ Listed(r)' = live'
            \/ manifest' # Cardinality(live') /\ Cardinality(Listed(r)') # Cardinality(live')
      BY <2>1, <2>4, <2>6, <2>8, <3>1
    <3>4. Tells(live, young)'
      BY <3>2, <3>3, TellsAfter
    <3>5. ExportsAgree'
      BY <2>6 DEF SiteInv, ExportsAgree
    <3>6. \A r \in Process : Indexed(r)' => Selected(r)'
      BY DEF Indexed, Selected
    <3>7. IndexIsTheirs'
      BY <2>1, <2>6, <3>6 DEF SiteInv, IndexIsTheirs
    <3> QED
      BY <3>4, <3>5, <3>7 DEF SiteInv
  <2> QED
    BY <1>8, <2>7, <2>8 DEF UploadManifest
<1>9. ASSUME NEW p \in Process, List(p) PROVE SiteInv'
  <2>1. pc[p] = "list" /\ UNCHANGED <<live, young, index, manifest>>
    BY <1>9 DEF List
  <2>2. GoOn(p) \/ \E ps : Goto(p, "retire", ps, got[p])
    BY <1>9 DEF List
  <2>3. p \in {Sweep, Reconcile}
    BY <1>0, <2>1 DEF LocalTyped, Labels, WriterLabels, Process
  <2>4. p = Reconcile => got'[p] = got[p]
    BY <1>0, <2>1, <2>2, GoOnIs, GotoIs
  <2>5. \A r \in Process \ {p} : pc'[r] = pc[r] /\ got'[r] = got[r]
    BY <1>0, <2>1, <2>2, GoOnIs, GotoIs
  <2>6. \A r \in Process : /\ Selected(r)' => Selected(r) /\ Listed(r)' = Listed(r)
                           /\ Indexed(r)' => Indexed(r)
    BY <2>1, <2>3, <2>4, <2>5 DEF Selected, Indexed, Listed
  <2> QED
    BY <2>1, <2>6, NothingSelected
<1>10. ASSUME NEW p \in Process, Die(p) PROVE SiteInv'
  <2>1. End(p) /\ UNCHANGED <<live, young, index, manifest>>
    BY <1>10 DEF Die
  <2>2. \A r \in Process : /\ Selected(r)' => Selected(r) /\ Listed(r)' = Listed(r)
                           /\ Indexed(r)' => Indexed(r)
    BY <1>0, <2>1, GotoIs DEF End, Selected, Indexed, Listed
  <2> QED
    BY <2>1, <2>2, NothingSelected
<1>11. ASSUME Withdraw PROVE SiteInv'
  <2>1. Tells(live', young') /\ UNCHANGED <<index, manifest, pc, got>>
    BY <1>11 DEF Withdraw, Allowed, Calm
  <2>2. \A r \in Process : /\ Selected(r)' => Selected(r) /\ Listed(r)' = Listed(r)
                           /\ Indexed(r)' => Indexed(r)
    BY <2>1 DEF Selected, Indexed, Listed
  <2> QED
    BY <2>1, <2>2, RowChanges
<1>12. ASSUME SweepRead \/ ReconcileRead PROVE SiteInv'
  <2>1. UNCHANGED <<live, young, index, manifest>>
    BY <1>12 DEF SweepRead, ReconcileRead
  <2>2. \/ Goto(Sweep, "list", {}, Row)
        \/ Goto(Reconcile, "all", {}, Nothing)
    BY <1>12 DEF SweepRead, ReconcileRead
  <2>3. \A r \in Process : /\ Selected(r)' => Selected(r) /\ Listed(r)' = Listed(r)
                           /\ Indexed(r)' => Indexed(r)
    BY <1>0, <2>2, GotoIs DEF Selected, Indexed, Listed, Process
  <2> QED
    BY <2>1, <2>3, NothingSelected
<1>13. ASSUME UNCHANGED vars PROVE SiteInv'
  <2>1. UNCHANGED <<live, young, index, manifest, pc, got>>
    BY <1>13 DEF vars
  <2>2. \A r \in Process : /\ Selected(r)' => Selected(r) /\ Listed(r)' = Listed(r)
                           /\ Indexed(r)' => Indexed(r)
    BY <2>1 DEF Selected, Indexed, Listed
  <2> QED
    BY <2>1, <2>2, NothingSelected
<1> QED
  BY <1>1, <1>2, <1>3, <1>4, <1>5, <1>6, <1>7, <1>8, <1>9, <1>10, <1>11, <1>12, <1>13
  DEF Next, Export

\* An index that lists other posts than are published always shows in the count
\* or the age of the manifest, which the reconciliation looks at.
THEOREM IndexDriftAlwaysShows == ASSUME Calm PROVE Spec => []IndexDriftIsSeen
<1>1. TypeOK /\ SiteInv /\ [Next]_vars => (TypeOK /\ SiteInv)'
  BY StepTyped, StepSite
<1>2. SiteInv => IndexDriftIsSeen
  BY TellsIs DEF SiteInv, IndexDriftIsSeen, Drift
<1> QED
  BY <1>1, <1>2, InitSite, PTL DEF Spec

------------------------------------------------------------------------------
(* A right site stays right. *)

\* The site shows the rows, and whoever is about to write or delete goes by them.
Steady ==
  /\ Shown
  /\ \A p \in Process :
       /\ Selected(p) \/ pc[p] = "list" => got[p] = Row
       /\ pc[p] = "page" => \A q \in todo[p] : got[p][q] = Row[q]
       /\ pc[p] \in {"retire", "takedown"} => todo[p] \cap live = {}

\* As long as no post changes, so does a site that shows them: no export, repair or
\* sweep, ended early or not, makes a right site wrong.
ShownStays ==
  [][/\ Shown /\ AllIdle => Steady
     /\ Steady /\ UNCHANGED changes => Steady']_vars

LEMMA StepFetches == TypeOK /\ FetchesOne /\ [Next]_vars => FetchesOne'
<1> SUFFICES ASSUME TypeOK, FetchesOne, [Next]_vars, NEW v \in Writer, pc'[v] = "fetch"
             PROVE  \E q \in Post : todo'[v] = {q}
  BY DEF FetchesOne
<1>0. LocalTyped /\ live \subseteq Post
  BY TypedParts
<1> USE Different DEF FetchesOne
<1>1. CASE UNCHANGED <<pc, todo>>
  BY <1>1
<1>2. ASSUME NEW p \in Process, NEW l, NEW ps, NEW rows, Goto(p, l, ps, rows),
             l # "fetch" \/ \E q \in Post : ps = {q}
      PROVE  \E q \in Post : todo'[v] = {q}
  BY <1>0, <1>2, GotoIs DEF Process
<1>3. ASSUME NEW p \in Process, NEW q \in Post,
             pc[p] \in {"page", "retire", "takedown"}, DoneWith(p, q)
      PROVE  \E r \in Post : todo'[v] = {r}
  BY <1>0, <1>3, DoneWithIs, AfterPagesIs DEF Process
<1>4. ASSUME NEW p \in Process, pc[p] = "list", GoOn(p)
      PROVE  \E r \in Post : todo'[v] = {r}
  BY <1>0, <1>4, GoOnIs, AfterPagesIs DEF Process
<1>5. ASSUME NEW w \in Writer, Publish(w) \/ Edit(w) \/ Unpublish(w)
      PROVE  \E q \in Post : todo'[v] = {q}
  <2>1. ASSUME Edit(w) PROVE \E q \in Post : todo'[v] = {q}
    BY <1>0, <2>1 DEF Edit, LocalTyped, Process
  <2>2. ASSUME Publish(w) PROVE \E q \in Post : todo'[v] = {q}
    <3>1. PICK q \in Post : Goto(w, "fetch", {q}, Nothing)
      BY <2>2 DEF Publish
    <3> QED
      BY <1>2, <3>1 DEF Process
  <2>3. ASSUME Unpublish(w) PROVE \E q \in Post : todo'[v] = {q}
    BY <1>2, <2>3 DEF Unpublish, Process
  <2> QED
    BY <1>5, <2>1, <2>2, <2>3
<1>6. ASSUME NEW p \in Process, Export(p) \/ Die(p) PROVE \E q \in Post : todo'[v] = {q}
  <2>1. ASSUME UploadPage(p) \/ Retire(p) PROVE \E q \in Post : todo'[v] = {q}
    BY <1>0, <1>3, <2>1 DEF UploadPage, Retire, LocalTyped
  <2>2. ASSUME Fetch(p) PROVE \E q \in Post : todo'[v] = {q}
    BY <1>2, <2>2 DEF Fetch
  <2>3. ASSUME Select(p) PROVE \E q \in Post : todo'[v] = {q}
    BY <1>2, <2>3 DEF Select
  <2>4. ASSUME UploadIndex(p) PROVE \E q \in Post : todo'[v] = {q}
    BY <1>2, <2>4 DEF UploadIndex
  <2>5. ASSUME UploadManifest(p) \/ Die(p) PROVE \E q \in Post : todo'[v] = {q}
    BY <1>2, <2>5 DEF UploadManifest, Die, End
  <2>6. ASSUME List(p) PROVE \E q \in Post : todo'[v] = {q}
    BY <1>2, <1>4, <2>6 DEF List
  <2> QED
    BY <1>6, <2>1, <2>2, <2>3, <2>4, <2>5, <2>6 DEF Export
<1>7. ASSUME SweepRead \/ ReconcileRead PROVE \E q \in Post : todo'[v] = {q}
  BY <1>2, <1>7 DEF SweepRead, ReconcileRead, Process
<1> QED
  BY <1>1, <1>5, <1>6, <1>7 DEF Next, Withdraw, local, vars

\* A step of one process, after which the site is as it was and the process goes by
\* the rows.
LEMMA SteadyKept ==
  ASSUME LocalTyped, Steady, UNCHANGED <<live, page, index>>, NEW p \in Process,
         \A r \in Process \ {p} : pc'[r] = pc[r] /\ todo'[r] = todo[r] /\ got'[r] = got[r],
         Selected(p)' \/ pc'[p] = "list" => got'[p] = Row,
         pc'[p] = "page" => \A q \in todo'[p] : got'[p][q] = Row[q],
         pc'[p] \in {"retire", "takedown"} => todo'[p] \cap live = {}
  PROVE  Steady'
<1>1. Row' = Row
  BY DEF Row
<1>2. Shown'
  BY <1>1 DEF Steady, Shown
<1>3. \A r \in Process \ {p} : Selected(r)' <=> Selected(r)
  BY DEF Selected
<1> QED
  BY <1>1, <1>2, <1>3 DEF Steady

LEMMA StepSteady ==
  ASSUME TypeOK, FetchesOne, Steady, UNCHANGED changes, [Next]_vars
  PROVE  Steady'
<1>0. /\ LocalTyped /\ live \subseteq Post /\ page \in Rows /\ changes \in Nat
      /\ index = live /\ page = Row
  BY TypedParts, SiteAssumption DEF Steady, Shown
<1>s. {q \in Post : Row[q] # "none"} = live
  BY <1>0 DEF Row
<1> USE Different DEF files, local
<1>1. ASSUME Change PROVE FALSE
  BY <1>0, <1>1 DEF Change
<1>2. ASSUME NEW p \in Process, Fetch(p) PROVE Steady'
  <2>1. p \in Writer
    BY <1>0, <1>2 DEF Fetch, LocalTyped, Labels, SweepLabels, ReconcileLabels, Process
  <2>2. PICK q \in Post : todo[p] = {q}
    BY <1>2, <2>1 DEF Fetch, FetchesOne
  <2>3. Goto(p, IF q \in live THEN "page" ELSE "retire", {q},
             [r \in Post |-> IF r \in {q} THEN Row[r] ELSE "none"])
    BY <1>2, <2>2 DEF Fetch
  <2>4. /\ pc'[p] = (IF q \in live THEN "page" ELSE "retire") /\ todo'[p] = {q}
        /\ got'[p][q] = Row[q]
        /\ \A r \in Process \ {p} : pc'[r] = pc[r] /\ todo'[r] = todo[r] /\ got'[r] = got[r]
    BY <1>0, <2>3, GotoIs
  <2>5. UNCHANGED <<live, page, index>>
    BY <1>2 DEF Fetch
  <2>6. ~Selected(p)' /\ pc'[p] # "list"
    BY <2>1, <2>4 DEF Selected
  <2> QED
    BY <1>0, <2>4, <2>5, <2>6, SteadyKept
<1>3. ASSUME NEW p \in Process, UploadPage(p) \/ Retire(p) PROVE Steady'
  <2>1. PICK q \in todo[p] :
          /\ DoneWith(p, q) /\ pc[p] \in {"page", "retire", "takedown"}
          /\ \/ pc[p] = "page" /\ page' = [page EXCEPT ![q] = got[p][q]]
             \/ pc[p] \in {"retire", "takedown"} /\ page' = [page EXCEPT ![q] = "none"]
             \/ page' = page
          /\ UNCHANGED <<live, index>>
    BY <1>3 DEF UploadPage, Retire
  <2>2. q \in Post
    BY <1>0 DEF LocalTyped
  <2>3. pc[p] = "page" => got[p][q] = page[q]
    BY <1>0, <2>1 DEF Steady
  <2>4. pc[p] \in {"retire", "takedown"} => page[q] = "none"
    BY <1>0, <2>1, <2>2 DEF Steady, Row
  <2>5. page' = page
    BY <1>0, <2>1, <2>3, <2>4 DEF Rows
  <2>6. /\ pc'[p] \in {pc[p], AfterPages(p)} /\ todo'[p] \subseteq todo[p]
        /\ p = Reconcile \/ pc'[p] = pc[p] => got'[p] = got[p]
        /\ \A r \in Process \ {p} : pc'[r] = pc[r] /\ todo'[r] = todo[r] /\ got'[r] = got[r]
    BY <1>0, <2>1, <2>2, DoneWithIs
  <2>7. AfterPages(p) \in {"idle", "select"} \/ p = Reconcile
    BY <1>0, <2>1, AfterPagesIs
  <2>8. AfterPages(p) \in {"idle", "select", "list", "manifest"}
    BY <1>0, <2>1, AfterPagesIs
  <2>9. pc'[p] \in {"page", "retire", "takedown"} => pc'[p] = pc[p]
    BY <2>6, <2>8
  <2>10. p = Reconcile => got[p] = Row
    <3>1. p = Reconcile => pc[p] \in {"page", "retire"}
      BY <1>0, <2>1 DEF LocalTyped, Labels, ReconcileLabels
    <3> QED
      BY <3>1 DEF Steady, Selected
  <2>11. Selected(p)' \/ pc'[p] = "list" => p = Reconcile
    BY <2>1, <2>6, <2>7 DEF Selected
  <2>12. pc'[p] = "page" => \A r \in todo'[p] : got'[p][r] = Row[r]
    BY <2>6, <2>9 DEF Steady
  <2>13. pc'[p] \in {"retire", "takedown"} => todo'[p] \cap live = {}
    BY <2>6, <2>9 DEF Steady
  <2> QED
    BY <1>0, <2>1, <2>5, <2>6, <2>10, <2>11, <2>12, <2>13, SteadyKept
<1>4. ASSUME NEW p \in Process, NEW l \in {"idle", "index", "all"}, NEW rows, Goto(p, l, {}, rows),
             UNCHANGED <<live, page, index>>, l = "index" => rows = Row
      PROVE  Steady'
  <2>1. /\ pc'[p] = l /\ todo'[p] = {} /\ got'[p] = rows
        /\ \A r \in Process \ {p} : pc'[r] = pc[r] /\ todo'[r] = todo[r] /\ got'[r] = got[r]
    BY <1>0, <1>4, GotoIs
  <2>2. Selected(p)' => l = "index"
    BY <2>1 DEF Selected
  <2> QED
    BY <1>0, <1>4, <2>1, <2>2, SteadyKept
<1>5. ASSUME NEW p \in Process, UploadIndex(p) PROVE Steady'
  <2>1. pc[p] = "index" /\ UNCHANGED <<live, page>> /\ (index' = Listed(p) \/ index' = index)
    BY <1>5 DEF UploadIndex
  <2>2. Selected(p)
    BY <1>0, <2>1 DEF LocalTyped, Labels, SweepLabels, Process, Selected
  <2>3. got[p] = Row
    BY <2>2 DEF Steady
  <2>4. index' = index
    BY <1>0, <1>s, <2>1, <2>3 DEF Listed
  <2>5. PICK l, ps : l \in {"manifest", "page", "list"} /\ Goto(p, l, ps, got[p])
    BY <1>5 DEF UploadIndex
  <2>6. /\ pc'[p] = l /\ got'[p] = Row
        /\ \A r \in Process \ {p} : pc'[r] = pc[r] /\ todo'[r] = todo[r] /\ got'[r] = got[r]
    BY <1>0, <2>3, <2>5, GotoIs
  <2> QED
    BY <1>0, <2>1, <2>4, <2>5, <2>6, SteadyKept
<1>6. ASSUME NEW p \in Process, List(p) PROVE Steady'
  <2>1. pc[p] = "list" /\ UNCHANGED <<live, page, index>>
    BY <1>6 DEF List
  <2>2. got[p] = Row
    BY <2>1 DEF Steady
  <2>3. Orphans(p) = {}
    BY <1>0, <2>2 DEF Orphans, Listed
  <2>4. GoOn(p)
    BY <1>6, <2>3 DEF List
  <2>5. AfterPages(p) \in {"idle", "select"} \/ p = Reconcile
    BY <1>0, <2>1, AfterPagesIs
  <2>6. /\ pc'[p] = AfterPages(p) /\ todo'[p] = {} /\ (p = Reconcile => got'[p] = Row)
        /\ \A r \in Process \ {p} : pc'[r] = pc[r] /\ todo'[r] = todo[r] /\ got'[r] = got[r]
    BY <1>0, <2>1, <2>2, <2>4, GoOnIs
  <2>7. Selected(p)' \/ pc'[p] = "list" => got'[p] = Row
    BY <2>5, <2>6 DEF Selected
  <2> QED
    BY <1>0, <2>1, <2>6, <2>7, SteadyKept
<1>7. ASSUME NEW p \in Process, Select(p) \/ UploadManifest(p) \/ Die(p) PROVE Steady'
  BY <1>4, <1>7 DEF Select, UploadManifest, Die, End
<1>8. ASSUME SweepRead PROVE Steady'
  <2>1. Sweep \in Process /\ Goto(Sweep, "list", {}, Row) /\ UNCHANGED <<live, page, index>>
    BY <1>8 DEF SweepRead, Process
  <2>2. /\ pc'[Sweep] = "list" /\ got'[Sweep] = Row
        /\ \A r \in Process \ {Sweep} : pc'[r] = pc[r] /\ todo'[r] = todo[r] /\ got'[r] = got[r]
    BY <1>0, <2>1, GotoIs
  <2> QED
    BY <1>0, <2>1, <2>2, SteadyKept
<1>9. ASSUME ReconcileRead PROVE Steady'
  BY <1>4, <1>9 DEF ReconcileRead, Process
<1>10. ASSUME UNCHANGED vars PROVE Steady'
  <2>1. UNCHANGED <<live, page, index, pc, todo, got>>
    BY <1>10 DEF vars
  <2> QED
    BY <2>1 DEF Steady, Shown, Selected, Row
<1>11. ASSUME Withdraw \/ \E w \in Writer : Publish(w) \/ Edit(w) \/ Unpublish(w) PROVE FALSE
  BY <1>1, <1>11 DEF Withdraw, Publish, Edit, Unpublish
<1> QED
  BY <1>2, <1>3, <1>5, <1>6, <1>7, <1>8, <1>9, <1>10, <1>11 DEF Next, Export

\* Once the site shows the rows and nobody is at work, only a change of a post makes
\* it differ again, whatever fails, dies or overlaps.
THEOREM RepairsDoNoHarm == Spec => ShownStays
<1>1. TypeOK /\ FetchesOne /\ [Next]_vars =>
        [/\ Shown /\ AllIdle => Steady
         /\ Steady /\ UNCHANGED changes => Steady']_vars
  <2>1. Shown /\ AllIdle => Steady
    BY Different DEF Steady, AllIdle, Selected
  <2> QED
    BY <2>1, StepSteady
<1> QED
  BY <1>1, InitSite, StepTyped, StepFetches, PTL DEF Spec, ShownStays
==============================================================================
