-------------------------- MODULE WorkflowVersions --------------------------
(***************************************************************************)
(* The versions of one workflow (packages/db/src/versioned-workflow-       *)
(* repository.ts) under concurrent editors.  Every operation is a          *)
(* transaction at READ COMMITTED whose deciding statement takes a snapshot *)
(* of the rows, waits for the locks of other transactions, and then checks *)
(* again, row by row, what it found: so an operation is two actions here,  *)
(* the snapshot (Begin...) and the rest, which the locks make one step.    *)
(* Definitions are opaque; Publishable are those without error findings.   *)
(***************************************************************************)
EXTENDS Integers, Sequences, FiniteSetsExt

CONSTANTS
  Editors,       \* people, each with one page open and one request at a time
  Definitions,   \* workflow definitions
  Publishable,   \* those validateWorkflowDefinition finds no error in
  Absent,        \* the definition of a version that does not exist
  MaxVersion,    \* bound on the versions
  MaxRevision    \* bound on the revisions of a draft

ASSUME VersionsAssumption ==
  /\ Publishable \subseteq Definitions /\ Absent \notin Definitions
  /\ MaxVersion \in Nat \ {0} /\ MaxRevision \in Nat \ {0}

Versions == 1..MaxVersion

VARIABLES
  rows,      \* workflow_versions, per version
  current,   \* workflows.current_version
  outbox,    \* the workflow.published.v1 events
  page,      \* per editor, the draft record their page was last given
  call       \* per editor, the request under way

vars == <<rows, current, outbox, page, call>>

NoRow == [state |-> "absent", definition |-> Absent, revision |-> 0]
Row == {NoRow} \cup
  [state : {"draft", "published", "superseded"}, definition : Definitions, revision : Nat]
Page == [version : Versions, revision : Nat, definition : Definitions]
Call == [op : {"idle", "checked", "save", "publish", "restore"},
         definition : Definitions \cup {Absent}, source : Versions, seen : SUBSET Versions]

NoCall == [op |-> "idle", definition |-> Absent, source |-> 1, seen |-> {}]
Draft(d) == [state |-> "draft", definition |-> d, revision |-> 1]
Record(v) == [version |-> v, revision |-> rows[v].revision, definition |-> rows[v].definition]

-----------------------------------------------------------------------------
\* import: version 1, and everyone has it on their page.
Init ==
  \E d \in Definitions :
    /\ rows = [v \in Versions |-> IF v = 1 THEN Draft(d) ELSE NoRow]
    /\ current = 1
    /\ outbox = <<>>
    /\ page = [e \in Editors |-> [version |-> 1, revision |-> 1, definition |-> d]]
    /\ call = [e \in Editors |-> NoCall]

Existing == {v \in Versions : rows[v].state # "absent"}
Drafts == {v \in Versions : rows[v].state = "draft"}
Newest(S) == Max(S)

\* Rows that a restore under way keeps FOR SHARE.
HeldByOthers(e, v) == \E f \in Editors \ {e} : call[f].op = "restore" /\ call[f].source = v

Idle(e) == call' = [call EXCEPT ![e] = NoCall]

\* getDraft: the page shows the newest draft.
Load(e) ==
  /\ call[e].op = "idle" /\ Drafts # {}
  /\ page' = [page EXCEPT ![e] = Record(Newest(Drafts))]
  /\ UNCHANGED <<rows, current, outbox, call>>

\* PUT draft, first transaction: the If-Match etag is version, revision and hash.
Check(e, d) ==
  /\ call[e].op = "idle" /\ Drafts # {}
  /\ Record(Newest(Drafts)) = page[e]
  /\ call' = [call EXCEPT ![e] = [@ EXCEPT !.op = "checked", !.definition = d]]
  /\ UNCHANGED <<rows, current, outbox, page>>

\* saveDraft's update finds the drafts with the expected revision, of any version.
Matching(e) == {v \in Drafts : rows[v].revision = page[e].revision}

BeginSave(e) ==
  /\ call[e].op = "checked" /\ page[e].revision < MaxRevision
  /\ call' = [call EXCEPT ![e] = [@ EXCEPT !.op = "save", !.seen = Matching(e)]]
  /\ UNCHANGED <<rows, current, outbox, page>>

\* POST draft/operations: the revision comes with the request, without an etag.
BeginBatch(e, d) ==
  /\ call[e].op = "idle" /\ page[e].revision < MaxRevision
  /\ call' = [call EXCEPT ![e] = [@ EXCEPT !.op = "save", !.definition = d, !.seen = Matching(e)]]
  /\ UNCHANGED <<rows, current, outbox, page>>

\* The rows of the snapshot that still match once their locks are granted.
UpdatedAsSeen(e) == call[e].seen \cap Drafts   \* variant: the revision is not checked again
Updated(e) == call[e].seen \cap Matching(e)

Save(e) ==
  /\ call[e].op = "save" /\ Updated(e) # {}
  /\ \A v \in Updated(e) : ~HeldByOthers(e, v)
  /\ rows' = [v \in Versions |->
       IF v \in Updated(e)
       THEN [state |-> "draft", definition |-> call[e].definition, revision |-> rows[v].revision + 1]
       ELSE rows[v]]
  /\ \E v \in Updated(e) :
       page' = [page EXCEPT ![e] = [version |-> v, revision |-> rows[v].revision + 1,
                                    definition |-> call[e].definition]]
  /\ Idle(e) /\ UNCHANGED <<current, outbox>>

-----------------------------------------------------------------------------
BeginPublish(e) ==
  /\ call[e].op = "idle"
  /\ call' = [call EXCEPT ![e] = [@ EXCEPT !.op = "publish", !.seen = Drafts]]
  /\ UNCHANGED <<rows, current, outbox, page>>

\* ORDER BY version DESC LIMIT 1 FOR UPDATE: the newest of the rows that are still drafts.
Candidates(e) == call[e].seen \cap Drafts

\* PRIMARY KEY (workspace_id, workflow_id, version).
KeyFree(v) == v \in Versions /\ rows[v].state = "absent"

Publish(e) ==
  /\ call[e].op = "publish" /\ Candidates(e) # {}
  /\ LET v == Newest(Candidates(e)) IN
     /\ ~HeldByOthers(e, v)
     /\ rows[v].revision = page[e].revision
     /\ rows[v].definition \in Publishable
     /\ KeyFree(v + 1)
     /\ rows' = [rows EXCEPT ![v] = [@ EXCEPT !.state = "published"],
                             ![v + 1] = Draft(rows[v].definition)]
     /\ outbox' = Append(outbox, [version |-> v, definition |-> rows[v].definition])
     /\ current' = v + 1
  /\ Idle(e) /\ UNCHANGED page

-----------------------------------------------------------------------------
\* restore: the source row is locked FOR SHARE before the drafts are looked for.
BeginRestore(e, s) ==
  /\ call[e].op = "idle" /\ s \in Existing
  /\ call' = [call EXCEPT ![e] = [@ EXCEPT !.op = "restore", !.source = s, !.seen = Drafts]]
  /\ UNCHANGED <<rows, current, outbox, page>>

\* The drafts of the snapshot that still are drafts.
SupersededAsSeen(e) == call[e].seen   \* variant: what the snapshot held, whatever became of it
Superseded(e) == call[e].seen \cap Drafts

RestoreThenSupersede(e) ==   \* variant: the drafts are superseded after the new one is inserted
  /\ call[e].op = "restore"
  /\ LET next == Newest(Existing) + 1 IN
     /\ KeyFree(next)
     /\ rows' = [v \in Versions |->
          IF v = next THEN [Draft(rows[call[e].source].definition) EXCEPT !.state = "superseded"]
          ELSE IF v \in Drafts THEN [rows[v] EXCEPT !.state = "superseded"] ELSE rows[v]]
     /\ page' = [page EXCEPT ![e] = [version |-> next, revision |-> 1,
                                     definition |-> rows[call[e].source].definition]]
     /\ current' = next
  /\ Idle(e) /\ UNCHANGED outbox

Restore(e) ==
  /\ call[e].op = "restore"
  /\ \A v \in Superseded(e) : ~HeldByOthers(e, v)
  /\ LET next == Newest(Existing) + 1 IN
     /\ KeyFree(next)
     /\ rows' = [v \in Versions |->
          IF v = next THEN Draft(rows[call[e].source].definition)
          ELSE IF v \in Superseded(e) THEN [rows[v] EXCEPT !.state = "superseded"] ELSE rows[v]]
     /\ page' = [page EXCEPT ![e] = [version |-> next, revision |-> 1,
                                     definition |-> rows[call[e].source].definition]]
     /\ current' = next
  /\ Idle(e) /\ UNCHANGED outbox

\* Every other end of a request, which leaves no trace: a conflict, no draft, error
\* findings, a taken key, a deadlock, a lost connection.
Fail(e) ==
  /\ call[e].op # "idle"
  /\ Idle(e) /\ UNCHANGED <<rows, current, outbox, page>>

Next ==
  \E e \in Editors :
    \/ Load(e) \/ BeginSave(e) \/ Save(e) \/ BeginPublish(e) \/ Publish(e)
    \/ Restore(e) \/ Fail(e)
    \/ \E d \in Definitions : Check(e, d) \/ BeginBatch(e, d)
    \/ \E s \in Versions : BeginRestore(e, s)

Spec == Init /\ [][Next]_vars

-----------------------------------------------------------------------------
TypeOK ==
  /\ rows \in [Versions -> Row]
  /\ current \in Versions
  /\ outbox \in Seq([version : Versions, definition : Definitions])
  /\ page \in [Editors -> Page]
  /\ call \in [Editors -> Call]

\* A workflow always has a draft to edit, whatever publications and restores cross
\* (publish and restore each end one draft and begin another).
DraftSurvives == Drafts # {}

\* The optimistic lock of a draft: a definition is replaced only by an editor whose page
\* was at the draft's revision as it now is.  Among pages of this version, that is a page
\* which shows this very definition; a page of another version may be at the same revision
\* and show another (saveDraft; NeverOverwritesNewer).
Replaced(v) == rows[v].state = "draft" /\ rows'[v].definition # rows[v].definition
EditsCompose ==
  [][\A v \in Versions : Replaced(v) =>
       \E e \in Editors : /\ call[e].op = "save" /\ call'[e].op = "idle"
                          /\ page[e].revision = rows[v].revision
                          /\ page[e].version = v => page[e] = Record(v)]_vars

\* docs/operations/knotline/versioned-workflows.md:11: a stale writer never overwrites a
\* newer definition: whoever replaces a definition had it on their page.
NeverOverwritesNewer ==
  [][\A v \in Versions : Replaced(v) =>
       \E e \in Editors : /\ call[e].op = "save" /\ call'[e].op = "idle"
                          /\ page[e].definition = rows[v].definition]_vars

\* Published versions implement the abstract releases: each once, valid, announced,
\* immutable and in order.
Published == [v \in Versions |->
  IF rows[v].state = "published" THEN rows[v].definition ELSE Absent]
R == INSTANCE Releases WITH
  Unreleased <- Absent, released <- Published, announced <- outbox
ImplementsReleases == R!Spec

=============================================================================
