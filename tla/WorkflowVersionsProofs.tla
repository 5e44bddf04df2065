----------------------- MODULE WorkflowVersionsProofs -----------------------
(***************************************************************************)
(* What holds of a workflow's versions for any number of editors, versions *)
(* and revisions, and every set of definitions.                            *)
(***************************************************************************)
EXTENDS WorkflowVersions, WellFoundedInduction, TLAPS

-----------------------------------------------------------------------------
(* The newest of some versions. *)

\* Some versions, if any, have a newest: the complements to MaxVersion have a least.
LEMMA NewestExists ==
  ASSUME NEW S \in SUBSET Versions, S # {}
  PROVE  \E x \in S : \A y \in S : x >= y
<1> DEFINE Less == OpToRel(<, Nat)
           T == {n \in Nat : MaxVersion - n \in S}
<1>1. IsWellFoundedOn(Less, Nat)
  BY NatLessThanWellFounded, Zenon
<1>2. PICK v \in S : TRUE
  OBVIOUS
<1>3. v \in Int /\ v >= 1 /\ v <= MaxVersion
  BY <1>2, VersionsAssumption DEF Versions
<1>4. MaxVersion - v \in T
  BY <1>2, <1>3, VersionsAssumption
<1>5. T \subseteq Nat /\ T # {}
  BY <1>4
<1> HIDE DEF Less
<1>6. PICK x \in T : \A y \in T : <<y, x>> \notin Less
  <2> HIDE DEF T
  <2> QED BY <1>1, <1>5, WFMin, ZenonT(30)
<1>7. \A m, n \in Nat : m < n => <<m, n>> \in Less
  BY DEF Less, OpToRel
<1>8. \A y \in T : ~ y < x
  BY <1>6, <1>7, <1>5
<1>9. \A y \in S : MaxVersion - y \in T /\ y \in Int
  BY VersionsAssumption DEF Versions
<1>10. \A y \in S : MaxVersion - x >= y
  <2> TAKE y \in S
  <2>1. ~ (MaxVersion - y < x) /\ x \in Nat /\ y \in Int
    BY <1>6, <1>8, <1>9, <1>5
  <2> HIDE DEF T
  <2> QED BY <2>1, VersionsAssumption
<1> QED BY <1>10, <1>6

LEMMA NewestIsOne ==
  ASSUME NEW S \in SUBSET Versions, S # {}
  PROVE  /\ Newest(S) \in S
         /\ \A y \in S : y <= Newest(S)
  BY NewestExists, VersionsAssumption DEF Newest, Max, Versions

-----------------------------------------------------------------------------
(* Types, and what requests and pages may refer to. *)

\* A request under way carries a definition, names a version that exists, and has seen
\* only such versions.
RequestsOK ==
  \A e \in Editors :
    /\ call[e].op \in {"checked", "save"} => call[e].definition \in Definitions
    /\ call[e].op = "restore" => call[e].source \in Existing
    /\ call[e].seen \subseteq Existing

\* The versions are numbered without a gap, and one of them is a draft.
Numbered ==
  /\ \A v, w \in Versions : w < v /\ v \in Existing => w \in Existing
  /\ DraftSurvives

\* A page shows an earlier revision of its version, or the one there is.
PagesOK ==
  \A e \in Editors :
    LET row == rows[page[e].version] IN
    /\ row.state # "absent" /\ page[e].revision <= row.revision
    /\ page[e].revision = row.revision => page[e].definition = row.definition

VersionsInv == TypeOK /\ RequestsOK /\ Numbered /\ PagesOK

LEMMA InitialVersions == Init => VersionsInv
<1> SUFFICES ASSUME Init PROVE VersionsInv
  OBVIOUS
<1> USE VersionsAssumption
<1>1. PICK d \in Definitions :
        /\ rows = [v \in Versions |-> IF v = 1 THEN Draft(d) ELSE NoRow]
        /\ page = [e \in Editors |-> [version |-> 1, revision |-> 1, definition |-> d]]
        /\ outbox = <<>> /\ current = 1 /\ call = [e \in Editors |-> NoCall]
  BY DEF Init
<1>2. 1 \in Versions /\ \A v \in Versions : v >= 1
  BY DEF Versions
<1>3. TypeOK
  BY <1>1, <1>2 DEF TypeOK, Row, NoRow, Page, Call, NoCall, Draft
<1>4. RequestsOK /\ Existing = {1} /\ Drafts = {1}
  BY <1>1, <1>2 DEF RequestsOK, NoCall, Existing, Drafts, Draft, NoRow
<1>5. Numbered
  BY <1>2, <1>4 DEF Numbered, DraftSurvives, Versions
<1>6. PagesOK
  BY <1>1, <1>2 DEF PagesOK, Draft
<1> QED BY <1>3, <1>4, <1>5, <1>6 DEF VersionsInv

\* A step that only begins or ends a request.
LEMMA RequestStep ==
  ASSUME VersionsInv, NEW e \in Editors, NEW d \in Definitions, NEW s \in Versions,
         Check(e, d) \/ BeginSave(e) \/ BeginBatch(e, d) \/ BeginPublish(e) \/ BeginRestore(e, s)
           \/ Fail(e)
  PROVE  VersionsInv'
<1>1. rows' = rows /\ current' = current /\ outbox' = outbox /\ page' = page
  BY DEF Check, BeginSave, BeginBatch, BeginPublish, BeginRestore, Fail
<1>2. Existing' = Existing /\ Drafts' = Drafts /\ Drafts \subseteq Existing
  BY <1>1 DEF Existing, Drafts
<1>3. Numbered' /\ PagesOK'
  BY <1>1, <1>2 DEF VersionsInv, Numbered, PagesOK, DraftSurvives
<1>4. PICK c \in Call : /\ call' = [call EXCEPT ![e] = c]
                        /\ c.op \in {"checked", "save"} => c.definition \in Definitions
                        /\ c.op = "restore" => c.source \in Existing
                        /\ c.seen \subseteq Existing
  <2>0. call[e] \in Call /\ Matching(e) \subseteq Drafts /\ Drafts \subseteq Versions
    BY DEF VersionsInv, TypeOK, Matching, Drafts
  <2>1. CASE Check(e, d)
    <3>1. [call[e] EXCEPT !.op = "checked", !.definition = d] \in Call
      BY <2>0 DEF Call
    <3> QED BY <2>0, <2>1, <3>1 DEF Check, VersionsInv, RequestsOK, Call
  <2>2. CASE BeginSave(e)
    <3>1. [call[e] EXCEPT !.op = "save", !.seen = Matching(e)] \in Call
      BY <2>0 DEF Call
    <3> QED BY <1>2, <2>0, <2>2, <3>1 DEF BeginSave, VersionsInv, RequestsOK, Call
  <2>3. CASE BeginBatch(e, d)
    <3>1. [call[e] EXCEPT !.op = "save", !.definition = d, !.seen = Matching(e)] \in Call
      BY <2>0 DEF Call
    <3> QED BY <1>2, <2>0, <2>3, <3>1 DEF BeginBatch, Call
  <2>4. CASE BeginPublish(e)
    <3>1. [call[e] EXCEPT !.op = "publish", !.seen = Drafts] \in Call
      BY <2>0 DEF Call
    <3> QED BY <1>2, <2>0, <2>4, <3>1 DEF BeginPublish, Call
  <2>5. CASE BeginRestore(e, s)
    <3>1. [call[e] EXCEPT !.op = "restore", !.source = s, !.seen = Drafts] \in Call
      BY <2>0 DEF Call
    <3> QED BY <1>2, <2>0, <2>5, <3>1 DEF BeginRestore, Call
  <2>6. CASE Fail(e)
    <3>1. NoCall \in Call
      BY VersionsAssumption DEF Call, NoCall, Versions
    <3> QED BY <2>6, <3>1 DEF Fail, Idle, NoCall
  <2> QED BY <2>1, <2>2, <2>3, <2>4, <2>5, <2>6
<1>5. TypeOK'
  BY <1>1, <1>4 DEF VersionsInv, TypeOK
<1>6. RequestsOK'
  BY <1>2, <1>4 DEF VersionsInv, TypeOK, RequestsOK
<1> QED BY <1>3, <1>5, <1>6 DEF VersionsInv

\* The page is given a draft.
LEMMA LoadStep ==
  ASSUME VersionsInv, NEW e \in Editors, Load(e)
  PROVE  VersionsInv'
<1>1. Newest(Drafts) \in Drafts
  BY NewestIsOne DEF Load, Drafts
<1>2. rows' = rows /\ call' = call /\ current' = current /\ outbox' = outbox
  BY DEF Load
<1>3. Record(Newest(Drafts)) \in Page
  BY <1>1 DEF VersionsInv, TypeOK, Record, Page, Row, NoRow, Drafts
<1>4. TypeOK'
  BY <1>2, <1>3 DEF VersionsInv, TypeOK, Load
<1>5. PagesOK'
  BY <1>1, <1>2, <1>3 DEF VersionsInv, TypeOK, PagesOK, Load, Record, Drafts, Row, NoRow
<1>6. RequestsOK' /\ Numbered'
  BY <1>2 DEF VersionsInv, RequestsOK, Numbered, DraftSurvives, Existing, Drafts
<1> QED BY <1>4, <1>5, <1>6 DEF VersionsInv

\* A draft, or more than one, gets a definition; nothing else about the rows changes.
LEMMA SaveStep ==
  ASSUME VersionsInv, NEW e \in Editors, Save(e)
  PROVE  VersionsInv'
<1> DEFINE d == call[e].definition
<1>1. Updated(e) \subseteq Drafts /\ Drafts \subseteq Versions /\ d \in Definitions
  BY DEF VersionsInv, RequestsOK, Updated, Matching, Drafts, Save
<1>2. rows' = [v \in Versions |-> IF v \in Updated(e)
                 THEN [state |-> "draft", definition |-> d, revision |-> rows[v].revision + 1]
                 ELSE rows[v]]
  BY DEF Save
<1>3. ASSUME NEW v \in Updated(e)
      PROVE  /\ v \in Versions /\ rows[v].state = "draft"
             /\ rows[v].revision \in Nat /\ rows[v].revision + 1 \in Nat
             /\ rows'[v] = [state |-> "draft", definition |-> d, revision |-> rows[v].revision + 1]
  <2>1. v \in Versions /\ rows[v].state = "draft"
    BY <1>1 DEF Drafts
  <2>2. rows[v].revision \in Nat
    BY <2>1 DEF VersionsInv, TypeOK, Row, NoRow
  <2> QED BY <1>2, <2>1, <2>2
<1> HIDE DEF d
<1>4. rows' \in [Versions -> Row] /\ \A v \in Versions : rows'[v].state = rows[v].state
  <2>1. ASSUME NEW v \in Versions PROVE rows'[v] \in Row /\ rows'[v].state = rows[v].state
    <3>1. CASE v \in Updated(e)
      <4>1. rows[v].revision + 1 \in Nat /\ rows[v].state = "draft"
        BY <1>3, <3>1
      <4>2. rows'[v] = [state |-> "draft", definition |-> d, revision |-> rows[v].revision + 1]
        BY <1>3, <3>1
      <4> QED BY <1>1, <4>1, <4>2 DEF Row
    <3>2. CASE v \notin Updated(e)
      BY <1>2, <3>2 DEF VersionsInv, TypeOK
    <3> QED BY <3>1, <3>2
  <2> QED BY <1>2, <2>1
<1>5. Existing' = Existing /\ Drafts' = Drafts
  BY <1>4 DEF Existing, Drafts
<1>6. PICK v \in Updated(e) :
        page' = [page EXCEPT ![e] = [version |-> v, revision |-> rows[v].revision + 1,
                                     definition |-> d]]
  BY DEF Save, d
<1>7. [version |-> v, revision |-> rows[v].revision + 1, definition |-> d] \in Page
  <2>1. rows[v].revision + 1 \in Nat /\ v \in Versions
    BY <1>1, <1>3, <1>6
  <2> QED BY <1>1, <2>1 DEF Page
<1>8. TypeOK' /\ call' = [call EXCEPT ![e] = NoCall]
  <2>1. NoCall \in Call
    BY VersionsAssumption DEF Call, NoCall, Versions
  <2> QED BY <1>4, <1>6, <1>7, <2>1 DEF VersionsInv, TypeOK, Save, Idle
<1>9. RequestsOK' /\ Numbered'
  BY <1>5, <1>8 DEF VersionsInv, TypeOK, RequestsOK, Numbered, DraftSurvives, NoCall
<1>10. PagesOK'
  <2> SUFFICES ASSUME NEW f \in Editors
               PROVE  LET row == rows'[page'[f].version] IN
                      /\ row.state # "absent" /\ page'[f].revision <= row.revision
                      /\ page'[f].revision = row.revision => page'[f].definition = row.definition
    BY DEF PagesOK
  <2>1. page \in [Editors -> Page] /\ rows \in [Versions -> Row]
    BY DEF VersionsInv, TypeOK
  <2>2. CASE f = e
    <3>1. page'[f] = [version |-> v, revision |-> rows[v].revision + 1, definition |-> d]
      BY <1>6, <2>1, <2>2
    <3>2. rows'[v] = [state |-> "draft", definition |-> d, revision |-> rows[v].revision + 1]
      BY <1>3, <1>6
    <3>3. rows[v].revision + 1 \in Nat
      BY <1>3, <1>6
    <3> QED BY <3>1, <3>2, <3>3
  <2>3. CASE f # e
    <3>1. page'[f] = page[f] /\ page[f].version \in Versions /\ page[f].revision \in Nat
      BY <1>6, <2>1, <2>3 DEF Page
    <3>2. /\ rows[page[f].version].state # "absent"
          /\ page[f].revision <= rows[page[f].version].revision
          /\ page[f].revision = rows[page[f].version].revision
               => page[f].definition = rows[page[f].version].definition
      BY DEF VersionsInv, PagesOK
    <3>3. CASE page[f].version \in Updated(e)
      <4> DEFINE w == page[f].version
      <4>0. /\ rows'[w] = [state |-> "draft", definition |-> d, revision |-> rows[w].revision + 1]
            /\ rows[w].revision \in Nat
        BY <1>3, <3>3
      <4>1. /\ rows[w].revision \in Nat /\ rows'[w].state = "draft"
            /\ rows'[w].revision = rows[w].revision + 1
        BY <4>0
      <4>2. page[f].revision < rows'[w].revision
        BY <3>1, <3>2, <4>1
      <4> QED BY <3>1, <4>1, <4>2
    <3>4. CASE page[f].version \notin Updated(e)
      BY <1>2, <3>1, <3>2, <3>4
    <3> QED BY <3>3, <3>4
  <2> QED BY <2>2, <2>3
<1> QED BY <1>8, <1>9, <1>10 DEF VersionsInv

\* The newest of the drafts that were seen is the newest version of all, when the number
\* after it is free.
LEMMA PublishedIsNewest ==
  ASSUME VersionsInv, NEW e \in Editors, Publish(e)
  PROVE  LET v == Newest(Candidates(e)) IN
         /\ v \in Versions /\ v + 1 \in Versions /\ rows[v].state = "draft"
         /\ rows[v].definition \in Definitions
         /\ \A w \in Versions : w > v => w \notin Existing
<1> DEFINE v == Newest(Candidates(e))
<1>1. Candidates(e) \subseteq Drafts /\ Drafts \subseteq Versions
  BY DEF Candidates, Drafts
<1>2. v \in Candidates(e)
  BY <1>1, NewestIsOne DEF Publish
<1>3. v \in Versions /\ rows[v].state = "draft"
  BY <1>1, <1>2 DEF Drafts
<1>4. v + 1 \in Versions /\ v + 1 \notin Existing
  BY DEF Publish, KeyFree, Existing
<1>5. \A w \in Versions : w > v => w \notin Existing
  <2> SUFFICES ASSUME NEW w \in Versions, w > v, w \in Existing PROVE FALSE
    OBVIOUS
  <2>1. w = v + 1 \/ v + 1 < w
    BY <1>3, VersionsAssumption DEF Versions
  <2> QED BY <1>4, <2>1 DEF VersionsInv, Numbered
<1>6. rows[v].definition \in Definitions
  BY <1>3 DEF VersionsInv, TypeOK, Row, NoRow
<1> QED BY <1>3, <1>4, <1>5, <1>6

LEMMA PublishStep ==
  ASSUME VersionsInv, NEW e \in Editors, Publish(e)
  PROVE  VersionsInv'
<1> DEFINE v == Newest(Candidates(e))
           d == rows[v].definition
<1>1. /\ v \in Versions /\ v + 1 \in Versions /\ rows[v].state = "draft" /\ d \in Definitions
      /\ \A w \in Versions : w > v => w \notin Existing
  BY PublishedIsNewest
<1>2. /\ rows' = [rows EXCEPT ![v] = [rows[v] EXCEPT !.state = "published"],
                            ![v + 1] = Draft(d)]
      /\ outbox' = Append(outbox, [version |-> v, definition |-> d])
      /\ current' = v + 1 /\ page' = page /\ call' = [call EXCEPT ![e] = NoCall]
  BY DEF Publish, Idle
<1> HIDE DEF v, d
<1>0. rows \in [Versions -> Row] /\ v # v + 1
  BY <1>1, VersionsAssumption DEF VersionsInv, TypeOK, Versions
<1>3. /\ rows'[v] = [state |-> "published", definition |-> d, revision |-> rows[v].revision]
      /\ rows[v].revision \in Nat
  BY <1>0, <1>1, <1>2 DEF Row, NoRow, d
<1>4. rows'[v + 1] = [state |-> "draft", definition |-> d, revision |-> 1]
  BY <1>0, <1>1, <1>2 DEF Draft
<1>5. \A w \in Versions \ {v, v + 1} : rows'[w] = rows[w]
  BY <1>0, <1>2
<1>6. rows' \in [Versions -> Row]
  BY <1>0, <1>1, <1>2, <1>3, <1>4 DEF Row
<1>7. TypeOK'
  <2>1. NoCall \in Call
    BY VersionsAssumption DEF Call, NoCall, Versions
  <2>2. [version |-> v, definition |-> d] \in [version : Versions, definition : Definitions]
    BY <1>1
  <2>3. outbox' \in Seq([version : Versions, definition : Definitions])
    <3>1. outbox \in Seq([version : Versions, definition : Definitions])
      BY DEF VersionsInv, TypeOK
    <3> QED BY <1>2, <2>2, <3>1
  <2>4. current' \in Versions /\ page' \in [Editors -> Page]
    BY <1>1, <1>2 DEF VersionsInv, TypeOK
  <2>5. call' \in [Editors -> Call]
    BY <1>2, <2>1 DEF VersionsInv, TypeOK
  <2> QED BY <1>6, <2>3, <2>4, <2>5 DEF TypeOK
<1>8. Existing' = Existing \cup {v + 1} /\ v + 1 \in Drafts' /\ v \in Existing
  BY <1>1, <1>3, <1>4, <1>5 DEF Existing, Drafts
<1>9. RequestsOK'
  BY <1>2, <1>8 DEF VersionsInv, TypeOK, RequestsOK, NoCall
<1>10. Numbered'
  <2> SUFFICES ASSUME NEW x \in Versions, NEW w \in Versions, w < x, x \in Existing'
               PROVE  w \in Existing'
    BY <1>8 DEF Numbered, DraftSurvives
  <2>1. CASE x \in Existing
    BY <1>8, <2>1 DEF VersionsInv, Numbered
  <2>2. CASE x = v + 1
    <3>1. w = v \/ w < v
      BY <1>1, <2>2, VersionsAssumption DEF Versions
    <3> QED BY <1>1, <1>8, <3>1 DEF VersionsInv, Numbered
  <2> QED BY <1>8, <2>1, <2>2
<1>11. PagesOK'
  <2> SUFFICES ASSUME NEW f \in Editors
               PROVE  LET row == rows'[page[f].version] IN
                      /\ row.state # "absent" /\ page[f].revision <= row.revision
                      /\ page[f].revision = row.revision => page[f].definition = row.definition
    BY <1>2 DEF PagesOK
  <2>1. /\ page[f].version \in Versions
        /\ rows[page[f].version].state # "absent"
        /\ page[f].revision <= rows[page[f].version].revision
        /\ page[f].revision = rows[page[f].version].revision
             => page[f].definition = rows[page[f].version].definition
    BY DEF VersionsInv, TypeOK, PagesOK, Page
  <2>2. page[f].version # v + 1
    BY <1>1, <2>1, VersionsAssumption DEF Existing, Versions
  <2>3. CASE page[f].version = v
    BY <1>3, <2>1, <2>3 DEF d
  <2>4. CASE page[f].version # v
    BY <1>5, <2>1, <2>2, <2>4
  <2> QED BY <2>3, <2>4
<1> QED BY <1>7, <1>9, <1>10, <1>11 DEF VersionsInv

\* A restore gives the number after the newest version to a draft; the drafts it
\* supersedes are other versions.
LEMMA RestoredRows ==
  ASSUME VersionsInv, NEW e \in Editors, Restore(e)
  PROVE  LET next == Newest(Existing) + 1
             d == rows[call[e].source].definition
         IN
         /\ next \in Versions /\ next \notin Existing /\ d \in Definitions
         /\ \A w \in Versions : w < next <=> w \in Existing
         /\ rows' \in [Versions -> Row]
         /\ rows'[next] = [state |-> "draft", definition |-> d, revision |-> 1]
         /\ \A v \in Versions \ {next} :
              IF v \in Superseded(e)
              THEN rows'[v] = [rows[v] EXCEPT !.state = "superseded"] /\ v \in Drafts
              ELSE rows'[v] = rows[v]
<1> DEFINE next == Newest(Existing) + 1
           d == rows[call[e].source].definition
<1>1. next \in Versions /\ next \notin Existing
  BY DEF Restore, KeyFree, Existing
<1>2. call[e].source \in Existing /\ Existing \subseteq Versions
  BY DEF VersionsInv, RequestsOK, Restore, Existing
<1>3. d \in Definitions
  BY <1>2 DEF VersionsInv, TypeOK, Existing, Row, NoRow
<1>4. Newest(Existing) \in Existing /\ \A v \in Existing : v <= Newest(Existing)
  BY <1>2, NewestIsOne
<1>5. \A w \in Versions : w < next <=> w \in Existing
  <2> TAKE w \in Versions
  <2>0. Newest(Existing) \in Versions
    BY <1>2, <1>4
  <2>1. w \in Int /\ Newest(Existing) \in Int
    BY <2>0, VersionsAssumption DEF Versions
  <2>2. CASE w = Newest(Existing)
    BY <1>4, <2>1, <2>2
  <2>3. CASE w < Newest(Existing)
    BY <1>2, <1>4, <2>1, <2>3 DEF VersionsInv, Numbered
  <2>4. CASE w > Newest(Existing)
    BY <1>4, <2>1, <2>4
  <2> QED BY <2>1, <2>2, <2>3, <2>4
<1>6. Superseded(e) \subseteq Drafts
  BY DEF Superseded
<1>7. rows' = [v \in Versions |->
          IF v = next THEN Draft(d)
          ELSE IF v \in Superseded(e) THEN [rows[v] EXCEPT !.state = "superseded"] ELSE rows[v]]
  BY DEF Restore
<1> HIDE DEF next, d
<1>8. rows'[next] = [state |-> "draft", definition |-> d, revision |-> 1]
  BY <1>1, <1>7 DEF Draft
<1>9. ASSUME NEW v \in Versions \ {next}
      PROVE  IF v \in Superseded(e)
             THEN rows'[v] = [rows[v] EXCEPT !.state = "superseded"] /\ v \in Drafts
             ELSE rows'[v] = rows[v]
  BY <1>6, <1>7
<1>10. rows' \in [Versions -> Row]
  <2>1. ASSUME NEW v \in Versions PROVE rows'[v] \in Row
    <3>1. CASE v = next
      BY <1>3, <1>8, <3>1 DEF Row
    <3>2. CASE v # next /\ v \in Superseded(e)
      <4>1. rows[v].state = "draft" /\ rows[v] \in Row
        BY <1>6, <3>2 DEF Drafts, VersionsInv, TypeOK
      <4>2. rows'[v] = [rows[v] EXCEPT !.state = "superseded"]
        BY <1>9, <3>2
      <4> QED BY <4>1, <4>2 DEF Row, NoRow
    <3>3. CASE v # next /\ v \notin Superseded(e)
      BY <1>9, <3>3 DEF VersionsInv, TypeOK
    <3> QED BY <3>1, <3>2, <3>3
  <2> QED BY <1>7, <2>1
<1> QED BY <1>1, <1>3, <1>5, <1>8, <1>9, <1>10 DEF next, d

LEMMA RestoreStep ==
  ASSUME VersionsInv, NEW e \in Editors, Restore(e)
  PROVE  VersionsInv'
<1> DEFINE next == Newest(Existing) + 1
           d == rows[call[e].source].definition
<1>1. /\ next \in Versions /\ next \notin Existing /\ d \in Definitions
      /\ \A w \in Versions : w < next <=> w \in Existing
      /\ rows' \in [Versions -> Row]
      /\ rows'[next] = [state |-> "draft", definition |-> d, revision |-> 1]
  BY RestoredRows
<1>2. ASSUME NEW v \in Existing
      PROVE  /\ v \in Versions /\ rows'[v].state # "absent"
             /\ rows'[v].revision = rows[v].revision
             /\ rows'[v].definition = rows[v].definition
  <2>1. v \in Versions /\ rows[v] \in Row /\ rows[v].state # "absent" /\ v # next
    BY <1>1 DEF VersionsInv, TypeOK, Existing
  <2>2. IF v \in Superseded(e)
        THEN rows'[v] = [rows[v] EXCEPT !.state = "superseded"] /\ v \in Drafts
        ELSE rows'[v] = rows[v]
    BY <2>1, RestoredRows
  <2>3. CASE v \in Superseded(e)
    BY <2>1, <2>2, <2>3 DEF Row, NoRow
  <2>4. CASE v \notin Superseded(e)
    BY <2>1, <2>2, <2>4
  <2> QED BY <2>3, <2>4
<1>3. /\ page' = [page EXCEPT ![e] = [version |-> next, revision |-> 1, definition |-> d]]
      /\ current' = next /\ outbox' = outbox /\ call' = [call EXCEPT ![e] = NoCall]
  BY DEF Restore, Idle
<1> HIDE DEF next, d
<1>4. Existing \subseteq Existing' /\ next \in Existing' /\ next \in Drafts'
  BY <1>1, <1>2 DEF Existing, Drafts
<1>5. TypeOK'
  <2>1. NoCall \in Call
    BY VersionsAssumption DEF Call, NoCall, Versions
  <2> QED BY <1>1, <1>3, <2>1 DEF VersionsInv, TypeOK, Page
<1>6. RequestsOK'
  BY <1>3, <1>4 DEF VersionsInv, TypeOK, RequestsOK, NoCall
<1>7. \A w \in Versions : w \in Existing' => w \in Existing \/ w = next
  <2> SUFFICES ASSUME NEW w \in Versions, w \in Existing', w # next, w \notin Existing PROVE FALSE
    OBVIOUS
  <2>1. w \notin Drafts
    BY DEF Drafts, Existing
  <2>2. rows'[w] = rows[w]
    BY <2>1, RestoredRows DEF next
  <2> QED BY <2>2 DEF Existing
<1>8. Numbered'
  <2> SUFFICES ASSUME NEW x \in Versions, NEW w \in Versions, w < x, x \in Existing'
               PROVE  w \in Existing'
    BY <1>4 DEF Numbered, DraftSurvives
  <2>1. CASE x \in Existing
    BY <1>4, <2>1 DEF VersionsInv, Numbered
  <2>2. CASE x = next
    BY <1>1, <1>4, <2>2
  <2> QED BY <1>7, <2>1, <2>2
<1>9. PagesOK'
  <2> SUFFICES ASSUME NEW f \in Editors
               PROVE  LET row == rows'[page'[f].version] IN
                      /\ row.state # "absent" /\ page'[f].revision <= row.revision
                      /\ page'[f].revision = row.revision => page'[f].definition = row.definition
    BY DEF PagesOK
  <2>0. page \in [Editors -> Page]
    BY DEF VersionsInv, TypeOK
  <2>1. CASE f = e
    <3>1. page'[f] = [version |-> next, revision |-> 1, definition |-> d]
      BY <1>3, <2>0, <2>1
    <3> QED BY <1>1, <3>1
  <2>2. CASE f # e
    <3>1. page'[f] = page[f] /\ page[f].version \in Versions
      BY <1>3, <2>0, <2>2 DEF Page
    <3>2. /\ rows[page[f].version].state # "absent"
          /\ page[f].revision <= rows[page[f].version].revision
          /\ page[f].revision = rows[page[f].version].revision
               => page[f].definition = rows[page[f].version].definition
      BY DEF VersionsInv, PagesOK
    <3>3. page[f].version \in Existing
      BY <3>1, <3>2 DEF Existing
    <3>4. /\ rows'[page[f].version].state # "absent"
          /\ rows'[page[f].version].revision = rows[page[f].version].revision
          /\ rows'[page[f].version].definition = rows[page[f].version].definition
      BY <1>2, <3>3
    <3> QED BY <3>1, <3>2, <3>4
  <2> QED BY <2>1, <2>2
<1> QED BY <1>5, <1>6, <1>8, <1>9 DEF VersionsInv

-----------------------------------------------------------------------------
(* The theorems. *)

LEMMA VersionsInvHolds == Spec => []VersionsInv
<1>1. VersionsInv /\ [Next]_vars => VersionsInv'
  <2> SUFFICES ASSUME VersionsInv, [Next]_vars PROVE VersionsInv'
    OBVIOUS
  <2>1. CASE UNCHANGED vars
    BY <2>1 DEF vars, VersionsInv, TypeOK, RequestsOK, Numbered, PagesOK, DraftSurvives,
                Existing, Drafts
  <2>2. ASSUME NEW e \in Editors,
               Load(e) \/ Save(e) \/ Publish(e) \/ Restore(e)
        PROVE  VersionsInv'
    BY <2>2, LoadStep, SaveStep, PublishStep, RestoreStep
  <2>3. ASSUME NEW e \in Editors, NEW d \in Definitions, NEW s \in Versions,
               Check(e, d) \/ BeginSave(e) \/ BeginBatch(e, d) \/ BeginPublish(e)
                 \/ BeginRestore(e, s) \/ Fail(e)
        PROVE  VersionsInv'
    BY <2>3, RequestStep
  <2>4. 1 \in Versions
    BY VersionsAssumption DEF Versions
  <2>5. \E d \in Definitions : TRUE
    BY <2>4 DEF VersionsInv, Numbered, DraftSurvives, Drafts, TypeOK, Row, NoRow
  <2> QED BY <2>1, <2>2, <2>3, <2>4, <2>5 DEF Next
<1> QED BY <1>1, InitialVersions, PTL DEF Spec

\* Every reachable row, page, request and event of a workflow is well formed.
THEOREM VersionTypes == Spec => []TypeOK
BY VersionsInvHolds, PTL DEF VersionsInv

\* Whatever publications and restores cross, the workflow keeps a draft to edit.
THEOREM DraftAlways == Spec => []DraftSurvives
BY VersionsInvHolds, PTL DEF VersionsInv, Numbered

\* A draft's definition is replaced only by a page that was at its current revision, and,
\* among pages of this version, showed this definition: the revision, compared again under
\* the row's lock, is then as good as the definition (saveDraft).
THEOREM SavesCompose == Spec => EditsCompose
<1>1. VersionsInv /\ [Next]_vars =>
        [\A v \in Versions : Replaced(v) =>
           \E e \in Editors : /\ call[e].op = "save" /\ call'[e].op = "idle"
                              /\ page[e].revision = rows[v].revision
                              /\ page[e].version = v => page[e] = Record(v)]_vars
  <2> SUFFICES ASSUME VersionsInv, Next, NEW v \in Versions, Replaced(v)
               PROVE  \E e \in Editors : /\ call[e].op = "save" /\ call'[e].op = "idle"
                                         /\ page[e].revision = rows[v].revision
                                         /\ page[e].version = v => page[e] = Record(v)
    OBVIOUS
  <2>0. rows' # rows /\ rows[v].state = "draft" /\ v \in Existing
    BY DEF Replaced, Existing
  <2>1. PICK e \in Editors : Save(e) \/ Publish(e) \/ Restore(e)
    BY <2>0 DEF Next, Load, BeginSave, BeginPublish, Fail, Check, BeginBatch, BeginRestore
  <2>2. CASE Save(e)
    <3>1. v \in Updated(e)
      BY <2>2 DEF Save, Replaced
    <3>2. rows[v].revision = page[e].revision
      BY <3>1 DEF Updated, Matching
    <3>3. call[e].op = "save" /\ call'[e].op = "idle"
      BY <2>2 DEF Save, Idle, NoCall, VersionsInv, TypeOK
    <3>4. page[e].version = v => page[e] = Record(v)
      BY <3>2 DEF Record, VersionsInv, PagesOK, TypeOK, Page
    <3> QED BY <3>2, <3>3, <3>4
  <2>3. CASE Publish(e)
    <3> DEFINE w == Newest(Candidates(e))
    <3>1. /\ rows' = [rows EXCEPT ![w] = [rows[w] EXCEPT !.state = "published"],
                                ![w + 1] = Draft(rows[w].definition)]
          /\ rows[w + 1].state = "absent"
      BY <2>3 DEF Publish, KeyFree
    <3> HIDE DEF w
    <3>2. v # w + 1 /\ rows \in [Versions -> Row] /\ rows[v] \in Row
      BY <2>0, <3>1 DEF VersionsInv, TypeOK
    <3>3. rows'[v] = rows[v] \/ rows'[v] = [rows[v] EXCEPT !.state = "published"]
      BY <3>1, <3>2
    <3>4. rows'[v].definition = rows[v].definition
      BY <2>0, <3>2, <3>3 DEF Row, NoRow
    <3> QED BY <3>4 DEF Replaced
  <2>4. CASE Restore(e)
    <3>1. v # Newest(Existing) + 1
      BY <2>0, <2>4, RestoredRows
    <3>2. rows'[v] = rows[v] \/ rows'[v] = [rows[v] EXCEPT !.state = "superseded"]
      BY <2>4, <3>1, RestoredRows
    <3>3. rows[v] \in Row
      BY DEF VersionsInv, TypeOK
    <3> QED BY <2>0, <3>2, <3>3 DEF Replaced, Row, NoRow
  <2> QED BY <2>1, <2>2, <2>3, <2>4
<1> QED BY <1>1, VersionsInvHolds, PTL DEF Spec, EditsCompose

\* The published rows implement Releases: each version is released at most once, valid,
\* announced as it is released, never altered after, and later ones have higher numbers.
THEOREM ReleasesImplemented == Spec => ImplementsReleases
<1>1. Init => R!Init
  BY VersionsAssumption DEF Init, R!Init, Published, Draft, NoRow
<1>2. VersionsInv /\ [Next]_vars => [R!Next]_(R!vars)
  <2> SUFFICES ASSUME VersionsInv, [Next]_vars PROVE [R!Next]_(R!vars)
    OBVIOUS
  <2>0. rows \in [Versions -> Row]
    BY DEF VersionsInv, TypeOK
  <2>1. CASE rows' = rows /\ outbox' = outbox
    BY <2>1 DEF R!vars, Published
  <2>2. ASSUME NEW e \in Editors, Save(e) PROVE UNCHANGED R!vars
    <3>1. \A v \in Versions : IF v \in Updated(e)
            THEN rows[v].state # "published" /\ rows'[v].state # "published"
            ELSE rows'[v] = rows[v]
      BY <2>2 DEF Save, Updated, Matching, Drafts
    <3> QED BY <2>2, <3>1 DEF R!vars, Published, Save
  <2>3. ASSUME NEW e \in Editors, Restore(e) PROVE UNCHANGED R!vars
    <3>1. ASSUME NEW v \in Versions
          PROVE  \/ rows[v].state # "published" /\ rows'[v].state # "published"
                 \/ rows'[v] = rows[v]
      <4>1. CASE v = Newest(Existing) + 1
        <5> DEFINE next == Newest(Existing) + 1
        <5>0. /\ next \notin Existing
              /\ rows'[next] = [state |-> "draft", definition |-> rows[call[e].source].definition,
                                revision |-> 1]
          BY <2>3, RestoredRows
        <5>1. v \notin Existing /\ rows'[v].state = "draft"
          BY <4>1, <5>0
        <5> QED BY <5>1 DEF Existing
      <4>2. CASE v # Newest(Existing) + 1
        <5>1. \/ rows'[v] = rows[v]
              \/ rows'[v] = [rows[v] EXCEPT !.state = "superseded"] /\ v \in Drafts
          BY <2>3, <4>2, RestoredRows
        <5> QED BY <2>0, <5>1 DEF Drafts, Row, NoRow
      <4> QED BY <4>1, <4>2
    <3>2. Published' = Published
      BY <3>1 DEF Published
    <3> QED BY <2>3, <3>2 DEF R!vars, Restore
  <2>4. ASSUME NEW e \in Editors, Publish(e) PROVE R!Next
    <3> DEFINE v == Newest(Candidates(e))
               d == rows[v].definition
    <3>1. /\ v \in Versions /\ v + 1 \in Versions /\ rows[v].state = "draft"
          /\ \A w \in Versions : w > v => w \notin Existing
      BY <2>4, PublishedIsNewest
    <3>2. d \in Publishable /\ outbox' = Append(outbox, [version |-> v, definition |-> d])
      BY <2>4 DEF Publish
    <3>3. rows' = [rows EXCEPT ![v] = [rows[v] EXCEPT !.state = "published"], ![v + 1] = Draft(d)]
      BY <2>4 DEF Publish
    <3> HIDE DEF v, d
    <3>4. v # v + 1 /\ \A w \in Versions : w >= v <=> w = v \/ w > v
      BY <3>1, VersionsAssumption DEF Versions
    <3>5. \A w \in Versions : w >= v => Published[w] = Absent
      BY <3>1, <3>4 DEF Published, Existing
    <3>6. rows'[v].state = "published" /\ rows'[v].definition = d
      BY <2>0, <3>1, <3>3, <3>4 DEF Row, NoRow, d
    <3>7. rows'[v + 1].state = "draft" /\ rows[v + 1].state # "published"
      BY <2>0, <2>4, <3>1, <3>3, <3>4 DEF Draft, Publish, KeyFree, v
    <3>8. \A w \in Versions \ {v, v + 1} : rows'[w] = rows[w]
      BY <2>0, <3>3
    <3>9. Published' = [Published EXCEPT ![v] = d]
      BY <3>1, <3>6, <3>7, <3>8 DEF Published
    <3>10. R!Release(v, d)
      BY <3>2, <3>5, <3>9 DEF R!Release
    <3> QED BY <3>1, <3>2, <3>10 DEF R!Next
  <2>5. ASSUME NEW e \in Editors, NEW d \in Definitions, NEW s \in Versions,
               Load(e) \/ BeginSave(e) \/ BeginPublish(e) \/ Fail(e) \/ Check(e, d)
                 \/ BeginBatch(e, d) \/ BeginRestore(e, s)
        PROVE  rows' = rows /\ outbox' = outbox
    BY <2>5 DEF Load, BeginSave, BeginPublish, Fail, Check, BeginBatch, BeginRestore
  <2>6. CASE UNCHANGED vars
    BY <2>1, <2>6 DEF vars
  <2>7. (\E s \in Versions : TRUE) /\ (\E d \in Definitions : TRUE)
    BY DEF VersionsInv, Numbered, DraftSurvives, Drafts, TypeOK, Row, NoRow
  <2> QED BY <2>1, <2>2, <2>3, <2>4, <2>5, <2>6, <2>7 DEF Next
<1> QED BY <1>1, <1>2, VersionsInvHolds, PTL DEF Spec, ImplementsReleases, R!Spec

=============================================================================
