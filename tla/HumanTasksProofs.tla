-------------------------- MODULE HumanTasksProofs --------------------------
(***************************************************************************)
(* What holds of a human task for any number of people, tabs, submissions  *)
(* and reopenings, in every order of their requests.                       *)
(***************************************************************************)
EXTENDS HumanTasks, TLAPS

-----------------------------------------------------------------------------
(* Types. *)

\* Every reachable task, submission, draft and save under way is well formed.
THEOREM TaskTypes == Spec => []TypeOK
<1> USE TasksAssumption
<1>1. Init => TypeOK
  BY DEF Init, TypeOK, Tasks, States, NoDraft, NoSave
<1>2. TypeOK /\ [Next]_vars => TypeOK'
  <2> SUFFICES ASSUME TypeOK, [Next]_vars PROVE TypeOK'
    OBVIOUS
  <2> USE DEF TypeOK
  <2>1. ASSUME NEW t \in Tasks, Activate(t) \/ FailTask(t) PROVE TypeOK'
    BY <2>1 DEF Activate, FailTask, Move, States
  <2>10. CASE Skip
    BY <2>10 DEF Skip, States
  <2>2. ASSUME NEW t \in Tasks, NEW p \in People,
               Claim(p, t) \/ Unclaim(p, t) \/ RequestClarification(p, t)
        PROVE  TypeOK'
    BY <2>2 DEF Claim, Unclaim, RequestClarification, Move, HandTo, States
  <2>3. ASSUME NEW t \in Tasks, NEW p \in People, NEW q \in People \cup {Nobody},
               Assign(p, q, t) \/ (q \in People /\ Delegate(p, q, t))
        PROVE  TypeOK'
    BY <2>3 DEF Assign, Delegate, HandTo
  <2>4. ASSUME NEW t \in Tasks, NEW p \in People, NEW k \in Keys, Submit(p, t, k)
        PROVE  TypeOK'
    <3>1. [task |-> t, revision |-> revision[t] + 1, by |-> p, key |-> k] \in Answer
      BY DEF Answer
    <3> QED BY <2>4, <3>1 DEF Submit, Move, States
  <2>5. ASSUME NEW t \in Tasks, NEW m \in People, NEW new \in Tasks, Reopen(m, t, new)
        PROVE  TypeOK'
    BY <2>5 DEF Reopen, States
  <2>6. ASSUME NEW c \in Tabs, Save(c) PROVE TypeOK'
    <3>1. saving[c].task \in Drafted
      BY <2>6 DEF Save, NoSave
    <3>2. draft[saving[c].task][UserOf[c]].version + 1 \in Nat
      <4>1. draft[saving[c].task][UserOf[c]] \in [version : Nat, tab : Tabs \cup {Nobody}]
        <5>1. draft[saving[c].task] \in [People -> [version : Nat, tab : Tabs \cup {Nobody}]]
          BY <3>1
        <5>2. UserOf[c] \in People
          OBVIOUS
        <5> QED BY <5>1, <5>2
      <4> QED BY <4>1
    <3>3. draft' \in [Drafted -> [People -> [version : Nat, tab : Tabs \cup {Nobody}]]]
      BY <2>6, <3>1, <3>2 DEF Save
    <3>4. saving' \in [Tabs -> {NoSave} \cup [task : Drafted, found : Nat]]
      BY <2>6 DEF Save
    <3> QED BY <2>6, <3>3, <3>4 DEF Save, rows
  <2>7. ASSUME NEW c \in Tabs, NEW t \in Drafted, Find(c, t) PROVE TypeOK'
    <3>1. draft[t][UserOf[c]].version \in Nat
      OBVIOUS
    <3> QED BY <2>7, <3>1 DEF Find, rows
  <2>8. ASSUME NEW c \in Tabs, Abandon(c) PROVE TypeOK'
    BY <2>8 DEF Abandon, rows
  <2>9. CASE UNCHANGED vars
    BY <2>9 DEF vars
  <2> QED BY <2>1, <2>2, <2>3, <2>4, <2>5, <2>6, <2>7, <2>8, <2>9, <2>10 DEF Next
<1> QED BY <1>1, <1>2, PTL DEF Spec

-----------------------------------------------------------------------------
(* The rows of the tasks. *)

\* Once a task is one of these, it is answered no more.
Over == {"succeeded", "failed"}

\* A task that is not there has no holder, source or revision; the source of a reopened
\* one is over, so that its revision will not change any more.
RowOK(t) ==
  /\ state[t] = "absent" => assignee[t] = Nobody /\ source[t] = 0
  /\ source[t] # 0 => state[source[t]] \in Over
RowsOK == \A t \in Tasks : RowOK(t)

TasksInv == TypeOK /\ RowsOK /\ AnsweredOnce

\* The steps that leave revisions and answers alone, and tasks that are over as they are.
Minor(t) ==
  /\ assignee'[t] # assignee[t] => Exists(t)
  /\ state'[t] # state[t] =>
       state[t] \notin Over \cup {"absent"} /\ state'[t] \notin Over \cup {"absent"}
MinorStep == UNCHANGED <<revision, source, answers>> /\ \A t \in Tasks : Minor(t)

\* What a move between states that are not the end of a task does.
LEMMA MoveMinor ==
  ASSUME TypeOK, NEW t \in Tasks, NEW from, NEW to,
         from \cap (Over \cup {"absent"}) = {}, to \notin Over \cup {"absent"},
         Move(t, from, to), NEW u \in Tasks, state'[u] # state[u]
  PROVE  state[u] \notin Over \cup {"absent"} /\ state'[u] \notin Over \cup {"absent"}
<1>1. u = t /\ state[t] \in from /\ state'[t] = to
  BY DEF Move, TypeOK
<1> QED BY <1>1

\* What one step may do to the rows and the answers.
LEMMA RowSteps ==
  ASSUME TypeOK, [Next]_vars
  PROVE  \/ \E t \in Tasks, p \in People, k \in Keys : Submit(p, t, k)
         \/ \E t, new \in Tasks, m \in People : Reopen(m, t, new)
         \/ \E t \in Tasks : FailTask(t)
         \/ MinorStep
<1>1. CASE UNCHANGED <<rows, answers>>
  BY <1>1 DEF rows, MinorStep, Minor
<1>2. CASE Skip
  BY <1>2 DEF Skip, Skippable, MinorStep, Minor, Over, TypeOK
<1>3. ASSUME NEW t \in Tasks, Activate(t)
      PROVE  MinorStep
  <2>1. UNCHANGED <<assignee, revision, source, answers>> /\ Move(t, {"pending"}, "ready")
    BY <1>3 DEF Activate
  <2>2. {"pending"} \cap (Over \cup {"absent"}) = {} /\ "ready" \notin Over \cup {"absent"}
    BY DEF Over
  <2> QED BY <2>1, <2>2, MoveMinor DEF MinorStep, Minor
<1>4. ASSUME NEW t \in Tasks, NEW from \in SUBSET Open, NEW to \in Open \cup {"waiting"},
             UNCHANGED <<revision, source, answers>>, Move(t, from, to),
             \A u \in Tasks : assignee'[u] # assignee[u] => Exists(u)
      PROVE  MinorStep
  <2>1. from \cap (Over \cup {"absent"}) = {} /\ to \notin Over \cup {"absent"}
    BY DEF Over, Open
  <2> QED BY <1>4, <2>1, MoveMinor DEF MinorStep, Minor
<1>5. ASSUME NEW t \in Tasks, NEW q, Exists(t), HandTo(t, q), NEW u \in Tasks,
             assignee'[u] # assignee[u]
      PROVE  Exists(u)
  BY <1>5 DEF HandTo, TypeOK
<1>6. ASSUME NEW t \in Tasks, NEW p \in People, Claim(p, t) PROVE MinorStep
  <2>1. /\ Exists(t) /\ HandTo(t, p) /\ Move(t, {"ready"}, "running")
        /\ UNCHANGED <<revision, source, answers>>
    BY <1>6 DEF Claim
  <2> QED BY <1>4, <1>5, <2>1 DEF Open
<1>7. ASSUME NEW t \in Tasks, NEW p \in People, Unclaim(p, t) PROVE MinorStep
  <2>1. /\ Exists(t) /\ HandTo(t, Nobody) /\ Move(t, {"running"}, "ready")
        /\ UNCHANGED <<revision, source, answers>>
    BY <1>7 DEF Unclaim
  <2> QED BY <1>4, <1>5, <2>1 DEF Open
<1>8. ASSUME NEW t \in Tasks, NEW p \in People, RequestClarification(p, t) PROVE MinorStep
  <2>1. Move(t, Open, "waiting") /\ UNCHANGED <<assignee, revision, source, answers>>
    BY <1>8 DEF RequestClarification
  <2> QED BY <1>4, <2>1
<1>9. ASSUME NEW t \in Tasks, NEW p \in People, NEW q \in People \cup {Nobody},
             Assign(p, q, t) \/ Delegate(p, q, t)
      PROVE  MinorStep
  <2>1. /\ Exists(t) /\ HandTo(t, q) /\ UNCHANGED <<state, revision, source, answers>>
    BY <1>9 DEF Assign, Delegate
  <2> QED BY <1>5, <2>1 DEF MinorStep, Minor
<1>10. ASSUME NEW c \in Tabs, Save(c) \/ Abandon(c) \/ \E t \in Drafted : Find(c, t)
       PROVE  UNCHANGED <<rows, answers>>
  BY <1>10 DEF Save, Abandon, Find
<1>11. UNCHANGED vars => UNCHANGED <<rows, answers>>
  BY DEF vars, rows
<1> QED BY <1>1, <1>2, <1>3, <1>6, <1>7, <1>8, <1>9, <1>10, <1>11 DEF Next

LEMMA InitialTasks == Init => RowsOK /\ AnsweredOnce
BY TasksAssumption DEF Init, RowsOK, RowOK, AnsweredOnce, AnswersOf, Before, Tasks

\* AnsweredOnce of one task.
AnswerOK(t) ==
  IF AnswersOf(t) = {}
  THEN revision[t] = Before(t) /\ state[t] # "succeeded"
  ELSE /\ \E a \in answers : AnswersOf(t) = {a} /\ a.revision = revision[t]
       /\ revision[t] = Before(t) + 1
       /\ state[t] \in {"succeeded", "failed"}

\* A step that leaves revisions, sources and answers alone, and tasks that are over over.
LEMMA QuietRows ==
  ASSUME TasksInv, UNCHANGED <<revision, source, answers>>,
         \A u \in Tasks : /\ state'[u] = "absent" <=> state[u] = "absent"
                          /\ state[u] \in Over => state'[u] \in Over
                          /\ state'[u] = "succeeded" => state[u] = "succeeded"
                          /\ state[u] = "absent" => assignee'[u] = assignee[u]
  PROVE  RowsOK' /\ AnsweredOnce'
<1>1. \A u \in Tasks : source[u] # 0 => source[u] \in Tasks
  BY DEF TasksInv, TypeOK
<1>2. RowsOK'
  BY <1>1 DEF RowsOK, RowOK, TasksInv
<1>3. \A u \in Tasks : AnswersOf(u)' = AnswersOf(u) /\ Before(u)' = Before(u)
  BY DEF AnswersOf, Before
<1>4. ASSUME NEW u \in Tasks PROVE AnswerOK(u)'
  BY <1>3 DEF AnswerOK, AnsweredOnce, TasksInv, Over
<1> QED BY <1>2, <1>4 DEF AnsweredOnce, AnswerOK

LEMMA AnswersStep ==
  ASSUME TasksInv, TypeOK', [Next]_vars
  PROVE  RowsOK' /\ AnsweredOnce'
<1> USE DEF TasksInv, TypeOK
<1>1. CASE MinorStep
  BY <1>1, QuietRows DEF MinorStep, Minor, Exists, Over
<1>2. ASSUME NEW t \in Tasks, FailTask(t) PROVE RowsOK' /\ AnsweredOnce'
  <2>1. /\ state' = [state EXCEPT ![t] = "failed"] /\ state[t] # "absent"
        /\ UNCHANGED <<assignee, revision, source, answers>>
    BY <1>2 DEF FailTask, Exists, Move
  <2> QED BY <2>1, QuietRows DEF Over
<1>3. ASSUME NEW t \in Tasks, NEW p \in People, NEW k \in Keys, Submit(p, t, k)
      PROVE  RowsOK' /\ AnsweredOnce'
  <2> DEFINE a == [task |-> t, revision |-> revision[t] + 1, by |-> p, key |-> k]
  <2>1. /\ state' = [state EXCEPT ![t] = "succeeded"] /\ answers' = answers \cup {a}
        /\ revision' = [revision EXCEPT ![t] = revision[t] + 1]
        /\ assignee' = assignee /\ source' = source
        /\ state[t] \notin Over \cup {"absent"}
    BY <1>3 DEF Submit, Move, Open, Over
  <2>2. ASSUME NEW u \in Tasks PROVE RowOK(u)'
    <3>1. state'[u] = "absent" => state[u] = "absent"
      BY <2>1
    <3>2. source[u] # 0 => source[u] \in Tasks /\ state[source[u]] \in Over
      BY DEF RowsOK, RowOK
    <3>3. source[u] # 0 => state'[source[u]] \in Over
      BY <2>1, <3>2
    <3> QED BY <2>1, <3>1, <3>3 DEF RowsOK, RowOK
  <2>3. \A u \in Tasks : source[u] # t
    <3>1. t # 0
      BY DEF Tasks
    <3> QED BY <2>1, <3>1 DEF RowsOK, RowOK
  <2>4. \A u \in Tasks : Before(u)' = Before(u)
    BY <2>1, <2>3 DEF Before
  <2>5. AnswersOf(t) = {} /\ revision[t] = Before(t)
    BY <2>1 DEF AnsweredOnce, Over
  <2>6. AnswersOf(t)' = {a} /\ \A u \in Tasks \ {t} : AnswersOf(u)' = AnswersOf(u)
    BY <2>1, <2>5 DEF AnswersOf
  <2>7. ASSUME NEW u \in Tasks PROVE AnswerOK(u)'
    <3>1. CASE u = t
      <4>1. state'[t] = "succeeded" /\ a \in answers' /\ a.revision = revision'[t]
        BY <2>1
      <4>2. revision'[t] = Before(t)' + 1
        BY <2>1, <2>4, <2>5
      <4> HIDE DEF a
      <4> QED BY <2>6, <3>1, <4>1, <4>2 DEF AnswerOK
    <3>2. CASE u # t
      <4>1. state'[u] = state[u] /\ revision'[u] = revision[u] /\ AnswersOf(u)' = AnswersOf(u)
            /\ Before(u)' = Before(u) /\ answers \subseteq answers'
        BY <2>1, <2>4, <2>6, <3>2
      <4> QED BY <4>1 DEF AnsweredOnce, AnswerOK
    <3> QED BY <3>1, <3>2
  <2> QED BY <2>2, <2>7 DEF AnsweredOnce, RowsOK, RowOK, AnswerOK
<1>4. ASSUME NEW t \in Tasks, NEW new \in Tasks, NEW m \in People, Reopen(m, t, new)
      PROVE  RowsOK' /\ AnsweredOnce'
  <2>1. /\ state' = [state EXCEPT ![new] = "ready"] /\ assignee' = [assignee EXCEPT ![new] = Nobody]
        /\ revision' = [revision EXCEPT ![new] = revision[t]] /\ source' = [source EXCEPT ![new] = t]
        /\ answers' = answers /\ state[t] = "succeeded" /\ state[new] = "absent" /\ t # new
    BY <1>4 DEF Reopen, Exists
  <2>2. ASSUME NEW u \in Tasks PROVE RowOK(u)'
    <3>1. CASE u = new
      BY <2>1, <3>1 DEF RowOK, Over
    <3>2. CASE u # new
      <4>1. state'[u] = state[u] /\ assignee'[u] = assignee[u] /\ source'[u] = source[u]
        BY <2>1, <3>2
      <4>2. source[u] # 0 => source[u] \in Tasks /\ state[source[u]] \in Over
        BY DEF RowsOK, RowOK
      <4>3. source[u] # 0 => state'[source[u]] \in Over
        BY <2>1, <4>2 DEF Over
      <4> QED BY <4>1, <4>3 DEF RowsOK, RowOK
    <3> QED BY <3>1, <3>2
  <2>3. \A u \in Tasks : source[u] # new
    <3>1. new # 0
      BY DEF Tasks
    <3> QED BY <2>1, <3>1 DEF RowsOK, RowOK, Over
  <2>4. \A u \in Tasks \ {new} : Before(u)' = Before(u)
    BY <2>1, <2>3 DEF Before
  <2>5. Before(new)' = revision[t]
    BY <2>1 DEF Before, Tasks
  <2>6. \A u \in Tasks : AnswersOf(u)' = AnswersOf(u)
    BY <2>1 DEF AnswersOf
  <2>7. AnswersOf(new) = {}
    BY <2>1 DEF AnsweredOnce
  <2>8. ASSUME NEW u \in Tasks PROVE AnswerOK(u)'
    <3>1. CASE u = new
      BY <2>1, <2>5, <2>6, <2>7, <3>1 DEF AnswerOK
    <3>2. CASE u # new
      <4>1. /\ state'[u] = state[u] /\ revision'[u] = revision[u]
            /\ AnswersOf(u)' = AnswersOf(u) /\ Before(u)' = Before(u)
        BY <2>1, <2>4, <2>6, <3>2
      <4>2. AnswerOK(u)
        BY DEF AnsweredOnce, AnswerOK
      <4> QED BY <2>1, <4>1, <4>2 DEF AnswerOK
    <3> QED BY <3>1, <3>2
  <2> QED BY <2>2, <2>8 DEF AnsweredOnce, RowsOK, RowOK, AnswerOK
<1> QED BY <1>1, <1>2, <1>3, <1>4, RowSteps

LEMMA TasksInvHolds == Spec => []TasksInv
<1>1. Init /\ TypeOK => TasksInv
  BY InitialTasks DEF TasksInv
<1>2. TasksInv /\ TypeOK' /\ [Next]_vars => TasksInv'
  BY AnswersStep DEF TasksInv
<1> QED BY <1>1, <1>2, TaskTypes, PTL DEF Spec

\* A task is answered by one submission at most; it is done once it is answered, unless the
\* run has failed it since, and never before.
THEOREM OneAnswer == Spec => []AnsweredOnce
BY TasksInvHolds, PTL DEF TasksInv

\* The answer of a task never changes, and nothing but the run's failTask takes back that
\* the task is done.
THEOREM AnswersStay == Spec => AnsweredStays
<1> DEFINE Kept(t) == /\ AnswersOf(t)' = AnswersOf(t) /\ revision'[t] = revision[t]
                      /\ state'[t] # state[t] => FailTask(t)
<1>1. TasksInv /\ [Next]_vars => [\A t \in Tasks : AnswersOf(t) # {} => Kept(t)]_vars
  <2> SUFFICES ASSUME TasksInv, [Next]_vars, NEW t \in Tasks, AnswersOf(t) # {}
               PROVE  Kept(t)
    OBVIOUS
  <2> USE DEF TasksInv, TypeOK
  <2>1. state[t] \in Over
    BY DEF AnsweredOnce, Over
  <2>2. CASE MinorStep
    BY <2>1, <2>2 DEF MinorStep, Minor, AnswersOf
  <2>3. ASSUME NEW u \in Tasks, FailTask(u) PROVE Kept(t)
    <3>1. UNCHANGED <<revision, answers>> /\ (u = t \/ state'[t] = state[t])
      BY <2>3 DEF FailTask, Move
    <3> QED BY <2>3, <3>1 DEF AnswersOf
  <2>4. ASSUME NEW u \in Tasks, NEW p \in People, NEW k \in Keys, Submit(p, u, k)
        PROVE  Kept(t)
    <3>1. u # t
      BY <2>1, <2>4 DEF Submit, Open, Over
    <3>2. /\ answers' = answers \cup {[task |-> u, revision |-> revision[u] + 1, by |-> p, key |-> k]}
          /\ revision'[t] = revision[t] /\ state'[t] = state[t]
      BY <2>4, <3>1 DEF Submit, Move
    <3>3. AnswersOf(t)' = AnswersOf(t)
      BY <3>1, <3>2 DEF AnswersOf
    <3> QED BY <3>2, <3>3
  <2>5. ASSUME NEW u \in Tasks, NEW new \in Tasks, NEW m \in People, Reopen(m, u, new)
        PROVE  Kept(t)
    <3>1. new # t
      BY <2>1, <2>5 DEF Reopen, Exists, Over
    <3> QED BY <2>5, <3>1 DEF Reopen, AnswersOf
  <2> HIDE DEF Kept
  <2> QED BY <2>2, <2>3, <2>4, <2>5, RowSteps
<1> QED BY <1>1, TasksInvHolds, PTL DEF Spec, AnsweredStays

\* A task leaves its holder only by the holder's act or a manager's.
THEOREM HoldersKeep == Spec => NobodyDispossessed
<1>1. TasksInv /\ [Next]_vars =>
        [\A t \in Tasks : assignee[t] # Nobody /\ assignee'[t] # assignee[t] =>
           \/ Unclaim(assignee[t], t)
           \/ \E q \in People : Delegate(assignee[t], q, t)
           \/ \E m \in Managers, q \in People \cup {Nobody} : Assign(m, q, t)]_vars
  <2> SUFFICES ASSUME TasksInv, Next, NEW t \in Tasks,
                      assignee[t] # Nobody, assignee'[t] # assignee[t]
               PROVE  \/ Unclaim(assignee[t], t)
                      \/ \E q \in People : Delegate(assignee[t], q, t)
                      \/ \E m \in Managers, q \in People \cup {Nobody} : Assign(m, q, t)
    OBVIOUS
  <2> USE DEF TasksInv, TypeOK, HandTo
  <2>1. ASSUME NEW u \in Tasks, NEW p \in People, Unclaim(p, u)
        PROVE  Unclaim(assignee[t], t)
    <3>1. u = t /\ assignee[t] = p
      BY <2>1 DEF Unclaim
    <3> QED BY <2>1, <3>1
  <2>2. ASSUME NEW u \in Tasks, NEW p \in People, NEW q \in People, Delegate(p, q, u)
        PROVE  Delegate(assignee[t], q, t)
    <3>1. u = t /\ assignee[t] = p
      BY <2>2 DEF Delegate
    <3> QED BY <2>2, <3>1
  <2>3. ASSUME NEW u \in Tasks, NEW m \in People, NEW q \in People \cup {Nobody}, Assign(m, q, u)
        PROVE  m \in Managers /\ Assign(m, q, t)
    <3>1. u = t /\ m \in Managers
      BY <2>3 DEF Assign
    <3> QED BY <2>3, <3>1
  <2>4. ASSUME NEW u \in Tasks, NEW p \in People, Claim(p, u) PROVE FALSE
    BY <2>4 DEF Claim
  <2>5. ASSUME NEW u \in Tasks, NEW p \in People, NEW new \in Tasks, Reopen(p, u, new) PROVE FALSE
    BY <2>5 DEF Reopen, Exists, RowsOK, RowOK
  <2>6. ASSUME NEW u \in Tasks, NEW p \in People, NEW k \in Keys,
               Submit(p, u, k)
        PROVE  assignee' = assignee
    BY <2>6 DEF Submit
  <2>7. ASSUME NEW c \in Tabs, Save(c) \/ Abandon(c) \/ \E u \in Drafted : Find(c, u)
        PROVE  assignee' = assignee
    BY <2>7 DEF Save, Abandon, Find, rows
  <2>8. ASSUME NEW u \in Tasks, Activate(u) \/ FailTask(u) PROVE assignee' = assignee
    BY <2>8 DEF Activate, FailTask
  <2>10. CASE Skip
    BY <2>10 DEF Skip
  <2>9. ASSUME NEW u \in Tasks, NEW p \in People, RequestClarification(p, u) PROVE assignee' = assignee
    BY <2>9 DEF RequestClarification
  <2> QED BY <2>1, <2>2, <2>3, <2>4, <2>5, <2>6, <2>7, <2>8, <2>9, <2>10 DEF Next
<1> QED BY <1>1, TasksInvHolds, PTL DEF Spec, NobodyDispossessed

-----------------------------------------------------------------------------
(* Drafts. *)

\* A tab that found a draft holds the lock of its row: what it found is what there is.
FoundInv ==
  \A c \in Tabs : saving[c] # NoSave /\ saving[c].found # 0 =>
    saving[c].found = draft[saving[c].task][UserOf[c]].version

\* What a save does, and that only a save does anything to drafts.
LEMMA DraftSteps ==
  ASSUME TypeOK, [Next]_vars
  PROVE  \/ draft' = draft /\ saving' = saving
         \/ \E c \in Tabs : Save(c)
         \/ \E c \in Tabs : draft' = draft /\ saving' = [saving EXCEPT ![c] = NoSave]
         \/ \E c \in Tabs, t \in Drafted : Find(c, t)
<1>1. ASSUME NEW t \in Tasks, Activate(t) \/ FailTask(t) PROVE draft' = draft /\ saving' = saving
  BY <1>1 DEF Activate, FailTask
<1>8. Skip => draft' = draft /\ saving' = saving
  BY DEF Skip
<1>2. ASSUME NEW t \in Tasks, NEW p \in People,
             Claim(p, t) \/ Unclaim(p, t) \/ RequestClarification(p, t)
      PROVE  draft' = draft /\ saving' = saving
  BY <1>2 DEF Claim, Unclaim, RequestClarification
<1>3. ASSUME NEW t \in Tasks, NEW p \in People, NEW q \in People \cup {Nobody},
             Assign(p, q, t) \/ Delegate(p, q, t)
      PROVE  draft' = draft /\ saving' = saving
  BY <1>3 DEF Assign, Delegate
<1>4. ASSUME NEW t \in Tasks, NEW p \in People, NEW k \in Keys, Submit(p, t, k)
      PROVE  draft' = draft /\ saving' = saving
  BY <1>4 DEF Submit
<1>5. ASSUME NEW t \in Tasks, NEW m \in People, NEW new \in Tasks, Reopen(m, t, new)
      PROVE  draft' = draft /\ saving' = saving
  BY <1>5 DEF Reopen
<1>6. ASSUME NEW c \in Tabs, Abandon(c)
      PROVE  draft' = draft /\ saving' = [saving EXCEPT ![c] = NoSave]
  BY <1>6 DEF Abandon
<1>7. UNCHANGED vars => draft' = draft /\ saving' = saving
  BY DEF vars
<1> QED BY <1>1, <1>2, <1>3, <1>4, <1>5, <1>6, <1>7, <1>8 DEF Next

LEMMA FoundStep ==
  ASSUME TypeOK, FoundInv, [Next]_vars
  PROVE  FoundInv'
<1> USE TasksAssumption DEF TypeOK
<1> SUFFICES ASSUME NEW o \in Tabs, saving'[o] # NoSave, saving'[o].found # 0
             PROVE  saving'[o].found = draft'[saving'[o].task][UserOf[o]].version
  BY DEF FoundInv
<1>1. CASE draft' = draft /\ saving' = saving
  BY <1>1 DEF FoundInv
<1>2. ASSUME NEW c \in Tabs, draft' = draft, saving' = [saving EXCEPT ![c] = NoSave]
      PROVE  saving'[o].found = draft'[saving'[o].task][UserOf[o]].version
  BY <1>2 DEF FoundInv
<1>3. ASSUME NEW c \in Tabs, NEW t \in Drafted, Find(c, t)
      PROVE  saving'[o].found = draft'[saving'[o].task][UserOf[o]].version
  BY <1>3 DEF Find, FoundInv
<1>4. ASSUME NEW c \in Tabs, Save(c)
      PROVE  saving'[o].found = draft'[saving'[o].task][UserOf[o]].version
  <2>1. o # c /\ saving'[o] = saving[o]
    BY <1>4 DEF Save
  <2>2. saving[o].task \in Drafted /\ saving[o].found > 0 /\ UserOf[o] \in People
    BY <2>1 DEF NoSave
  <2>3. saving[c].task \in Drafted /\ UserOf[c] \in People
    BY <1>4 DEF Save, NoSave
  <2>4. saving[o].task # saving[c].task \/ UserOf[o] # UserOf[c]
    BY <1>4, <2>1, <2>2 DEF Save, Locked
  <2>5. draft'[saving[o].task][UserOf[o]] = draft[saving[o].task][UserOf[o]]
    BY <1>4, <2>2, <2>3, <2>4 DEF Save
  <2> QED BY <2>1, <2>2, <2>5 DEF FoundInv
<1> QED BY <1>1, <1>2, <1>3, <1>4, DraftSteps

\* A draft is overwritten only by a tab that found it as it is, or that found none.
THEOREM SavesFindDrafts == Spec => DraftsCompose
<1>1. Init => FoundInv
  BY DEF Init, FoundInv
<1>2. TypeOK /\ FoundInv /\ [Next]_vars => FoundInv'
  BY FoundStep
<1>3. TypeOK /\ FoundInv /\ [Next]_vars =>
        [\A t \in Drafted, p \in People : draft'[t][p] # draft[t][p] =>
           LET c == draft'[t][p].tab IN
           saving[c].task = t /\ saving[c].found \in {0, draft[t][p].version}]_vars
  <2> SUFFICES ASSUME TypeOK, FoundInv, [Next]_vars, NEW t \in Drafted, NEW p \in People,
                      draft'[t][p] # draft[t][p]
               PROVE  LET c == draft'[t][p].tab IN
                      saving[c].task = t /\ saving[c].found \in {0, draft[t][p].version}
    OBVIOUS
  <2>1. PICK c \in Tabs : Save(c)
    BY DraftSteps DEF Find
  <2>2. t = saving[c].task /\ p = UserOf[c] /\ saving[c] # NoSave
    BY <2>1 DEF Save, TypeOK
  <2>3. draft'[t][p].tab = c
    BY <2>1, <2>2 DEF Save, TypeOK
  <2> QED BY <2>2, <2>3 DEF FoundInv
<1> QED BY <1>1, <1>2, <1>3, TaskTypes, PTL DEF Spec, DraftsCompose

=============================================================================
