----------------------------- MODULE HumanTasks -----------------------------
(***************************************************************************)
(* One human task of a run and the tasks it is reopened as                 *)
(* (packages/db/src/human-task-repository.ts): who holds it, who answers   *)
(* it, and the drafts kept on the way.  A request carries the version that *)
(* its page was given and is refused unless that is the current one, which *)
(* leaves no trace: the requests below are those that were not stale.      *)
(* Drafts are the exception: saving one is two statements, and other       *)
(* requests come between.  The run is an environment here, which reaches   *)
(* the node, skips it or fails it at any time (DurableRun says when).      *)
(***************************************************************************)
EXTENDS Integers, FiniteSets

CONSTANTS
  People,       \* members of the workspace
  Managers,     \* those with workflow.manage
  Tabs,         \* requests in flight for drafts
  UserOf,       \* whose tab it is
  Nobody,       \* no assignee; also no author
  Keys,         \* idempotency keys of submissions
  MaxTasks,     \* bound on the tasks of the node
  Drafted,      \* the tasks whose drafts are followed
  MaxDraft      \* bound on the versions of a draft

ASSUME TasksAssumption ==
  /\ Managers \subseteq People /\ Nobody \notin People
  /\ UserOf \in [Tabs -> People]
  /\ MaxTasks \in Nat \ {0} /\ MaxDraft \in Nat /\ Drafted \subseteq 1..MaxTasks

Tasks == 1..MaxTasks
\* What is written to the row of a human task; "cancelled", "retry_wait" and "uncertain"
\* are names no statement writes.
States == {"absent", "pending", "ready", "running", "waiting", "succeeded", "failed", "skipped"}
Open == {"ready", "running"}

VARIABLES
  state,        \* task_runs.state
  assignee,     \* human_task_details.assignee_user_id
  revision,     \* human_task_details.output_revision
  source,       \* reopened_from_task_id; 0 for the task of the run itself
  answers,      \* human_task_submissions
  draft,        \* human_task_drafts: version and last writer, per task and person
  saving        \* per tab, the draft being saved

vars == <<state, assignee, revision, source, answers, draft, saving>>
rows == <<state, assignee, revision, source>>

Answer == [task : Tasks, revision : Nat, by : People, key : Keys]
NoDraft == [version |-> 0, tab |-> Nobody]
NoSave == [task |-> 0, found |-> 0]

Init ==
  /\ \E s \in {"pending", "ready"} : state = [t \in Tasks |-> IF t = 1 THEN s ELSE "absent"]
  /\ \E p \in People \cup {Nobody} : assignee = [t \in Tasks |-> IF t = 1 THEN p ELSE Nobody]
  /\ revision = [t \in Tasks |-> 0]
  /\ source = [t \in Tasks |-> 0]
  /\ answers = {}
  /\ draft = [t \in Drafted |-> [p \in People |-> NoDraft]]
  /\ saving = [c \in Tabs |-> NoSave]

Exists(t) == state[t] # "absent"
Move(t, from, to) == state' = [state EXCEPT ![t] = IF @ \in from THEN to ELSE @]
HandTo(t, p) == assignee' = [assignee EXCEPT ![t] = p]

-----------------------------------------------------------------------------
\* The run reaches the node, or routes around it: skipTask is one UPDATE of every task
\* of the node that is still pending or ready.
Activate(t) ==
  /\ state[t] = "pending" /\ Move(t, {"pending"}, "ready")
  /\ UNCHANGED <<assignee, revision, source, answers, draft, saving>>

Skippable == {"pending", "ready"}
Skip ==
  /\ \E t \in Tasks : state[t] \in Skippable
  /\ state' = [t \in Tasks |-> IF state[t] \in Skippable THEN "skipped" ELSE state[t]]
  /\ UNCHANGED <<assignee, revision, source, answers, draft, saving>>

\* failTask, when the answer could not be read, or the node not be activated or left: it
\* takes one of the node's tasks, whatever its state, an answered one among them.
FailTask(t) ==
  /\ Exists(t) /\ state[t] # "failed"
  /\ Move(t, States, "failed")
  /\ UNCHANGED <<assignee, revision, source, answers, draft, saving>>

-----------------------------------------------------------------------------
\* claim: a free task, whatever its state.
ClaimTaken(p, t) ==   \* variant: only the version is compared
  /\ Exists(t)
  /\ HandTo(t, p) /\ Move(t, {"ready"}, "running")
  /\ UNCHANGED <<revision, source, answers, draft, saving>>
Claim(p, t) ==
  /\ Exists(t) /\ assignee[t] = Nobody
  /\ HandTo(t, p) /\ Move(t, {"ready"}, "running")
  /\ UNCHANGED <<revision, source, answers, draft, saving>>

\* unclaim: back to the queue.
UnclaimAnswered(p, t) ==   \* variant: the task is ready again, whatever it was
  /\ Exists(t) /\ assignee[t] = p
  /\ HandTo(t, Nobody) /\ Move(t, States, "ready")
  /\ UNCHANGED <<revision, source, answers, draft, saving>>
Unclaim(p, t) ==
  /\ Exists(t) /\ assignee[t] = p
  /\ HandTo(t, Nobody) /\ Move(t, {"running"}, "ready")
  /\ UNCHANGED <<revision, source, answers, draft, saving>>

Delegate(p, q, t) ==
  /\ Exists(t) /\ assignee[t] = p /\ p # q
  /\ HandTo(t, q)
  /\ UNCHANGED <<state, revision, source, answers, draft, saving>>

\* assign and bulk assign: to a person, or to a group that its members claim from.
Assign(m, q, t) ==
  /\ Exists(t) /\ m \in Managers
  /\ HandTo(t, q)
  /\ UNCHANGED <<state, revision, source, answers, draft, saving>>

RequestClarification(p, t) ==
  /\ assignee[t] = p /\ state[t] \in Open
  /\ Move(t, Open, "waiting")
  /\ UNCHANGED <<assignee, revision, source, answers, draft, saving>>

\* submit, and bulk complete task by task.  A key that was used is answered with the
\* submission it made, without a change.
Used(t, k) == \E a \in answers : a.task = t /\ a.key = k

SubmitTwice(p, t, k) ==   \* variant: the version alone tells that a task is open
  /\ assignee[t] = p /\ Exists(t) /\ ~Used(t, k)
  /\ answers' = answers \cup {[task |-> t, revision |-> revision[t] + 1, by |-> p, key |-> k]}
  /\ revision' = [revision EXCEPT ![t] = @ + 1]
  /\ Move(t, States, "succeeded")
  /\ UNCHANGED <<assignee, source, draft, saving>>
Submit(p, t, k) ==
  /\ assignee[t] = p /\ state[t] \in Open /\ ~Used(t, k)
  /\ answers' = answers \cup {[task |-> t, revision |-> revision[t] + 1, by |-> p, key |-> k]}
  /\ revision' = [revision EXCEPT ![t] = @ + 1]
  /\ Move(t, Open, "succeeded")
  /\ UNCHANGED <<assignee, source, draft, saving>>

\* reopen: an answered task is left as it is; a new one carries its revision on.
Reopen(m, t, new) ==
  /\ m \in Managers /\ state[t] = "succeeded" /\ ~Exists(new)
  /\ \A u \in Tasks : u < new => Exists(u)
  /\ state' = [state EXCEPT ![new] = "ready"]
  /\ assignee' = [assignee EXCEPT ![new] = Nobody]
  /\ revision' = [revision EXCEPT ![new] = revision[t]]
  /\ source' = [source EXCEPT ![new] = t]
  /\ UNCHANGED <<answers, draft, saving>>

-----------------------------------------------------------------------------
\* saveDraft: SELECT ... FOR UPDATE locks the row of the draft, if there is one.
NoLock(c, t) == FALSE   \* variant: the draft is read without FOR UPDATE
Locked(c, t) ==
  \E o \in Tabs \ {c} : /\ UserOf[o] = UserOf[c]
                        /\ saving[o].task = t /\ saving[o].found > 0

Find(c, t) ==
  /\ saving[c] = NoSave /\ Exists(t) /\ ~Locked(c, t)
  /\ saving' = [saving EXCEPT ![c] = [task |-> t, found |-> draft[t][UserOf[c]].version]]
  /\ UNCHANGED <<rows, answers, draft>>

\* INSERT ... ON CONFLICT DO UPDATE, whatever version the conflicting row has.
Save(c) ==
  LET t == saving[c].task p == UserOf[c] IN
  /\ saving[c] # NoSave /\ ~Locked(c, t) /\ draft[t][p].version < MaxDraft
  /\ draft' = [draft EXCEPT ![t][p] = [version |-> @.version + 1, tab |-> c]]
  /\ saving' = [saving EXCEPT ![c] = NoSave]
  /\ UNCHANGED <<rows, answers>>

\* The page's version is not the one found, or the connection is lost.
Abandon(c) ==
  /\ saving[c] # NoSave
  /\ saving' = [saving EXCEPT ![c] = NoSave]
  /\ UNCHANGED <<rows, answers, draft>>

Next ==
  \/ Skip
  \/ \E t \in Tasks :
       \/ Activate(t) \/ FailTask(t)
       \/ \E p \in People :
            \/ Claim(p, t) \/ Unclaim(p, t) \/ RequestClarification(p, t)
            \/ \E q \in People : Delegate(p, q, t)
            \/ \E q \in People \cup {Nobody} : Assign(p, q, t)
            \/ \E k \in Keys : Submit(p, t, k)
            \/ \E new \in Tasks : Reopen(p, t, new)
  \/ \E c \in Tabs : Save(c) \/ Abandon(c) \/ \E t \in Drafted : Find(c, t)

Spec == Init /\ [][Next]_vars

-----------------------------------------------------------------------------
TypeOK ==
  /\ state \in [Tasks -> States]
  /\ assignee \in [Tasks -> People \cup {Nobody}]
  /\ revision \in [Tasks -> Nat]
  /\ source \in [Tasks -> {0} \cup Tasks]
  /\ answers \subseteq Answer
  /\ draft \in [Drafted -> [People -> [version : Nat, tab : Tabs \cup {Nobody}]]]
  /\ saving \in [Tabs -> {NoSave} \cup [task : Drafted, found : Nat]]

\* A task is answered by one submission at most, whoever raced for it and however often
\* a submission was sent, and its revision follows the one of the task it was reopened
\* from.  An answered task is done unless the run has failed it since, and no other task
\* is done (submit, reopen, bulk; failTask).
AnswersOf(t) == {a \in answers : a.task = t}
Before(t) == IF source[t] = 0 THEN 0 ELSE revision[source[t]]
AnsweredOnce ==
  \A t \in Tasks :
    IF AnswersOf(t) = {}
    THEN revision[t] = Before(t) /\ state[t] # "succeeded"
    ELSE /\ \E a \in answers : AnswersOf(t) = {a} /\ a.revision = revision[t]
         /\ revision[t] = Before(t) + 1
         /\ state[t] \in {"succeeded", "failed"}

\* An answer is final: nothing changes it or adds another, and of what may still be done
\* to its task - claim it, return it to the queue, delegate, assign, reopen or skip it -
\* only the run's own failTask takes back that it is done.
AnsweredStays ==
  [][\A t \in Tasks : AnswersOf(t) # {} =>
       /\ AnswersOf(t)' = AnswersOf(t) /\ revision'[t] = revision[t]
       /\ state'[t] # state[t] => FailTask(t)]_vars

\* A task leaves its holder only by the holder's own act or a manager's, so that of two
\* people who claim a task one is refused (claim, delegate, assign).
NobodyDispossessed ==
  [][\A t \in Tasks : assignee[t] # Nobody /\ assignee'[t] # assignee[t] =>
       \/ Unclaim(assignee[t], t)
       \/ \E q \in People : Delegate(assignee[t], q, t)
       \/ \E m \in Managers, q \in People \cup {Nobody} : Assign(m, q, t)]_vars

\* A draft is overwritten only by a tab that found it as it is: no edit of another tab is
\* lost.  The exception is a tab that found no draft at all, whose save replaces what
\* other tabs wrote meanwhile (saveDraft).
DraftsCompose ==
  [][\A t \in Drafted, p \in People : draft'[t][p] # draft[t][p] =>
       LET c == draft'[t][p].tab IN
       saving[c].task = t /\ saving[c].found \in {0, draft[t][p].version}]_vars

=============================================================================
