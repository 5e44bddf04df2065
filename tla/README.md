# Knotline: a verification project

Knotline runs published workflows. A PostgreSQL database holds the state of every
run, task, approval and budget; Temporal executes one workflow function per run;
workers execute that function's activities against the database, agents and
external providers; an API lets people start, steer and answer runs. This
directory holds TLA+ modules translated from that code, TLC configurations that
check them on small plans, and TLAPS proofs of what holds for every plan.

## 1. Inventory

| Component | State it keeps | Operations | Interacts with | Hard behaviour | What makes it correct |
|---|---|---|---|---|---|
| Durable runtime: `apps/worker`, `runtime-repository.ts`, `contracts/runtime.ts` | run row and version, tasks, dependencies, attempts, reservation; the workflow function's own copy of the progress | start, transition, activate, skip, start/complete/fail task, pause, resume, cancel | approvals, human tasks, connectors, agents, admission | retries, lost answers, attempts outliving timeouts, signals between awaits, two records of the same progress | lifecycle of the row, settlement of capacity, agreement of the two records, every run settles |
| Approvals: `approval-repository.ts`, `contracts/approval.ts` | approval, steps, decisions, consumption, SLA timers | create, decide, delegate, remind, revoke, consume, expire | runtime, notifications | decide/revoke/expire/consume races, versions, quorum and sequence | effects only under a consumed approval of the evidence shown |
| Human tasks: `human-task-repository.ts` | task row, assignment, drafts, form output | claim, unclaim, assign, delegate, draft, clarify, submit, reopen, bulk | runtime | submit racing cancel and failure; the signal after the commit | one accepted answer, which reaches the workflow |
| Admission: `startRun`, `operations/reservations.ts` | budget period, reservations | reserve, commit, release | runtime | concurrent starts at the limit, month change | never over the limit, always settled |
| Run API: `app.ts`, `server.ts` | none of its own | routes and signals | runtime, approvals, tasks, Temporal | crash between commit and signal, duplicate requests | one execution of the whole plan |
| Workflow publication: `versioned-workflow-repository.ts` | drafts with a revision, versions, the outbox | load, save by etag, save by batch, publish, restore | runtime, editors | snapshots older than the locks they wait for, revisions that start again with each version | published versions never change, no edit of a version is lost to a page of that version, there is always a draft |
| Triggers: `triggers.ts`, `trigger-repository.ts` | seen keys, sequences, events | ingest, buffer, replay | runtime | duplicates, reordering | one run per event, fair buffering |
| Agent runtime: `agent-runtime/runtime.ts` | execution, turns, usage | execute | gateway, broker, memory | retries of the activity, cancellation, approval stop | it ends within its limits, and success leaves nothing open |
| Model gateway: `model-gateway/gateway.ts` | result cache, circuits, active count | invoke | providers | interleaved calls, retries, repair, circuit races | no duplicate accepted call, slots given back, every call ends |
| Tool broker and sandbox: `tool-broker/broker.ts` | operations and receipts, in memory | execute | providers | ambiguous outcomes, callers that are gone, restarts | no blind repeat, receipts that are true |
| Connectors: `connector-sdk`, `connector-repository.ts` | connections, credentials, receipts | call, refresh | providers | refresh races | current credential |
| Authentication: `auth-repository.ts`, `auth.ts` | sessions and their verifiers | create, authenticate, rotate, revoke, suspend | API | refreshes whose answer is late or lost, half-done revocations, two expiries | one verifier lets in, a replay ends the session, revoked stays out |
| Workspaces, enterprise identity | members, provisioned users | invite, provision | API | - | per row |
| Retrieval, documents, knowledge graph, memory | indexes, records, tombstones | ingest, query, forget | agents | invalidation | no answer from revoked sources |
| Analytics, billing, notifications, collaboration, developer platform, governance, support | their own rows | bookkeeping | API | idempotent jobs | per repository |
| Web application, UI, configuration, tests, tooling, infrastructure | - | - | - | - | not modelled |

`PROJECT.json` lists each with its sources and status, and under `hazards` the
places in this code that tests hardly reach.

## 2. Plan

1. **`RunStates`, `RunLifecycle`, `DurableRun`, `MCDurableRun`** (done): one run
   with every party that acts on it. The heart of the system: all other
   components act through it.
2. **`DurableRunProofs`** (done for every safety property of the run but
   `NoBlindResend` and `StartedWithPlan`, which do not hold).
3. **`Authorization`, `Approval`, `MCApproval`, `ApprovalProofs`** (done): one
   approval with its steps, its approvers and its packet; what it promises to
   the guarded work as an abstract specification. Next: a second approval node,
   and the composition with `DurableRun` (its `approval` column implements
   `Authorization` as well).
4. **`Admission`, `MCAdmission`, `AdmissionProofs`** (done): concurrent starts,
   one hard limit, two months, repeated requests.
5. **`Releases`, `WorkflowVersions`, `MCWorkflowVersions`, `WorkflowVersionsProofs`**
   (done): the versions of one workflow under concurrent editors, and what
   publication promises as an abstract specification.
6. **`HumanTasks`, `MCHumanTasks`, `HumanTasksProofs`** (done): one task, who
   holds and answers it, its reopenings and drafts.
7. **`ModelGateway`, `MCModelGateway`, `ModelGatewayProofs`** (done): interleaved
   invocations of one gateway process.
8. **`AgentTools`, `AgentToolsProofs`** (done): the attempts of one agent task and
   the broker they call.
9. **`Sessions`, `SessionsProofs`** (done): sessions of one user.
10. Left for later: a second approval node, and the composition of `Approval` with `DurableRun`; token rotation of the
    connectors; the pure algorithms (`compileRuntimePlan`, `addBusinessMinutes`)
    against reference definitions.

The runs use two or three actors, one or two faults of each
kind, and limits of one or two units, the least that makes each race possible.

## 3. The modules

`RunStates` holds the tables of `contracts/runtime.ts`. `RunLifecycle` is the
abstract specification of a run: row, version and reservation only. `DurableRun`
is the whole run and refines it. `MCDurableRun` defines three plans.
`DurableRunProofs` holds the theorems. `Approval` and `Admission` look closer at
two parts that `DurableRun` takes for granted: how an approval comes to be
granted, and how a run comes to be admitted. They share no state with it: what
`DurableRun` lets people and the budget do is what these two promise (a grant
used at most once, a reservation made once and settled once). `WorkflowVersions`
(with `Releases`), `HumanTasks`, `ModelGateway`, `AgentTools` and `Sessions` each
model one component beside the run, with concurrency of its own. Definitions
marked *variant* are what a plausible slip would make of the definition that
follows them; no specification uses them.

### `DurableRun`

*State.* `run`, `reservation`, `task`, `dep`, `approval` are database columns.
`answered` and `mail` are what the API has committed and still has to signal.
`started` says whether Temporal was asked to execute the function and with which
plan. `paused`, `cancelled`, `humanDone`, `decision` are the locals the signal
handlers write. `version`, `current`, `routed`, `skips`, `ready`, `active`,
`stopped` are the function's other locals, `pc` the await it has reached. `truth`
is the set of conditional edges whose condition holds under the outputs so far:
it is chosen again whenever an output is added, because a condition may read any
output. `job` is the one activity the function waits for, with `tries`;
`stale` holds attempts nobody waits for any more. `sent` and `unsure` count the
provider calls made, and mark those whose answer was lost.

*Actions.* One operator per transaction (`TransitionRun`, `ActivateTask`,
`SkipTask`, `FailTask`, `CompleteTask`, `StartTask`, `ConsumeApproval`,
`ExpireApproval`), wrapped by `Commit`, which adds each method's early returns
(`NothingToDo`), and `Refused`, its exceptions. One action per await of the
workflow function (`Loop`, `Await`, `Resumed`, `SkipNext`, `ActivateNext`,
`AwaitHuman`, `AwaitApproval`); `Returned` and `Failed` are what it does with
the result of the activity. A connector call takes three steps: task started,
provider called, receipt and completion; an agent takes two. The workers may
finish, raise, die before or after the commit, or be given up after
`startToCloseTimeout` and go on (`AttemptAbandoned`, `StaleStep`). People decide,
revoke, claim, ask for clarification, submit and repeat themselves; the API
signals in a later step, which may fail.

*Between two awaits* the function is not interrupted: signal handlers run only
when it is suspended. `Listening` therefore excludes the synchronous sections
(`loop`, `resumed`, `skips`, `ready`), which the model splits into several steps
only to keep each one small.

*Abstracted.* Outputs, errors and packets; delays (a delay is a system node);
the events, audit rows and SLA timers each transaction also writes; plans whose
edges form a cycle cannot be published.

*Constants.* `Fallible`: nodes whose own work may raise. `Reviewed`: agents that
stop for an approval of a tool. `Bulk`: human nodes completed by the bulk route.
`AutoOutcome`: the policy's outcome on expiry.

### `Approval`

*State.* The columns of `approvals`, the steps' states, the decisions with the
packet each was made on, the consumption's `receipt`, the guarded `task`. `packet`
counts the refreshes: it stands for the packet and its hash alike. `page` is what
each member last loaded (`get`), the version they will send as
`expectedVersion`. `claim` is the hash `consumeForNode` has read before it
updates: the one handler here whose reading takes no lock.

*Actions.* `Load`, `Decide`, `Revoke` by people; `Activate` (with `Refresh`),
`Skip`, `Expire`, `BeginConsumption` and `Consume` or `LoseConsumption` by the
runtime; `PassDeadline` by the clock. `Decide` is `decide` with
`evaluateApproval` (`Evaluate`) and `updateStepStates` (`StepStates`). Deciding
again is refused by the uniqueness of a decision per step and actor. Activation
may happen again after its effect, as every activity may.

*Constants.* `Policies` are the policies a published node may carry; those nobody
can satisfy (`Resolvable`) fail the start. `Alphabet` orders the steps' keys as
`ORDER BY step_order, step_key` does.

### `Admission`

*State.* `periods` are the committed rows of `budget_periods`, each named for the
call that inserted it, with `starts`, `reserved`, `committed` and `stopped`.
`run` and `home` are the run a call started and the period its reservation
belongs to. `txn`, `using`, `locks`, `seen` are the transaction of each call: how
far it is, the period it works with, the rows it has locked and the values it
has read.

*Actions.* A start is `FindDuplicate`, or `Begin`, then `ReadPeriod` (which waits
for the row locks of others) or `InsertPeriod`, then `Admit`, `Deny` or `Abort`;
anything may come in between. `Settle` is the part of `transitionRun` that ends
a run, `SetSpendStop` the billing switch; both wait for locks. The database is
at READ COMMITTED: nobody sees an inserted row before its commit.

*Abstracted.* Plan, tasks and ledger entries of the new run. The first start of
a policy version inserts the entitlement, on which all others wait: the model
begins after it.

### `WorkflowVersions` and `Releases`

*State.* `rows` are the `workflow_versions` of one workflow, `current` its pointer,
`outbox` the announcements. `page` is the draft record each editor was last given
(version, revision and definition: the etag), `call` their request under way.

*Actions.* A transaction at READ COMMITTED decides with one statement: it takes a
snapshot, waits for row locks, and checks each row again. So an operation is two
actions: `BeginSave`, `BeginPublish`, `BeginRestore` take the snapshot (`seen`);
`Save`, `Publish`, `Restore` do the rest with the rows that still qualify
(`Updated`, `Candidates`, `Superseded`). `Check` is the separate transaction in
which `PUT draft` compares the etag, `BeginBatch` the route for operations, which
compares none. `HeldByOthers` is the `FOR SHARE` lock of a restore. `Fail` is
every other end.

`Releases` is the promise to the runs: a version is released once, valid,
announced, unaltered, and after all lower ones.

*Abstracted.* Definitions are opaque; `Publishable` are those without error
findings. Folders, tags, templates and ownership touch none of these columns.

### `HumanTasks`

*State.* `state`, `assignee`, `revision`, `source` are columns of the task and of
those it was reopened as, `answers` the submissions, `draft` version and last
writer of each person's draft, `saving` the save each tab has under way.

*Actions.* One per method. Every method but `saveDraft` is one guarded update
with the assignment's version: a stale request leaves no trace, so the actions
are those of requests that were not stale. `saveDraft` is `Find` (the
`SELECT ... FOR UPDATE`, which locks nothing when there is no row) and `Save`.
`Activate`, `Skip` and `FailTask` are the run's: an environment that may take any of
them at any time, where `DurableRun` says when it does. `FailTask` sets a task to
failed whatever its state (`runtime-repository.ts:865`), an answered one too, as
when the workflow cannot read the answer (`workflows.ts:174`, `225`). `States` are those
some statement writes to a human task's row: `cancelled`, `retry_wait` and `uncertain` are names
of `taskStateSchema` that none writes there. The statements of the run name a task by
its node, so after a reopening several rows answer to it: `skipTask` updates all of
them, `failTask` and `activateTask` take one in no stated order, and so does the model.

*Abstracted.* Forms, eligibility of groups, watchers. A submission's signal to
the run is in `DurableRun`.

### `ModelGateway`

*State.* `active`, `results`, `failures` and `breaker` are the fields of the one
process; `phase`, `attempt`, `repaired` where each invocation awaits. `accepted`
and `rivals` record what the provider accepted, and who was in flight as an
invocation was admitted.

*Actions.* From one await to the next the process runs one invocation alone, and
so does an action: `Admit`, then `Succeed`, `RefuseResult`, `Repair` or `Fail` as
the adapter answers, `Retry` or `Abort` after the pause. The adapter may report
any mix of accepted and retryable. `ResetElapses` is the circuit's clock.
Refusals before the slot is taken change nothing and are no action.

*Abstracted.* One provider model, hence one circuit. Money, content and policies
are the choice between `Succeed` and `RefuseResult`.

### `AgentTools`

*State.* `pc`, `turns`, `toolCalls` are the loop of each attempt, `row` its
`agent_executions` row, `task` the task's. `request` and `reply` are the HTTP call
to the broker; `hash` and `receipt` the broker's operations, in memory only.
`sent` and `effects` count what left for the adapter and what took effect.

*Actions.* The worker: `Begin` an attempt, `Remember` or `CallTool` or `Finish` a
turn, `Hear` the broker, `Complete` the task, and `Stop` or `Die` at any point.
The broker: `Receive` (conflict, known receipt, refusal or call) and
`AdapterAnswers`. Neither `Stop` nor `Die` reaches it: its server passes no
cancellation on. `Restart` replaces it.

*Abstracted.* The model's choices and the adapters' are free. Token, cost and
time limits are `Stop`. Approval of a tool ends the attempt, as the code does.

### `Sessions`

*State.* Columns of `sessions` and `session_verifiers`, the user's `status` and
the clock. `revoking` are revocations between their two statements; `served` and
`replayed` record who was let in and which session saw a superseded verifier.

*Actions.* `Authenticate`, `Rotate` and `Replay` are transactions that lock the
session; they may come with any verifier ever issued. `Revoke` and
`RevokeVerifiers` are two statements outside of one, and `RevokeCutShort` may
come in between.

*Abstracted.* Hashes and cookies: a verifier is its number in the order of issue.

## 4. Runs

| Run | Plan | Faults | Checks |
|---|---|---|---|
| `guarded_faults` | agent → approval → connector, fallback on refusal | 1 lost answer or dead process, 1 abandoned attempt, 1 pause, provider errors, agent stops for review | `SettledWhenEnded`, `ApprovedBeforeExecuted`, `EffectsAuthorized`, `ImplementsLifecycle`, `DoneStaysDone` |
| `draft_restarts` | agent → conditional human edit → publish | 3 lost answers or dead processes, 2 pauses, agent errors, bulk completion | `TypeOK`, `RoutedMatchesTasks`, `WorkIsUnblocked` |
| `fork_fair` | agent → conditional human edit, in parallel with a signature, joined | none; 2 pauses | `ClosedMeansEnded`, `ConsumedMeansExecuted`, `RunSettles`, `CancelEnds` |
| `approval_steps` | two steps, three members, three policies (quorum; sequential with `all`; the requester may sign) and one nobody can satisfy | 2 refreshes, repeated activation and consumption | `GrantedUnderPolicy`, `ConsumedAsGranted`, `DecidesKnowingly`, `ImplementsAuthorization` |
| `admission_races` | four calls: a request, its copy, one of another workflow, a larger one | aborts anywhere | `PeriodWithinLimit`, `BooksBalance`, `StartedOnce`, `StopHolds` |
| `workflow_edits` | two editors, a valid and a broken definition, four versions of two revisions | requests ending anywhere | `DraftSurvives`, `EditsCompose`, `ImplementsReleases` |
| `human_tasks` | a member with two tabs, a manager, a task and two reopenings; the run activates, skips and fails | saves abandoned | `AnsweredOnce`, `AnsweredStays`, `NobodyDispossessed`, `DraftsCompose` |
| `model_gateway` | three invocations, two of one structured operation | every mix of provider errors, aborts, circuit opening | `SlotsBalance`, `NeverReplayed`, `AnsweredOnce`, `EveryCallEnds` |
| `agent_tools` | two attempts, two tools (one reviewed), two inputs | worker deaths and timeouts at any point, one restart of the broker | `SentOnce`, `ReceiptsTruthful`, `SucceededIsSettled`, `ExecutionEnds` |
| `sessions` | two sessions, three verifiers each | revocations cut short, lost and late answers | `OneWayIn`, `ReplayEndsIt`, `StaysOut` |

*Bounds.* `MaxLost` counts lost answers, dead workers and dead API processes,
`MaxAbandoned` attempts left running, `MaxPauses` pause signals. One fault of
each kind lets every activity be interrupted at every point; three lost answers
exhaust `maximumAttempts`, the only counter in the code. Four nodes are enough
for an approval with both of its exits, a batch of two ready nodes, a skip and a
join. `MaxRefreshes = 2` gives a packet before, between and after two signatures;
two steps of two approvers give quorum, order and the requester's exclusion.
Three request keys let two starts race for a period that a third has inserted;
`HardLimit = 2` is reached by two small runs or the large one, and `LastMonth = 1`
lets a run end after its month. One key on two workflows needs a fifth call and
two minutes more; it was checked once and adds only aborted starts.
`MaxVersion = 4` lets a publication and a restore race and be followed by another;
two revisions suffice for a draft that changes under a page. Two tabs and two
keys give each race of `HumanTasks` its two parties, three tasks a task reopened
twice or a reopening reopened. Three invocations on two slots fill the gateway;
`RetryLimit = 2` lets a repair and a retry meet, `Threshold = 2` lets two failures
open a circuit that a third call's success closes. Two attempts of three turns
and two calls repeat a tool with the same and with another input. `Idle = 1`,
`Absolute = 2` and `MaxTime = 3` reach both expiries; three verifiers leave two
superseded.
`CHECK_DEADLOCK FALSE` everywhere: a run, an approval and a set of calls really
end.

*Fairness* (`FairSpec`). Weak fairness of the start of the execution, of the
workflow function's steps (Temporal schedules workflow tasks and fires timers),
of attempts (workers poll) and of signal delivery, node by node (the API handler
that committed an answer goes on to signal, whatever other handlers do). People owe nothing, so `RunSettles` allows a run
that is paused or waits for someone's answer. No fairness concerns faults, and
the liveness runs of `DurableRun` have none. In `ModelGateway`, `Answer` and `Retry` are
weakly fair for each invocation: the adapters are given the deadline's signal,
and timers fire; nothing is assumed of deadlines, callers or the circuit. In
`AgentTools`, `Proceed` is weakly fair for each attempt: the model answers with
something, the loop goes on, the broker and its adapters, which have a timeout,
answer; nobody has to cancel, die or restart.

### Where the code differs from its documentation

Two runs expect a violation. Each checks one property taken from a document of
the repository; `findings` quotes the line.

| Run | What TLC finds |
|---|---|
| `worker_restart` | a worker dies after `transitionRun` committed; the retry is refused, the versions drift apart, and the function returns with the row still open |
| `stale_writer` | an editor's page is of the version before; the new draft starts at revision 1 again, so a batch with the old revision overwrites a definition its sender has never seen |

More differences show in the model without a run of their own; TLC finds each
with the property and the constants named.

- `NoBlindResend` fails with the `Guarded` plan and `Fallible = {"deliver"}`: a
  provider call whose answer was lost is made again
  (`docs/operations/knotline/durable-runtime.md:31`: an ambiguous response "cannot retry
  automatically").
- `WorkIsUnblocked` fails with the `Guarded` plan and no fault when the approval
  expires: the fallback is refused by the dependencies expiry left pending (the
  implementation plan, line 3240, lists `fallback_edge` among the failure policies).
- `StartedWithPlan` fails with the `Fork` plan and `MaxLost = 1`: the API dies after
  the commit, and the repeated start executes an empty plan (`README.md:177`: "a
  stable workflow ID makes start recovery idempotent").
- `RunSettles` fails under `FairSpec` with the `Draft` plan and `Bulk = {"edit"}`: a
  task completed in bulk is never signalled (plan, line 6258: "typed task output
  correctly resumes dependent workflow nodes").
- `PayloadApproved` fails with the constants of `approval_steps`: an approver signs
  the packet of the start, activation replaces it, another signs the new one, and
  the grant counts both (plan, line 1972: the payload validated at execution must
  equal the approved one).
- `MonthWithinLimit` fails with the constants of `admission_races`: two starts both
  insert a period for the month and are each checked against its whole limit
  (plan, line 458: reservations keep concurrent work from overspending a limit).

In `DurableRun`: `ConsumedMeansExecuted` fails in `fork_fair` with `MaxLost = 1` (a
worker dies after `consumeForNode` committed; the retry finds the approval
consumed and raises, `approval-repository.ts:511`, and the approved node is failed,
while `docs/operations/knotline/approvals-and-sla.md:21` calls a restart safe);
`RoutedMatchesTasks` fails in `draft_restarts` with `Reviewed = {"draft"}` (an
agent that stops for a tool approval counts as succeeded, `workflows.ts:219`);
a task that was failed or skipped is not safe from an attempt that outlived its timeout:
with `MaxAbandoned = 1` such an attempt starts or completes it (task rows are written
without comparing a version), which is why `DoneStaysDone` speaks of tasks that are
done, and allows `failTask` to take that back until the workflow has counted the task; `RoutedMatchesTasks` fails without any fault when a condition leads to a
person's task beside another branch: after a pause the pass evaluates the condition
again (`runtimeEdgeSelected`, `workflows.ts:146`), finds it false, and the workflow
records as skipped a task somebody has claimed or answered; and the nodes left in a batch are activated after a cancel signal
(`workflows.ts:165`), so `cancelled /\ pc' = "activating"` is reachable.

In `Approval`: after the first decision `updateStepStates` makes every pending step
active, so a sequential policy's later step can be decided first; the grant then
still waits for all of them (`OutOfOrder` never changes the outcome). `cancel` is
reserved to the requester and still asks for an eligible approver of an active
step, so a requester who may not sign cannot cancel. An abstention in an `all`
step leaves it short of a signature until the approval expires. A delegation
changes nobody's rights.

In `WorkflowVersions`: nothing in the schema keeps a workflow to one draft, and a
publication that crosses a restore, or two restores, leave two; the newest is
edited, and a later publication of the older one is refused by the key of the next version.

In `HumanTasks`: the run may mark an answered task as failed (`failTask`), with the
answer kept, and after a reopening `readTaskOutput` may read the row of the new task,
which has no output yet; an answered task can still be claimed, assigned and delegated;
`waiting` for a clarification leads nowhere, since no operation takes a task out of
it; a task reopened twice gives two answers with the same revision; and two tabs
that both found no draft overwrite each other without a conflict.

In `ModelGateway`: two invocations of one operation in flight together are both
sent and both paid for, and the later answer replaces the cached one
(`AnsweredOnce` allows just that); a success that was under way when the circuit
opened closes it; a deadline that passes during a call counts against the
provider, one that passes during a pause does not.

In `AgentTools`: every attempt is an execution of its own with operations of its
own, so the effects of a failed attempt are repeated by the next, although
`docs/operations/knotline/agent-runtime-and-memory.md:25` says that an uncertain outcome
"must not be replayed automatically"; the broker's memory is lost at a restart
(`tool-broker-and-sandbox.md:34`: "the broker never blindly repeats it"); one tool
called with two inputs in one execution is refused as a conflict, which ends the
execution; a call whose output is too large took effect and leaves no receipt; a
cancelled worker's call goes on at the broker; and an execution journaled as
succeeded becomes failed when the completion of its task throws.

In `Sessions`: a refresh whose answer is lost signs the user out at the next
request; `rotateSession` does not ask whether the user is suspended; an expiry or
a suspension closes the session but leaves its verifier active; only a refresh
advances the idle expiry; and a verifier that was *revoked*, not only one that was
rotated (`authentication-security.md:98`), counts as a replay.

In `Admission`: a request key is free once per workspace for reservations and once
per workflow for runs, so the same key on a second workflow is always refused
(`KeyFree`). A spending stop is lost at the end of the month, since the next
period is inserted without it.

The passing runs and the violations do not contradict each other: the properties
that fail are checked in the passing runs on plans or under faults that cannot
reach the flaw, and the ones proved hold under all of them.

## 5. Proofs

### The run

`DurableRunProofs` proves, from `PlanAssumption` and `BoundsAssumption` only:

- `TypeCorrect`: `Spec => []TypeOK`. `TypeOK` is inductive as it stands; one
  lemma per group of steps (`CommitTypes`, `LocalStepTypes`, `ReturnedTypes`,
  `AgainTypes`, `WorkerStepTypes`, `PeopleTypes`, `SignalTypes`). It includes
  that no activity is tried more than `MaximumAttempts` times.
- `CapacitySettled`: `Spec => []SettledWhenEnded`. `RowSteps` shows that only
  `TransitionRun` touches the row and the reservation, from whichever attempt it
  is called; `TransitionFacts` that it starts from a run that has not ended.
- `LifecycleImplemented`: `Spec => ImplementsLifecycle`, the refinement of
  `RunLifecycle`. Every step maps to a move, an end or a stutter; that an end
  finds the reservation unsettled comes from `CapacitySettled`.
- `ApprovalsHonoured`: `Spec => []ApprovedBeforeExecuted`. Not inductive alone:
  an attempt already on its way could complete the node. `ApprovalInv` adds that
  every attempt, awaited or not, that would complete an approval node carries a
  consumed approval, and that the workflow consumes the approval of the node in
  progress. `ConsumedStays` shows that consumption is for good.
- `EffectsBehindApprovals`: `Spec => []EffectsAuthorized`. A call to a provider is
  decided long before it happens, so `EffectInv` carries the fact along the way:
  what the workflow routed to success is an approval node only if its approval was
  consumed (`RoutedConsumed`), hence every node of the batch and the one in
  progress has a way in that is authorized (`BatchAuthorized`), and so has every
  connector attempt, awaited or stale (`JobAuthorized`). It uses `ApprovalInv`: the
  workflow leaves "consuming" only by the answer of the consumption of that node.

- `DoneKept`: `Spec => DoneStaysDone`. `PerformTask` shows that of all that attempts do, only a
  failure changes a task that is done. A failure may come long after it was asked for, when its
  attempt has outlived its timeout; `LateInv` therefore says of each such attempt that
  the workflow is recording the failure of that node, has routed it to failed, or is
  closing (`Failing`), and `FailingStays` that this does not change, so that the node
  is never counted as done.

These six hold for every plan, also a cyclic one, and every number of faults. So do two
facts the rest is built on:

- `OneNodeInHand`: `Spec => []FlowInv`. `JobInv`: the activity the function waits for is the
  one its place calls, for the node in hand. `QueueInv`: nothing that is still to be
  skipped or activated waits for another node. `PlaceInv`: the node in hand has not been
  routed and is in hand once; a stopped run only leaves.
- `DependantsTold`: `Spec => []DepsInv`. A dependency that is still pending is on a task that
  has not ended, or on an approval node's that expired.

The other properties fail under some faults (section 4), and their theorems name what is
left out. Each hypothesis is a bound that is zero or a condition on the plan:

- `MaxAbandoned = 0`: no attempt outlives its timeout. Otherwise it rewrites tasks behind
  the workflow's back.
- `MaxLost = 0`: no answer, worker or API process is lost. Otherwise a retried transition is
  refused by its own fence, and a retried consumption by its own effect.
- `Recorded(n)`: `n` is no agent that stops for review, and if it is a person's task it is
  `Steady`: it has no condition on its way in, or no other node can be routed while it
  waits. Otherwise a pause lets its condition be evaluated again, with later outputs.
- `TrueTo(n)`: also, an approval node has no failure edge: expiry fails the task
  without telling the dependants, so what is behind such an edge stays blocked.
- `Executable`: no approval node's own work can raise, and what is before an approval
  node is `TrueTo`.

The plans of `draft_restarts` and `fork_fair` satisfy the hypotheses of the theorems whose
properties they check.

- `RecordKept` (`MaxAbandoned = 0`, every node `Recorded`): `Spec => []RoutedMatchesTasks`, under
  lost answers, restarts and pauses. The record and the task change in different
  steps, so the invariant has to say what a task can be before its node is routed:
  `EndlessInv` (it has not ended, or is being ended by the activity in hand, or was
  completed by a person), `ChosenInv` (a person's task is opened only when its turn
  has come and it was selected, and is not skipped after that) and `AnswersInv`
  (whoever is told that a person answered can read the answer). `RoutedNow` puts
  them together at the step that routes the node, `RecordStep` shows that nothing
  touches the task afterwards. `RecordInv` is per node: one node that is not
  `Recorded` does not spoil the others.
- `WorkUnblocked` (`MaxAbandoned = 0`, every source of an edge `TrueTo`):
  `Spec => []WorkIsUnblocked`. By `RecordInv` and `DepsInv`, only an approval that was routed to
  failed can leave a dependant waiting; `UntoldInv` says that it then stops the run, or
  has told them.
- `ClosedEnded` (no losses, that is `MaxLost = 0` and `MaxAbandoned = 0`): `Spec => []ClosedMeansEnded`. `FenceInv`: at each place of the
  function its copy of state and version is the row's, or one step behind the request
  in flight. `MoveAllowed` concludes that the fence lets every request through,
  `OnlyWorkFails` that nothing but a node's work or a consumption can fail,
  `NoCleanUp` that the outer catch never finds a node in hand.
- `ConsumedExecuted` (no losses, `Executable`): `Spec => []ConsumedMeansExecuted`. `ConsumedInv`: a
  consumed approval's work is done or in hand. `UndoneInv`: the work in hand, and the failure
  that is being recorded, is of a task that has not ended. `SpentInHand` shows that only the
  workflow consumes, for the node in hand; `WorkKept` that approved work in hand is
  neither refused (`WorkUnblocked`, node by node) nor dropped.

### Approvals

`ApprovalProofs` proves, from `ApprovalAssumption` only, for every policy and any
number of members, steps and refreshes:

- `ApprovalTypes`: `TypeOK`, inductive as it stands.
- `GrantsSigned`: `Spec => []GrantedUnderPolicy`. `GrantInv` adds that a granted
  approval's decisions evaluate to approved and that nobody
  approved their own request against the policy; the rest is what `Evaluate` says about each step.
- `DecisionsInformed`: `Spec => DecidesKnowingly`. `PageInv`: no page is of a later
  version than the row, and a page of the row's version shows the row's
  decisions, since every step that adds a decision advances the version.
- `AuthorizationImplemented`: `Spec => ImplementsAuthorization`. `ReceiptInv`: a
  receipt is left by a consumption only.
- `ConsumptionMatches`: `Spec => []ConsumedAsGranted`. `PacketInv`: while the approval
  is granted or consumed, some approving decision is on the stored packet, and an
  open approval's decisions do not evaluate to approved. It
  needs that the decision which completes the evaluation is an approval: any
  other outcome cannot turn `Evaluate` to approved.

### Admission

`AdmissionProofs` proves, from `AdmissionAssumption` only, for every set of calls and
every limit:

- `AdmissionTypes`: `TypeOK`, inductive as it stands.
- `LimitRespected`: `Spec => []PeriodWithinLimit`. `Ownership` says who may touch
  which row: a row is committed by the call it is named for, locks are held by
  open transactions only and are disjoint. `ReadingInv` then says that what an
  open transaction has read of its period is still true: the row lock makes check
  and reservation one step.
- `StopRespected`: `Spec => StopHolds`, from `ReadingInv`.
- `OneRunPerRequest`: `Spec => []StartedOnce`, from the uniqueness of keys.
- `BooksKept`: `Spec => []BooksBalance`. `Balanced` says it of every period, also of
  one that is not committed yet, in which nothing is booked. The sums need a small
  theory of their own: `UnitsOf` folds over a set in an unspecified order, and
  `UnitsOfFacts` shows that it is nevertheless an integer that grows by the units of a
  call that joins and shrinks by those of one that leaves. Three inductions are behind
  it, each put as a least counterexample (`LeastNumber`, `LeastSubset`): that the
  recursive function `UnitsOf` chooses exists (`SumExists`), that it is the same
  function for every set (`UnitsOfIsSum`), and that any element may be taken first
  (`SumTakesAny`).

### Workflow versions

`WorkflowVersionsProofs` proves, from `VersionsAssumption` only, for any number of
editors, definitions, versions and revisions:

- `VersionTypes`: `TypeOK`, `DraftAlways`: `DraftSurvives`. Both are parts of
  `VersionsInv`, which adds that versions are numbered without a gap and that
  requests under way name versions that exist.
- `SavesCompose`: `Spec => EditsCompose`. Whoever replaces a draft's definition has a page
  at the draft's revision; `PagesOK` says that a page of this version and revision
  shows the current definition (every replacement advances the revision, and within
  a version revisions never go back). A page of another version may be at the same
  revision and show anything: `EditsCompose` says no more of it, and `stale_writer`
  shows it replace a definition.
- `ReleasesImplemented`: `Spec => ImplementsReleases`. A publication releases the
  newest of the drafts; `KeyFree` and the absence of gaps give that no higher version
  was released; every other step stutters.

### Human tasks

`HumanTasksProofs` proves, from `TasksAssumption` only, for any number of people,
tabs and reopenings, and whenever the run activates, skips or fails a task: `TaskTypes`;
`OneAnswer` (`[]AnsweredOnce`) and `AnswersStay` (`AnsweredStays`) from `TasksInv`,
which adds that the task a task was reopened from is done or failed, so that its
revision no longer changes (`AnswersStep` for the three steps that touch what is
answered or over, `QuietRows` for all others); `HoldersKeep` (`NobodyDispossessed`); and
`SavesFindDrafts` (`DraftsCompose`) from `FoundInv`: what a tab that holds the lock
has found is still the draft's version.

### Model gateway

`ModelGatewayProofs` proves, from `GatewayAssumption` only, for any number of
invocations and every limit: `GatewayTypes`, `SlotsBalanced` (`SlotsBalance`),
`AcceptedOnce` (`NeverReplayed`) and `OneAnswerPerOperation` (`AnsweredOnce`).
`GatewayInv` adds what an invocation's phase says of its attempt, that an answered
operation stays cached, and that of two invocations of one operation the later
was admitted while the earlier was in flight, or the earlier has not been
answered. `SlotsBalance` needs the cardinality of `InFlight` with one added or removed.

### Agent tools

`AgentToolsProofs` proves, from `AgentAssumption` only, for any number of attempts,
tools, inputs, turns and restarts: `AgentTypes`, `OperationsSentOnce` (`SentOnce`),
`ReceiptsTell` (`ReceiptsTruthful`) and `SucceededSettled` (`SucceededIsSettled`).
`AgentInv` says of each execution how its loop, its request, its reply and its
operations belong together: above all, that an operation that was sent has a receipt,
is at its adapter, or belongs to a loop that has ended or will end on the error
it is about to hear.

### Sessions

`SessionsProofs` proves, from `SessionsAssumption` only, for any number of sessions
and verifiers and every expiry: `SessionTypes`, `OneVerifier` (`OneWayIn`),
`ReplaysEnd` (`ReplayEndsIt`), `RevokedStaysOut` (`StaysOut`), and `IdleBounded`,
that the idle expiry stays within the absolute one (`IdleWithinAbsolute`, which no
run checks besides).

### Only model-checked

Every safety property that a passing run checks is the statement of a theorem. The
liveness properties `RunSettles`, `CancelEnds`, `EveryCallEnds` and `ExecutionEnds`
stay with TLC: liveness is beyond the prover. What the theorems of the run leave out, their hypotheses, is where
the code fails them.

## 6. Not modelled

The components with status `not_modelled` in `PROJECT.json`, each with its reason.
They fall into three kinds. Data transformation and input/output: retrieval,
documents, the knowledge graph, workflow generation, the web application. Rows
with one guarded transaction per operation and no protocol between them:
workspaces, memory, agents and evaluation, task administration, the product
repositories. Code that nothing calls yet: the gate and the buffer of the triggers
are used by tests only, and ingestion fills a dispatch queue that nothing takes
from. The connectors' token rotation is the one protocol that is left.

Within the modelled components: event and audit rows, SLA reminders,
notifications, authorization of the caller, request validation, and the parsing
and evaluation of expressions. Most of the repository's lines are of these kinds
or are schemas, routes, pages and tests, which is why the modules map a small
share of them.
