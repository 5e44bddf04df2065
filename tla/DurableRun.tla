----------------------------- MODULE DurableRun -----------------------------
(***************************************************************************)
(* One run of a published workflow, from the row the API inserts to the    *)
(* row's last state.  Four parties act on it:                              *)
(*   - the workflow function durableWorkflowRun                            *)
(*     (apps/worker/src/workflows.ts), deterministic code that keeps its   *)
(*     own copy of the progress (routed, current, version) and acts only   *)
(*     by calling activities, one at a time;                               *)
(*   - the workers that run the activities (apps/worker/src/activities.ts):*)
(*     an activity is tried at most three times, an attempt may commit     *)
(*     without its answer arriving, and an attempt given up after          *)
(*     startToCloseTimeout may still be running;                           *)
(*   - the database (packages/db/src/runtime-repository.ts and             *)
(*     approval-repository.ts), where each method is one transaction;      *)
(*   - the people, through the API: they decide, submit, revoke, pause,    *)
(*     resume and cancel at any time, and the API tells the workflow in a  *)
(*     second step, by a signal.                                           *)
(* The plan is constant: a graph of nodes and edges.  Outputs, errors and  *)
(* conditions are abstracted to what routing needs: which conditions hold  *)
(* under the outputs so far, chosen anew whenever an output is added.      *)
(***************************************************************************)
EXTENDS Naturals, FiniteSets, RunStates

CONSTANTS
  Nodes,         \* the keys of the plan's nodes
  Kind,          \* Kind[n]: "system", "human", "approval", "agent" or "connector"
  Edges,         \* [source, target, path] records, path "default" or "failure"
  Conditional,   \* the edges that carry a condition
  Fallible,      \* the nodes whose own work may raise an error
  Reviewed,      \* the agents that stop for a human review of their output
  Bulk,          \* the human nodes completed through the bulk route
  AutoOutcome,   \* what an approval node's expiry writes in the approval
  None,          \* no node
  MaxLost,       \* bound on lost answers, dead workers and dead API processes
  MaxAbandoned,  \* bound on attempts left running after their timeout
  MaxPauses      \* bound on pause signals

Edge == [source : Nodes, target : Nodes, path : {"default", "failure"}]

ASSUME PlanAssumption ==
  /\ IsFiniteSet(Nodes) /\ None \notin Nodes
  /\ Kind \in [Nodes -> {"system", "human", "approval", "agent", "connector"}]
  /\ Edges \subseteq Edge /\ Conditional \subseteq Edges
  /\ Fallible \subseteq Nodes /\ Reviewed \subseteq Nodes /\ Bulk \subseteq Nodes
  /\ AutoOutcome \in [Nodes -> {"EXPIRED", "REJECTED", "CANCELLED"}]

ASSUME BoundsAssumption == MaxLost \in Nat /\ MaxAbandoned \in Nat /\ MaxPauses \in Nat

\* retry.maximumAttempts of the activity proxies.
MaximumAttempts == 3

Into(n) == {e \in Edges : e.target = n}
OutOf(n) == {e \in Edges : e.source = n}
HasFailureEdge(n) == \E e \in OutOf(n) : e.path = "failure"

\* The rows of task_dependencies: <<task, the task it depends on>>.
Dependencies == {<<e.target, e.source>> : e \in Edges}

VARIABLES
  \* the database
  run,          \* workflow_runs: [state, version]
  reservation,  \* admission_reservations.state
  task,         \* task_runs.state, per node
  dep,          \* task_dependencies.state, per dependency
  approval,     \* approvals.state, per node ("none" where there is no approval)
  answered,     \* the nodes somebody decided, or submitted by the task's own route
  \* Temporal's side of the run, and the signals on their way to it
  started,      \* "no", or the plan the execution was started with: "full", "empty"
  mail,         \* answers committed whose signal has not been sent yet
  paused, cancelled, humanDone, decision,  \* what the signal handlers have set
  \* the workflow function
  pc, version, current, routed, truth, skips, ready, active, stopped,
  \* the activity it waits for, and attempts it no longer waits for
  job, tries, stale,
  \* the connectors' providers: calls made, and calls whose outcome is not known
  sent, unsure,
  \* how much of each bound has been used
  lost, abandoned, pauses

db == <<run, reservation, task, dep, approval>>
signals == <<paused, cancelled, humanDone, decision>>
flow == <<pc, version, current, routed, truth, skips, ready, active, stopped>>
bounds == <<lost, abandoned, pauses>>
provider == <<sent, unsure>>
vars == <<db, answered, started, mail, signals, flow, job, tries, stale, provider, bounds>>

-----------------------------------------------------------------------------
(* Jobs: one activity invocation. *)

NoMove == [from |-> "queued", to |-> "queued", version |-> 0]
Move == [from : RunState, to : RunState, version : Nat]
Act == {"none", "transition", "activate", "skip", "read", "fail", "consume", "expire",
        "complete", "agent", "connector"}
Job == [act : Act, node : Nodes \cup {None}, move : Move,
        phase : {"start", "send", "finish"}]

NoJob == [act |-> "none", node |-> None, move |-> NoMove, phase |-> "start"]
OnTask(act, n) == [act |-> act, node |-> n, move |-> NoMove, phase |-> "start"]
OnRun(from, to, v) ==
  [act |-> "transition", node |-> None, phase |-> "start",
   move |-> [from |-> from, to |-> to, version |-> v]]

\* The activity that does the work of a node.
WorkOf(n) ==
  OnTask(IF Kind[n] \in {"agent", "connector"} THEN Kind[n] ELSE "complete", n)

\* An agent and a connector call commit in several transactions.
Final(j) == j.phase = (IF j.act \in {"agent", "connector"} THEN "finish" ELSE "start")
Following(j) ==
  [j EXCEPT !.phase = IF j.act = "connector" /\ j.phase = "start" THEN "send" ELSE "finish"]

-----------------------------------------------------------------------------
(* The database: one operator per transaction. *)

OwedTo(n) == {d \in Dependencies : d[2] = n}   \* variant: the join's columns swapped
Owing(n) == {d \in Dependencies : d[1] = n}
Blocked(n) == \E d \in Owing(n) : dep[d] = "pending"

\* Every dependency on n whose state is in from takes the state to.
SettleDependents(n, from, to) ==
  dep' = [d \in Dependencies |-> IF d[2] = n /\ dep[d] \in from THEN to ELSE dep[d]]

DepState == {"pending", "satisfied", "failed", "skipped"}

\* transitionRun: compare-and-set on state and version, and the settlement of
\* the reservation when the run ends.
TransitionUnfenced(m) ==   \* variant: state_version is not compared
  m.to \in RunTransition[m.from] /\ run.state = m.from
TransitionAllowed(m) ==
  m.to \in RunTransition[m.from] /\ run = [state |-> m.from, version |-> m.version]
TransitionRunKeepingCancelled(m) ==   \* variant: a cancelled run keeps its capacity
  /\ TransitionAllowed(m)
  /\ run' = [state |-> m.to, version |-> m.version + 1]
  /\ reservation' = IF m.to \in TerminalRun \ {"cancelled"} /\ reservation = "reserved"
                      THEN Settlement(m.to) ELSE reservation
  /\ UNCHANGED <<task, dep, approval>>
TransitionRun(m) ==
  /\ TransitionAllowed(m)
  /\ run' = [state |-> m.to, version |-> m.version + 1]
  /\ reservation' = IF m.to \in TerminalRun /\ reservation = "reserved"
                      THEN Settlement(m.to) ELSE reservation
  /\ UNCHANGED <<task, dep, approval>>

ActivateTask(n) ==
  /\ task' = [task EXCEPT ![n] = IF @ = "pending" THEN "ready" ELSE @]
  /\ UNCHANGED <<run, reservation, dep, approval>>

SkipTaskAlone(n) ==   \* variant: the dependants are not told
  /\ task[n] \in {"pending", "ready"}
  /\ task' = [task EXCEPT ![n] = "skipped"]
  /\ approval' = [approval EXCEPT ![n] = IF @ \in OpenApproval THEN "CANCELLED" ELSE @]
  /\ UNCHANGED <<run, reservation, dep>>
SkipTask(n) ==
  /\ task[n] \in {"pending", "ready"}
  /\ task' = [task EXCEPT ![n] = "skipped"]
  /\ SettleDependents(n, {"pending"}, "skipped")
  /\ approval' = [approval EXCEPT ![n] = IF @ \in OpenApproval THEN "CANCELLED" ELSE @]
  /\ UNCHANGED <<run, reservation>>

\* failTask: whatever the task was, it is failed now.
FailTask(n) ==
  /\ task[n] # "failed"
  /\ task' = [task EXCEPT ![n] = "failed"]
  /\ SettleDependents(n, {"pending"}, "failed")
  /\ UNCHANGED <<run, reservation, approval>>

CompleteTask(n) ==
  /\ task[n] # "succeeded"
  /\ ~Blocked(n)
  /\ task' = [task EXCEPT ![n] = "succeeded"]
  /\ SettleDependents(n, DepState, "satisfied")
  /\ UNCHANGED <<run, reservation, approval>>

StartTaskAgain(n) ==   \* variant: only a task that is running is left alone
  /\ task[n] # "running"
  /\ ~Blocked(n)
  /\ task' = [task EXCEPT ![n] = "running"]
  /\ UNCHANGED <<run, reservation, dep, approval>>
StartTask(n) ==
  /\ task[n] \notin {"running", "succeeded"}
  /\ ~Blocked(n)
  /\ task' = [task EXCEPT ![n] = "running"]
  /\ UNCHANGED <<run, reservation, dep, approval>>

ConsumeApproval(n) ==
  /\ approval[n] = "APPROVED_PENDING_EXECUTION"
  /\ approval' = [approval EXCEPT ![n] = "CONSUMED"]
  /\ UNCHANGED <<run, reservation, task, dep>>

Expirable == OpenApproval \cup {"APPROVED_PENDING_EXECUTION"}
ExpireApproval(n) ==
  /\ approval[n] \in Expirable
  /\ approval' = [approval EXCEPT ![n] = AutoOutcome[n]]
  /\ task' = [task EXCEPT ![n] = IF @ \in {"ready", "running"} THEN "failed" ELSE @]
  /\ UNCHANGED <<run, reservation, dep>>

-----------------------------------------------------------------------------
(* Attempts: what one phase of a job does to the database and the providers. *)

\* The phases that call completeSyntheticTask last, and those that call startTask.
Completes(j) ==
  \/ j.act = "complete"
  \/ j.act = "agent" /\ j.phase = "finish"
  \/ j.act = "connector" /\ j.phase = "finish"
Starts(j) == j.act \in {"agent", "connector"} /\ j.phase = "start"

\* The transaction finds its work already done, or nothing to do.
NothingToDoOnceDecided(j) ==   \* variant: consuming an approval nobody granted is no error
  \/ j.act = "read"
  \/ j.act = "skip" /\ task[j.node] \notin {"pending", "ready"}
  \/ j.act = "fail" /\ task[j.node] = "failed"
  \/ j.act = "expire" /\ approval[j.node] \notin Expirable
  \/ j.act = "consume" /\ approval[j.node] # "APPROVED_PENDING_EXECUTION"
  \/ Completes(j) /\ task[j.node] = "succeeded"
  \/ Starts(j) /\ task[j.node] \in {"running", "succeeded"}
NothingToDo(j) ==
  \/ j.act = "read"
  \/ j.act = "skip" /\ task[j.node] \notin {"pending", "ready"}
  \/ j.act = "fail" /\ task[j.node] = "failed"
  \/ j.act = "expire" /\ approval[j.node] \notin Expirable
  \/ Completes(j) /\ task[j.node] = "succeeded"
  \/ Starts(j) /\ task[j.node] \in {"running", "succeeded"}

\* The transaction raises: STALE_RUN_FENCE, CONSUMPTION_LOST_CAS or
\* TASK_DEPENDENCIES_PENDING.
Refused(j) ==
  \/ j.act = "transition" /\ ~TransitionAllowed(j.move)
  \/ j.act = "consume" /\ approval[j.node] # "APPROVED_PENDING_EXECUTION"
  \/ Completes(j) /\ task[j.node] # "succeeded" /\ Blocked(j.node)
  \/ Starts(j) /\ task[j.node] \notin {"running", "succeeded"} /\ Blocked(j.node)

\* The work of the node raises before anything is committed or sent.
WorkRaises(j) ==
  /\ j.node \in Fallible
  /\ \/ j.act = "complete"
     \/ j.act = "agent" /\ j.phase = "finish"
     \/ j.act = "connector" /\ j.phase \in {"start", "send"}

Commit(j) ==
  \/ NothingToDo(j) /\ UNCHANGED db
  \/ j.act = "transition" /\ TransitionRun(j.move)
  \/ j.act = "activate" /\ ActivateTask(j.node)
  \/ j.act = "skip" /\ SkipTask(j.node)
  \/ j.act = "fail" /\ FailTask(j.node)
  \/ j.act = "consume" /\ ConsumeApproval(j.node)
  \/ j.act = "expire" /\ ExpireApproval(j.node)
  \/ Completes(j) /\ CompleteTask(j.node)
  \/ Starts(j) /\ StartTask(j.node)

IsSend(j) == j.act = "connector" /\ j.phase = "send"

\* The provider is called; it answers, or its answer is lost.
CallProvider(n) == sent' = [sent EXCEPT ![n] = @ + 1] /\ UNCHANGED unsure
CallProviderUnanswered(n) ==
  sent' = [sent EXCEPT ![n] = @ + 1] /\ unsure' = unsure \cup {n}

Perform(j) ==
  \/ ~IsSend(j) /\ Commit(j) /\ UNCHANGED provider
  \/ IsSend(j) /\ CallProvider(j.node) /\ UNCHANGED db

\* An agent that stops for review answers without completing its task.
StopsForReview(j) == j.act = "agent" /\ j.phase = "finish" /\ j.node \in Reviewed

-----------------------------------------------------------------------------
(* The workflow function: local steps, and the calls it makes. *)

PlanNodes == IF started = "full" THEN Nodes ELSE {}
Unrouted == {n \in PlanNodes : routed[n] = "pending"}

Call(p, j) == pc' = p /\ job' = j /\ tries' = 1
Goto(p) == pc' = p /\ job' = NoJob /\ tries' = 0

\* await recordRunTransition: stateVersion advances whether or not it succeeds.
RequestMove(p, from, to) ==
  Call(p, OnRun(from, to, version)) /\ version' = version + 1

\* The outer catch: fail the node in progress, then the run.
Throw ==
  IF active # None /\ active \in Unrouted
    THEN Call("closefail", OnTask("fail", active)) /\ UNCHANGED version
    ELSE RequestMove("failing", current, "failed")

\* runtimeEdgeSelected, with the condition's value in truth.
EdgeSelectedByAnyEnd(e) ==   \* variant: the path type is not compared with the outcome
  /\ routed[e.source] \in {"succeeded", "failed"}
  /\ e \in Conditional => e \in truth
EdgeSelected(e) ==
  /\ routed[e.source] = (IF e.path = "failure" THEN "failed" ELSE "succeeded")
  /\ e \in Conditional => e \in truth
Selected(n) == Into(n) = {} \/ \E e \in Into(n) : EdgeSelected(e)

Settled == {n \in Unrouted : \A e \in Into(n) : routed[e.source] # "pending"}

\* One pass over the plan: the nodes whose predecessors are all routed are
\* skipped or made ready.
Pass ==
  IF Settled = {} THEN Throw /\ UNCHANGED <<ready, skips>>
  ELSE /\ ready' = {n \in Settled : Selected(n)}
       /\ skips' = {n \in Settled : ~Selected(n)}
       /\ Goto("skips")
       /\ UNCHANGED version

Terminals == {n \in PlanNodes : routed[n] = "succeeded" /\ OutOf(n) = {}}

\* After the loop.
FinishCancellingAtOnce ==   \* variant: "cancelling" is left out
  /\ IF cancelled THEN RequestMove("ending", current, "cancelled")
     ELSE IF stopped THEN RequestMove("stopping", current, "policy_stopped")
     ELSE IF Cardinality(Terminals) = 1 THEN RequestMove("succeeding", current, "succeeded")
     ELSE Throw
  /\ UNCHANGED <<ready, skips>>
Finish ==
  /\ IF cancelled THEN RequestMove("cancelling", current, "cancelling")
     ELSE IF stopped THEN RequestMove("stopping", current, "policy_stopped")
     ELSE IF Cardinality(Terminals) = 1 THEN RequestMove("succeeding", current, "succeeded")
     ELSE Throw
  /\ UNCHANGED <<ready, skips>>

\* The top of the loop.  An execution that is paused here has been cancelled.
Loop ==
  /\ pc = "loop"
  /\ IF cancelled \/ stopped \/ Unrouted = {} THEN Finish
     ELSE IF paused /\ current = "running"
       THEN RequestMove("pausing", "running", "paused") /\ UNCHANGED <<ready, skips>>
     ELSE Pass
  /\ UNCHANGED <<current, routed, truth, active, stopped>>

\* Paused: wait for resume or cancel.  A cancel goes on to one more pass.
AwaitResume ==   \* variant: the wait does not watch cancelled
  /\ pc = "await"
  /\ ~paused
  /\ IF cancelled THEN Pass
     ELSE RequestMove("resuming", "paused", "running") /\ UNCHANGED <<ready, skips>>
  /\ UNCHANGED <<current, routed, truth, active, stopped>>
Await ==
  /\ pc = "await"
  /\ ~paused \/ cancelled
  /\ IF cancelled THEN Pass
     ELSE RequestMove("resuming", "paused", "running") /\ UNCHANGED <<ready, skips>>
  /\ UNCHANGED <<current, routed, truth, active, stopped>>

Resumed ==
  /\ pc = "resumed"
  /\ Pass
  /\ UNCHANGED <<current, routed, truth, active, stopped>>

SkipNext ==
  /\ pc = "skips"
  /\ IF skips = {} THEN Goto("ready")
     ELSE \E n \in skips : Call("skipping", OnTask("skip", n))
  /\ UNCHANGED <<version, current, routed, truth, skips, ready, active, stopped>>

ActivateNext ==
  /\ pc = "ready"
  /\ IF ready = {} THEN Goto("loop") /\ UNCHANGED <<ready, active>>
     ELSE \E n \in ready :
            /\ Call("activating", OnTask("activate", n))
            /\ active' = n
            /\ ready' = ready \ {n}
  /\ UNCHANGED <<version, current, routed, truth, skips, stopped>>

\* Waiting for people: cancel and pause leave the batch, the rest of ready dropped.
Leave ==
  /\ cancelled \/ paused
  /\ Goto("loop")
  /\ ready' = {}
  /\ UNCHANGED <<version, current, routed, truth, skips, active, stopped>>

Answer(p, j) ==
  /\ ~cancelled /\ ~paused
  /\ Call(p, j)
  /\ UNCHANGED <<version, current, routed, truth, skips, ready, active, stopped>>

AwaitAnySignal ==   \* variant: whatever wakes the wait is taken for the answer
  /\ pc = "waiting" /\ Kind[active] = "human"
  /\ \/ Leave
     \/ Answer("reading", OnTask("read", active))
AwaitHuman ==
  /\ pc = "waiting" /\ Kind[active] = "human"
  /\ \/ Leave
     \/ active \in humanDone /\ Answer("reading", OnTask("read", active))

AwaitApproval ==
  /\ pc = "waiting" /\ Kind[active] = "approval"
  /\ \/ Leave
     \/ decision[active] = "approve" /\ Answer("consuming", OnTask("consume", active))
     \/ /\ decision[active] \notin {"none", "approve"}
        /\ Answer("refusing", OnTask("fail", active))
     \/ decision[active] = "none" /\ Answer("expiring", OnTask("expire", active))

WorkflowStep ==
  /\ Loop \/ Await \/ Resumed \/ SkipNext \/ ActivateNext \/ AwaitHuman \/ AwaitApproval
  /\ UNCHANGED <<db, answered, started, mail, signals, stale, provider, bounds>>

-----------------------------------------------------------------------------
(* What the workflow does with the end of an activity. *)

\* Node n is routed to the state s, and its output is in scope.
Route(n, s) ==
  /\ routed' = [routed EXCEPT ![n] = s]
  /\ truth' \in SUBSET Conditional

\* An activity returned.
Returned ==
  \/ /\ pc = "starting" /\ Goto("loop")
     /\ UNCHANGED <<version, current, routed, truth, skips, ready, active, stopped>>
  \/ /\ pc = "pausing" /\ Goto("await") /\ current' = "paused"
     /\ UNCHANGED <<version, routed, truth, skips, ready, active, stopped>>
  \/ /\ pc = "resuming" /\ Goto("resumed") /\ current' = "running"
     /\ UNCHANGED <<version, routed, truth, skips, ready, active, stopped>>
  \/ /\ pc = "skipping" /\ Goto("skips")
     /\ Route(job.node, "skipped")
     /\ skips' = skips \ {job.node}
     /\ UNCHANGED <<version, current, ready, active, stopped>>
  \/ /\ pc = "activating"
     /\ IF Kind[active] \in {"human", "approval"} THEN Goto("waiting")
        ELSE Call("working", WorkOf(active))
     /\ UNCHANGED <<version, current, routed, truth, skips, ready, active, stopped>>
  \/ /\ pc = "consuming" /\ Call("working", OnTask("complete", active))
     /\ UNCHANGED <<version, current, routed, truth, skips, ready, active, stopped>>
  \/ /\ pc \in {"reading", "working"} /\ Goto("ready") /\ Route(active, "succeeded") /\ active' = None
     /\ UNCHANGED <<version, current, skips, ready, stopped>>
  \/ /\ pc = "refusing" /\ Goto("ready") /\ Route(active, "failed") /\ active' = None
     /\ UNCHANGED <<version, current, skips, ready, stopped>>
  \/ /\ pc = "expiring" /\ Route(active, "failed") /\ active' = None
     /\ IF HasFailureEdge(active)
          THEN Goto("ready") /\ UNCHANGED <<ready, stopped>>
          ELSE Goto("loop") /\ stopped' = TRUE /\ ready' = {}
     /\ UNCHANGED <<version, current, skips>>
  \/ /\ pc = "recording" /\ Route(active, "failed") /\ active' = None
     /\ IF HasFailureEdge(active) THEN Goto("ready") /\ UNCHANGED version
        ELSE RequestMove("failing", current, "failed")
     /\ UNCHANGED <<current, skips, ready, stopped>>
  \/ /\ pc = "closefail" /\ RequestMove("failing", current, "failed")
     /\ UNCHANGED <<current, routed, truth, skips, ready, active, stopped>>
  \/ /\ pc = "cancelling" /\ RequestMove("ending", "cancelling", "cancelled")
     /\ UNCHANGED <<current, routed, truth, skips, ready, active, stopped>>
  \/ /\ pc \in {"ending", "stopping", "succeeding", "failing"} /\ Goto("closed")
     /\ UNCHANGED <<version, current, routed, truth, skips, ready, active, stopped>>

\* An activity failed for the last time.
Failed ==
  /\ \/ pc \in {"starting", "closefail", "failing"} /\ Goto("closed") /\ UNCHANGED version
     \/ /\ pc \in {"reading", "consuming", "working", "expiring", "refusing"}
        /\ Call("recording", OnTask("fail", active))
        /\ UNCHANGED version
     \/ /\ pc \in {"pausing", "resuming", "skipping", "activating", "recording",
                   "cancelling", "ending", "stopping", "succeeding"}
        /\ Throw
  /\ UNCHANGED <<current, routed, truth, skips, ready, active, stopped>>

\* An attempt failed or was given up: try again from its start, or give up.
AgainForever ==   \* variant: no maximumAttempts
  /\ tries' = tries + 1
  /\ job' = [job EXCEPT !.phase = "start"]
  /\ UNCHANGED flow
Again ==
  \/ /\ tries < MaximumAttempts
     /\ tries' = tries + 1
     /\ job' = [job EXCEPT !.phase = "start"]
     /\ UNCHANGED flow
  \/ tries = MaximumAttempts /\ Failed

-----------------------------------------------------------------------------
(* The workers. *)

Working == job # NoJob

AttemptProgresses ==
  /\ Working /\ ~Final(job)
  /\ Perform(job)
  /\ job' = Following(job)
  /\ UNCHANGED <<flow, tries, stale, bounds>>

AttemptReturns ==
  /\ Working /\ Final(job)
  /\ Perform(job) \/ (StopsForReview(job) /\ UNCHANGED <<db, provider>>)
  /\ Returned
  /\ UNCHANGED <<stale, bounds>>

AttemptRaises ==
  /\ Working
  /\ Refused(job) \/ WorkRaises(job)
  /\ Again
  /\ UNCHANGED <<db, provider, stale, bounds>>

\* The provider may have done what it was asked, but its answer never came.
AnswerLost ==
  /\ Working /\ IsSend(job) /\ job.node \in Fallible
  /\ CallProviderUnanswered(job.node)
  /\ Again
  /\ UNCHANGED <<db, stale, bounds>>

\* The attempt commits; the worker dies before Temporal hears of it.
AttemptLosesAnswer ==
  /\ Working /\ lost < MaxLost
  /\ Perform(job)
  /\ Again
  /\ lost' = lost + 1
  /\ UNCHANGED <<stale, abandoned, pauses>>

\* The worker dies before the attempt commits.
AttemptDies ==
  /\ Working /\ lost < MaxLost
  /\ Again
  /\ lost' = lost + 1
  /\ UNCHANGED <<db, provider, stale, abandoned, pauses>>

\* startToCloseTimeout passes while the attempt still runs.
AttemptAbandoned ==
  /\ Working /\ abandoned < MaxAbandoned
  /\ stale' = stale \cup {job}
  /\ Again
  /\ abandoned' = abandoned + 1
  /\ UNCHANGED <<db, provider, lost, pauses>>

\* An abandoned attempt goes on, ends, or dies; nobody hears of it.
StaleStep ==
  /\ \E j \in stale :
       \/ Perform(j) /\ stale' = (stale \ {j}) \cup (IF Final(j) THEN {} ELSE {Following(j)})
       \/ stale' = stale \ {j} /\ UNCHANGED <<db, provider>>
  /\ UNCHANGED <<flow, job, tries, bounds>>

WorkerStep ==
  /\ \/ AttemptProgresses \/ AttemptReturns \/ AttemptRaises \/ AnswerLost
     \/ AttemptLosesAnswer \/ AttemptDies \/ AttemptAbandoned \/ StaleStep
  /\ UNCHANGED <<answered, started, mail, signals>>

-----------------------------------------------------------------------------
(* The API: starting the execution. *)

Reachable == started # "no" /\ pc # "closed"

\* The function's code between two awaits is not interrupted by signal handlers.
Listening == Reachable /\ pc \notin {"loop", "resumed", "skips", "ready"}

\* Temporal starts an execution of the function with the given plan.
Begin(plan) ==
  /\ started' = plan
  /\ paused' = FALSE /\ cancelled' = FALSE
  /\ humanDone' = {} /\ decision' = [n \in Nodes |-> "none"]
  /\ current' = "running" /\ stopped' = FALSE
  /\ routed' = [n \in Nodes |-> "pending"] /\ truth' \in SUBSET Conditional
  /\ skips' = {} /\ ready' = {} /\ active' = None
  /\ version' = 2
  /\ Call("starting", OnRun("queued", "running", 1))
  /\ UNCHANGED <<db, answered, mail, stale, provider, abandoned, pauses>>

\* The request that inserted the run, or the repair tool after it died.
DispatchRun == started = "no" /\ Begin("full") /\ UNCHANGED lost

\* The same request sent again: startRun finds the run and returns no plan.
\* Temporal refuses the start only while an execution is open.
RedispatchRun ==
  /\ started = "no" \/ pc = "closed"
  /\ lost < MaxLost
  /\ Begin("empty")
  /\ lost' = lost + 1

-----------------------------------------------------------------------------
(* The people, and the signals that carry their answers. *)

Decisive == {"APPROVED_PENDING_EXECUTION", "REJECTED", "REVISION_REQUESTED", "CANCELLED"}

\* approvalSignalOutcome.
SignalOf(s) ==
  IF s = "APPROVED_PENDING_EXECUTION" THEN "approve"
  ELSE IF s = "REJECTED" THEN "reject"
  ELSE IF s = "REVISION_REQUESTED" THEN "request_changes"
  ELSE "cancel"
Outcome == {"approve", "reject", "request_changes", "cancel"}

\* An approver decides; the decision may complete the approval.
Decide(n) ==
  /\ approval[n] \in OpenApproval
  /\ \E s \in Decisive \cup {"IN_REVIEW"} :
       /\ approval' = [approval EXCEPT ![n] = s]
       /\ mail' = IF s \in Decisive THEN mail \cup {<<n, SignalOf(s)>>} ELSE mail
  /\ answered' = answered \cup {n}
  /\ UNCHANGED <<run, reservation, task, dep>>

Revoke(n) ==
  /\ approval[n] = "APPROVED_PENDING_EXECUTION"
  /\ approval' = [approval EXCEPT ![n] = "REVOKED"]
  /\ UNCHANGED <<run, reservation, task, dep, answered, mail>>

\* claim and unclaim, on the task's state.
Claim(n) ==
  /\ Kind[n] = "human"
  /\ \/ task[n] = "ready" /\ task' = [task EXCEPT ![n] = "running"]
     \/ task[n] = "running" /\ task' = [task EXCEPT ![n] = "ready"]
  /\ UNCHANGED <<run, reservation, dep, approval, answered, mail>>

RequestClarification(n) ==
  /\ Kind[n] = "human" /\ task[n] \in {"ready", "running"}
  /\ task' = [task EXCEPT ![n] = "waiting"]
  /\ UNCHANGED <<run, reservation, dep, approval, answered, mail>>

\* submit: the assignee's form completes the task, whatever the run is doing.
\* Only the route of the single task goes on to signal the workflow.
Submit(n) ==
  /\ Kind[n] = "human" /\ task[n] \in {"ready", "running"}
  /\ task' = [task EXCEPT ![n] = "succeeded"]
  /\ SettleDependents(n, DepState, "satisfied")
  /\ UNCHANGED <<run, reservation, approval>>
SubmitUnsignalled(n) ==   \* variant: the route forgets the workflow
  Submit(n) /\ answered' = answered \cup {n} /\ UNCHANGED mail
SubmitForm(n) ==
  Submit(n) /\ answered' = answered \cup {n} /\ mail' = mail \cup {<<n, "done">>}
SubmitInBulk(n) == n \in Bulk /\ Submit(n) /\ UNCHANGED <<answered, mail>>

\* The same answer sent again under its idempotency key: nothing is written,
\* the signal is sent again.
AnswerAgain(n) ==
  /\ n \in answered
  /\ \/ Kind[n] = "human" /\ mail' = mail \cup {<<n, "done">>}
     \/ /\ Kind[n] = "approval" /\ approval[n] \in Decisive
        /\ mail' = mail \cup {<<n, SignalOf(approval[n])>>}
  /\ UNCHANGED <<db, answered>>

People ==
  /\ \E n \in Nodes :
       \/ Decide(n) \/ Revoke(n) \/ Claim(n) \/ RequestClarification(n)
       \/ SubmitForm(n) \/ SubmitInBulk(n) \/ AnswerAgain(n)
  /\ UNCHANGED <<started, signals, flow, job, tries, stale, provider, bounds>>

\* The API passes on one of the answers to node n.
Signal(n) ==
  /\ Listening
  /\ \E m \in mail :
       /\ m[1] = n
       /\ mail' = mail \ {m}
       /\ IF m[2] = "done"
            THEN humanDone' = humanDone \cup {n} /\ UNCHANGED decision
            ELSE decision' = [decision EXCEPT ![n] = m[2]] /\ UNCHANGED humanDone
  /\ UNCHANGED <<db, answered, started, paused, cancelled, flow, job, tries, stale,
                 provider, bounds>>
SendSignal == \E n \in Nodes : Signal(n)

\* There is no open execution to signal, or the API process dies before it does.
SignalFails ==
  /\ \E m \in mail : mail' = mail \ {m}
  /\ \/ ~Reachable /\ UNCHANGED lost
     \/ lost < MaxLost /\ lost' = lost + 1
  /\ UNCHANGED <<db, answered, started, signals, flow, job, tries, stale, provider,
                 abandoned, pauses>>

\* POST pauses, resumptions and cancellations.
Pause ==
  /\ Listening /\ ~paused /\ pauses < MaxPauses
  /\ paused' = TRUE /\ pauses' = pauses + 1
  /\ UNCHANGED <<cancelled, humanDone, decision, lost, abandoned>>

Resume ==
  /\ Listening /\ paused
  /\ paused' = FALSE
  /\ UNCHANGED <<cancelled, humanDone, decision, bounds>>

Cancel ==
  /\ Listening /\ ~cancelled
  /\ cancelled' = TRUE /\ paused' = FALSE
  /\ UNCHANGED <<humanDone, decision, bounds>>

Control ==
  /\ Pause \/ Resume \/ Cancel
  /\ UNCHANGED <<db, answered, started, mail, flow, job, tries, stale, provider>>

-----------------------------------------------------------------------------
Init ==
  /\ run = [state |-> "queued", version |-> 1]
  /\ reservation = "reserved"
  /\ task = [n \in Nodes |-> IF Into(n) = {} THEN "ready" ELSE "pending"]
  /\ dep = [d \in Dependencies |-> "pending"]
  /\ approval = [n \in Nodes |-> IF Kind[n] = "approval" THEN "PENDING" ELSE "none"]
  /\ answered = {} /\ mail = {}
  /\ started = "no"
  /\ paused = FALSE /\ cancelled = FALSE
  /\ humanDone = {} /\ decision = [n \in Nodes |-> "none"]
  /\ pc = "idle" /\ version = 1 /\ current = "running"
  /\ routed = [n \in Nodes |-> "pending"] /\ truth \in SUBSET Conditional
  /\ skips = {} /\ ready = {} /\ active = None /\ stopped = FALSE
  /\ job = NoJob /\ tries = 0 /\ stale = {}
  /\ sent = [n \in Nodes |-> 0] /\ unsure = {}
  /\ lost = 0 /\ abandoned = 0 /\ pauses = 0

Next ==
  \/ DispatchRun \/ RedispatchRun
  \/ WorkflowStep \/ WorkerStep
  \/ People \/ SendSignal \/ SignalFails \/ Control

Spec == Init /\ [][Next]_vars

\* What Temporal and the API keep doing: start the execution, run workflow
\* tasks and timers, schedule attempts, deliver signals.  People owe nothing.
Attempt ==
  /\ AttemptProgresses \/ AttemptReturns \/ AttemptRaises
  /\ UNCHANGED <<answered, started, mail, signals>>

FairSpec ==
  /\ Spec
  /\ WF_vars(DispatchRun) /\ WF_vars(WorkflowStep) /\ WF_vars(Attempt)
  /\ \A n \in Nodes : WF_vars(Signal(n))

-----------------------------------------------------------------------------
(* Properties. *)

WorkflowPc ==
  {"idle", "starting", "loop", "await", "pausing", "resuming", "resumed", "skips", "skipping",
   "ready", "activating", "waiting", "reading", "consuming", "working", "expiring", "refusing",
   "recording", "closefail", "failing", "cancelling", "ending", "stopping", "succeeding",
   "closed"}

DatabaseTypeOK ==
  /\ run \in [state : RunState, version : Nat]
  /\ reservation \in {"reserved", "finalized", "released"}
  /\ task \in [Nodes -> TaskState]
  /\ dep \in [Dependencies -> DepState]
  /\ approval \in [Nodes -> ApprovalState]

SignalsTypeOK ==
  /\ answered \subseteq Nodes
  /\ mail \subseteq Nodes \X (Outcome \cup {"done"})
  /\ started \in {"no", "full", "empty"}
  /\ paused \in BOOLEAN /\ cancelled \in BOOLEAN
  /\ humanDone \subseteq Nodes
  /\ decision \in [Nodes -> Outcome \cup {"none"}]

FlowTypeOK ==
  /\ pc \in WorkflowPc
  /\ version \in Nat
  /\ current \in {"running", "paused"}
  /\ routed \in [Nodes -> {"pending", "succeeded", "failed", "skipped"}]
  /\ truth \subseteq Conditional
  /\ skips \subseteq Nodes /\ ready \subseteq Nodes
  /\ active \in Nodes \cup {None}
  /\ stopped \in BOOLEAN

ActivityTypeOK ==
  /\ job \in Job /\ stale \subseteq Job
  /\ tries \in 0..MaximumAttempts
  /\ sent \in [Nodes -> Nat] /\ unsure \subseteq Nodes

BoundsTypeOK ==
  lost \in 0..MaxLost /\ abandoned \in 0..MaxAbandoned /\ pauses \in 0..MaxPauses

\* Every row, signal flag and local of the workflow has a value the code gives it,
\* and no activity is tried more often than its retry policy allows.
TypeOK ==
  DatabaseTypeOK /\ SignalsTypeOK /\ FlowTypeOK /\ ActivityTypeOK /\ BoundsTypeOK

\* A run's row and its reservation follow the lifecycle the runtime promises,
\* whatever the workers and the people do (transitionRun's compare-and-set).
Lifecycle == INSTANCE RunLifecycle WITH state <- run.state, version <- run.version
ImplementsLifecycle == Lifecycle!Spec

\* The capacity of a run is settled exactly when the run has ended.
SettledWhenEnded ==
  reservation = IF run.state \in TerminalRun THEN Settlement(run.state) ELSE "reserved"

\* The work behind an approval is only done under a consumed approval: no retry,
\* stale attempt, revocation or expiry lets an approval node succeed without it.
ApprovedBeforeExecuted ==
  \A n \in Nodes : Kind[n] = "approval" /\ task[n] = "succeeded" => approval[n] = "CONSUMED"

\* No provider is called before an approval on its path was consumed.
EffectsAuthorized ==
  \A n \in Nodes : sent[n] > 0 /\ Into(n) # {} =>
    \E e \in Into(n) : \/ e.path = "failure" \/ Kind[e.source] # "approval"
                       \/ approval[e.source] = "CONSUMED"

\* What the workflow believes of a node is what the database holds of its task.
RoutedMatchesTasks ==
  \A n \in Nodes :
    /\ routed[n] = "succeeded" => task[n] = "succeeded"
    /\ routed[n] = "skipped" => task[n] = "skipped"
    /\ routed[n] = "failed" => task[n] # "succeeded"

\* The workflow never asks for work the database will refuse to complete.
WorkIsUnblocked == pc = "working" => ~Blocked(active)

Ended == run.state \in TerminalRun

\* When the workflow function has returned, the run's row says how it ended.
ClosedMeansEnded == pc = "closed" => Ended

\* An approval that was spent was spent on work that was done.
ConsumedMeansExecuted ==
  pc = "closed" => \A n \in Nodes : approval[n] = "CONSUMED" => task[n] = "succeeded"

\* Whatever answers are lost and attempts outlive their timeout, nothing takes back that
\* a task is done but failTask, and not even that once the workflow has counted it: no
\* late start of an agent or a connector, no expiry, no skip, nobody's claim.
DoneStaysDone ==
  [][\A n \in Nodes : task[n] = "succeeded" /\ task'[n] # "succeeded" =>
       task'[n] = "failed" /\ routed[n] # "succeeded"]_vars

\* Once the provider's answer was lost, the call is not made again.
NoBlindResend == [][\A n \in unsure : sent'[n] = sent[n]]_vars

\* Whatever starts the execution, it runs the whole plan.
StartedWithPlan == started # "no" => PlanNodes = Nodes

\* A run settles unless it is paused or waits for someone who has not answered.
WaitsForPeople ==
  paused \/ (pc = "waiting" /\ Kind[active] = "human" /\ task[active] # "succeeded")
RunSettles == (started = "full") ~> (Ended \/ WaitsForPeople)

\* A cancelled run ends.
CancelEnds == cancelled ~> Ended

=============================================================================
