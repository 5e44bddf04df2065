-------------------------- MODULE DurableRunProofs --------------------------
(***************************************************************************)
(* What holds of DurableRun for every plan, every bound and every          *)
(* interleaving of the workflow, the workers and the people.               *)
(***************************************************************************)
EXTENDS DurableRun, TLAPS

-----------------------------------------------------------------------------
(* Types. *)

\* No run leaves a terminal state, and every transition stays in the table.
LEMMA TransitionTable ==
  ASSUME NEW s \in RunState
  PROVE  /\ RunTransition[s] \subseteq RunState
         /\ s \in TerminalRun => RunTransition[s] = {}
  BY DEF RunState, RunTransition, TerminalRun

LEMMA JobTypes ==
  /\ NoJob \in Job
  /\ \A act \in Act, n \in Nodes \cup {None} : OnTask(act, n) \in Job
  /\ \A from \in RunState, to \in RunState, v \in Nat : OnRun(from, to, v) \in Job
  /\ \A n \in Nodes \cup {None} : WorkOf(n) \in Job
  /\ \A j \in Job : Following(j) \in Job /\ [j EXCEPT !.phase = "start"] \in Job
  BY DEF Job, NoJob, OnTask, OnRun, WorkOf, Following, Act, Move, NoMove, RunState

\* A transaction leaves well-formed rows.
LEMMA CommitTypes ==
  ASSUME DatabaseTypeOK, NEW j \in Job, Commit(j)
  PROVE  DatabaseTypeOK'
<1> USE PlanAssumption DEF DatabaseTypeOK
<1>1. CASE NothingToDo(j) /\ UNCHANGED db
  BY <1>1 DEF db
<1>2. CASE TransitionRun(j.move)
  <2>1. j.move.from \in RunState /\ j.move.to \in RunState /\ j.move.version \in Nat
    BY DEF Job, Move
  <2>2. run' \in [state : RunState, version : Nat]
    BY <1>2, <2>1 DEF TransitionRun
  <2> QED BY <1>2, <2>2 DEF TransitionRun, Settlement
<1>3. CASE ActivateTask(j.node)
  BY <1>3 DEF ActivateTask, TaskState
<1>4. CASE SkipTask(j.node)
  BY <1>4 DEF SkipTask, SettleDependents, TaskState, DepState, ApprovalState
<1>5. CASE FailTask(j.node)
  BY <1>5 DEF FailTask, SettleDependents, TaskState, DepState
<1>6. CASE ConsumeApproval(j.node)
  BY <1>6 DEF ConsumeApproval, ApprovalState
<1>7. CASE ExpireApproval(j.node)
  <2>1. AutoOutcome[j.node] \in ApprovalState \/ j.node \notin Nodes
    BY DEF ApprovalState
  <2> QED BY <1>7, <2>1 DEF ExpireApproval, TaskState, ApprovalState
<1>8. CASE CompleteTask(j.node)
  BY <1>8 DEF CompleteTask, SettleDependents, TaskState, DepState
<1>9. CASE StartTask(j.node)
  BY <1>9 DEF StartTask, TaskState
<1> QED BY <1>1, <1>2, <1>3, <1>4, <1>5, <1>6, <1>7, <1>8, <1>9 DEF Commit

\* Counting a call keeps the count a function into Nat, whatever node it is for.
LEMMA CountTypes ==
  ASSUME NEW n, NEW f \in [Nodes -> Nat]
  PROVE  [f EXCEPT ![n] = @ + 1] \in [Nodes -> Nat]
<1>1. CASE n \in Nodes
  <2>1. f[n] + 1 \in Nat
    BY <1>1
  <2> QED BY <2>1, Zenon
<1>2. CASE n \notin Nodes
  <2>1. [f EXCEPT ![n] = @ + 1] = f
    BY <1>2, Zenon
  <2> QED BY <2>1
<1> QED BY <1>1, <1>2

LEMMA PerformTypes ==
  ASSUME DatabaseTypeOK, ActivityTypeOK, NEW j \in Job, Perform(j)
  PROVE  DatabaseTypeOK' /\ sent' \in [Nodes -> Nat] /\ unsure' \subseteq Nodes
<1>1. CASE ~IsSend(j) /\ Commit(j) /\ UNCHANGED provider
  BY <1>1, CommitTypes DEF provider, ActivityTypeOK
<1>2. CASE IsSend(j) /\ CallProvider(j.node) /\ UNCHANGED db
  <2>1. DatabaseTypeOK'
    BY <1>2 DEF db, DatabaseTypeOK
  <2>2. sent' \in [Nodes -> Nat] /\ unsure' \subseteq Nodes
    BY <1>2, CountTypes, Zenon DEF CallProvider, ActivityTypeOK
  <2> QED BY <2>1, <2>2
<1> QED BY <1>1, <1>2 DEF Perform

\* What every step of the workflow function does to the activity it waits for.
CallTypeOK == pc \in WorkflowPc /\ job \in Job /\ tries \in 0..MaximumAttempts

LEMMA CallTypes ==
  /\ \A p \in WorkflowPc, j \in Job : Call(p, j) => CallTypeOK'
  /\ \A p \in WorkflowPc : Goto(p) => CallTypeOK'
  BY JobTypes DEF Call, Goto, CallTypeOK, MaximumAttempts

LEMMA RequestTypes ==
  ASSUME FlowTypeOK, NEW p \in WorkflowPc, NEW from \in RunState, NEW to \in RunState,
         RequestMove(p, from, to)
  PROVE  CallTypeOK' /\ version' \in Nat
<1>1. OnRun(from, to, version) \in Job
  BY JobTypes DEF FlowTypeOK
<1> QED BY <1>1, CallTypes DEF RequestMove, FlowTypeOK

LEMMA ThrowTypes ==
  ASSUME FlowTypeOK, Throw
  PROVE  CallTypeOK' /\ version' \in Nat
<1>1. CASE active # None /\ active \in Unrouted
  <2>1. OnTask("fail", active) \in Job
    BY JobTypes DEF FlowTypeOK, Act
  <2> QED BY <1>1, <2>1, CallTypes DEF Throw, FlowTypeOK, WorkflowPc
<1>2. CASE ~(active # None /\ active \in Unrouted)
  <2>1. RequestMove("failing", current, "failed")
    BY <1>2 DEF Throw
  <2> QED BY <2>1, RequestTypes DEF FlowTypeOK, WorkflowPc, RunState
<1> QED BY <1>1, <1>2

\* The workflow's locals stay well formed between two activities ...
LEMMA PassTypes ==
  ASSUME FlowTypeOK, Pass
  PROVE  CallTypeOK' /\ version' \in Nat /\ ready' \subseteq Nodes /\ skips' \subseteq Nodes
<1>1. Settled \subseteq Nodes
  BY DEF Settled, Unrouted, PlanNodes
<1>2. CASE Settled = {}
  BY <1>2, ThrowTypes DEF Pass, FlowTypeOK
<1>3. CASE Settled # {}
  BY <1>1, <1>3, CallTypes DEF Pass, FlowTypeOK, WorkflowPc
<1> QED BY <1>2, <1>3

LEMMA FinishTypes ==
  ASSUME FlowTypeOK, Finish
  PROVE  CallTypeOK' /\ version' \in Nat /\ ready' \subseteq Nodes /\ skips' \subseteq Nodes
<1> USE DEF Finish, FlowTypeOK
<1>1. CASE cancelled
  BY <1>1, RequestTypes DEF WorkflowPc, RunState
<1>2. CASE ~cancelled /\ stopped
  BY <1>2, RequestTypes DEF WorkflowPc, RunState
<1>3. CASE ~cancelled /\ ~stopped /\ Cardinality(Terminals) = 1
  BY <1>3, RequestTypes DEF WorkflowPc, RunState
<1>4. CASE ~cancelled /\ ~stopped /\ Cardinality(Terminals) # 1
  BY <1>4, ThrowTypes
<1> QED BY <1>1, <1>2, <1>3, <1>4

LEMMA LocalStepTypes ==
  ASSUME FlowTypeOK, WorkflowStep
  PROVE  FlowTypeOK' /\ CallTypeOK'
<1>1. CASE Loop
  <2> USE <1>1 DEF Loop
  <2>1. CASE cancelled \/ stopped \/ Unrouted = {}
    BY <2>1, FinishTypes DEF FlowTypeOK, CallTypeOK
  <2>2. CASE ~(cancelled \/ stopped \/ Unrouted = {}) /\ paused /\ current = "running"
    <3>1. CallTypeOK' /\ version' \in Nat
      BY <2>2, RequestTypes DEF WorkflowPc, RunState
    <3> QED BY <2>2, <3>1 DEF FlowTypeOK, CallTypeOK
  <2>3. CASE ~(cancelled \/ stopped \/ Unrouted = {}) /\ ~(paused /\ current = "running")
    BY <2>3, PassTypes DEF FlowTypeOK, CallTypeOK
  <2> QED BY <2>1, <2>2, <2>3
<1>2. CASE Await
  <2> USE <1>2 DEF Await
  <2>1. CASE cancelled
    BY <2>1, PassTypes DEF FlowTypeOK, CallTypeOK
  <2>2. CASE ~cancelled
    <3>1. CallTypeOK' /\ version' \in Nat
      BY <2>2, RequestTypes DEF WorkflowPc, RunState
    <3> QED BY <2>2, <3>1 DEF FlowTypeOK, CallTypeOK
  <2> QED BY <2>1, <2>2
<1>3. CASE Resumed
  BY <1>3, PassTypes DEF Resumed, FlowTypeOK, CallTypeOK
<1>4. CASE SkipNext
  <2> USE <1>4 DEF SkipNext
  <2>1. CASE skips = {}
    BY <2>1, CallTypes DEF FlowTypeOK, CallTypeOK, WorkflowPc
  <2>2. CASE skips # {}
    <3>1. PICK n \in skips : Call("skipping", OnTask("skip", n))
      BY <2>2
    <3>2. OnTask("skip", n) \in Job
      BY JobTypes DEF FlowTypeOK, Act
    <3> QED BY <3>1, <3>2, CallTypes DEF FlowTypeOK, CallTypeOK, WorkflowPc
  <2> QED BY <2>1, <2>2
<1>5. CASE ActivateNext
  <2> USE <1>5 DEF ActivateNext
  <2>1. CASE ready = {}
    BY <2>1, CallTypes DEF FlowTypeOK, CallTypeOK, WorkflowPc
  <2>2. CASE ready # {}
    <3>1. PICK n \in ready : /\ Call("activating", OnTask("activate", n))
                            /\ active' = n /\ ready' = ready \ {n}
      BY <2>2
    <3>2. OnTask("activate", n) \in Job
      BY JobTypes DEF FlowTypeOK, Act
    <3> QED BY <3>1, <3>2, CallTypes DEF FlowTypeOK, CallTypeOK, WorkflowPc
  <2> QED BY <2>1, <2>2
<1>6. CASE AwaitHuman \/ AwaitApproval
  <2>1. CASE Leave
    BY <2>1, CallTypes DEF Leave, FlowTypeOK, CallTypeOK, WorkflowPc
  <2>2. CASE \/ Answer("reading", OnTask("read", active))
             \/ Answer("consuming", OnTask("consume", active))
             \/ Answer("refusing", OnTask("fail", active))
             \/ Answer("expiring", OnTask("expire", active))
    <3>1. \A act \in Act : OnTask(act, active) \in Job
      BY JobTypes DEF FlowTypeOK
    <3>2. {"read", "consume", "fail", "expire"} \subseteq Act
      BY DEF Act
    <3>3. {"reading", "consuming", "refusing", "expiring"} \subseteq WorkflowPc
      BY DEF WorkflowPc
    <3>4. CallTypeOK'
      BY <2>2, <3>1, <3>2, <3>3, CallTypes DEF Answer
    <3> QED BY <2>2, <3>4 DEF Answer, FlowTypeOK, CallTypeOK
  <2> QED BY <1>6, <2>1, <2>2 DEF AwaitHuman, AwaitApproval
<1> QED BY <1>1, <1>2, <1>3, <1>4, <1>5, <1>6 DEF WorkflowStep

\* ... and when an activity ends.
LEMMA ReturnedTypes ==
  ASSUME FlowTypeOK, ActivityTypeOK, Returned
  PROVE  FlowTypeOK' /\ CallTypeOK'
<1> USE DEF FlowTypeOK, CallTypeOK
<1>1. CASE pc = "starting" /\ Goto("loop")
           /\ UNCHANGED <<version, current, routed, truth, skips, ready, active, stopped>>
  BY <1>1, CallTypes DEF WorkflowPc
<1>2. CASE pc = "pausing" /\ Goto("await") /\ current' = "paused"
           /\ UNCHANGED <<version, routed, truth, skips, ready, active, stopped>>
  BY <1>2, CallTypes DEF WorkflowPc
<1>3. CASE pc = "resuming" /\ Goto("resumed") /\ current' = "running"
           /\ UNCHANGED <<version, routed, truth, skips, ready, active, stopped>>
  BY <1>3, CallTypes DEF WorkflowPc
<1>4. CASE pc = "skipping" /\ Goto("skips") /\ Route(job.node, "skipped")
           /\ skips' = skips \ {job.node} /\ UNCHANGED <<version, current, ready, active, stopped>>
  BY <1>4, CallTypes DEF WorkflowPc, Route
<1>5. CASE /\ pc = "activating"
           /\ IF Kind[active] \in {"human", "approval"} THEN Goto("waiting")
              ELSE Call("working", WorkOf(active))
           /\ UNCHANGED <<version, current, routed, truth, skips, ready, active, stopped>>
  <2>1. WorkOf(active) \in Job
    BY JobTypes
  <2>2. CallTypeOK'
    BY <1>5, <2>1, CallTypes DEF WorkflowPc
  <2> QED BY <1>5, <2>2
<1>6. CASE /\ pc = "consuming" /\ Call("working", OnTask("complete", active))
           /\ UNCHANGED <<version, current, routed, truth, skips, ready, active, stopped>>
  <2>1. OnTask("complete", active) \in Job
    BY JobTypes DEF Act
  <2>2. CallTypeOK'
    BY <1>6, <2>1, CallTypes DEF WorkflowPc
  <2> QED BY <1>6, <2>2
<1>7. CASE /\ pc \in {"reading", "working"} /\ Goto("ready")
           /\ Route(active, "succeeded") /\ active' = None
           /\ UNCHANGED <<version, current, skips, ready, stopped>>
  BY <1>7, CallTypes DEF WorkflowPc, Route
<1>8. CASE pc = "refusing" /\ Goto("ready") /\ Route(active, "failed") /\ active' = None
           /\ UNCHANGED <<version, current, skips, ready, stopped>>
  BY <1>8, CallTypes DEF WorkflowPc, Route
<1>9. CASE /\ pc = "expiring" /\ Route(active, "failed") /\ active' = None
           /\ IF HasFailureEdge(active)
                THEN Goto("ready") /\ UNCHANGED <<ready, stopped>>
                ELSE Goto("loop") /\ stopped' = TRUE /\ ready' = {}
           /\ UNCHANGED <<version, current, skips>>
  <2>1. CallTypeOK'
    BY <1>9, CallTypes DEF WorkflowPc
  <2>2. ready' \subseteq Nodes /\ stopped' \in BOOLEAN
    BY <1>9
  <2> QED BY <1>9, <2>1, <2>2 DEF Route
<1>10. CASE /\ pc = "recording" /\ Route(active, "failed") /\ active' = None
            /\ IF HasFailureEdge(active) THEN Goto("ready") /\ UNCHANGED version
               ELSE RequestMove("failing", current, "failed")
            /\ UNCHANGED <<current, skips, ready, stopped>>
  <2>1. CallTypeOK' /\ version' \in Nat
    BY <1>10, CallTypes, RequestTypes DEF WorkflowPc, RunState
  <2> QED BY <1>10, <2>1 DEF Route
<1>11. CASE pc = "closefail" /\ RequestMove("failing", current, "failed")
            /\ UNCHANGED <<current, routed, truth, skips, ready, active, stopped>>
  <2>1. CallTypeOK' /\ version' \in Nat
    BY <1>11, RequestTypes DEF WorkflowPc, RunState
  <2> QED BY <1>11, <2>1
<1>12. CASE pc = "cancelling" /\ RequestMove("ending", "cancelling", "cancelled")
            /\ UNCHANGED <<current, routed, truth, skips, ready, active, stopped>>
  <2>1. CallTypeOK' /\ version' \in Nat
    BY <1>12, RequestTypes DEF WorkflowPc, RunState
  <2> QED BY <1>12, <2>1
<1>13. CASE pc \in {"ending", "stopping", "succeeding", "failing"} /\ Goto("closed")
            /\ UNCHANGED <<version, current, routed, truth, skips, ready, active, stopped>>
  BY <1>13, CallTypes DEF WorkflowPc
<1> QED BY <1>1, <1>2, <1>3, <1>4, <1>5, <1>6, <1>7, <1>8, <1>9, <1>10, <1>11, <1>12, <1>13
        DEF Returned

LEMMA AgainTypes ==
  ASSUME FlowTypeOK, ActivityTypeOK, Again
  PROVE  FlowTypeOK' /\ CallTypeOK'
<1>1. CASE tries < MaximumAttempts /\ tries' = tries + 1
           /\ job' = [job EXCEPT !.phase = "start"] /\ UNCHANGED flow
  <2>1. job' \in Job
    BY <1>1, JobTypes DEF ActivityTypeOK
  <2>2. tries' \in 0..MaximumAttempts
    BY <1>1 DEF ActivityTypeOK, MaximumAttempts
  <2> QED BY <1>1, <2>1, <2>2 DEF flow, FlowTypeOK, CallTypeOK
<1>2. CASE Failed
  <2>1. CASE pc \in {"starting", "closefail", "failing"} /\ Goto("closed") /\ UNCHANGED version
    BY <1>2, <2>1, CallTypes DEF Failed, FlowTypeOK, CallTypeOK, WorkflowPc
  <2>2. CASE Call("recording", OnTask("fail", active)) /\ UNCHANGED version
    <3>1. OnTask("fail", active) \in Job
      BY JobTypes DEF FlowTypeOK, Act
    <3>2. CallTypeOK'
      BY <2>2, <3>1, CallTypes DEF WorkflowPc
    <3> QED BY <1>2, <2>2, <3>2 DEF Failed, FlowTypeOK, CallTypeOK
  <2>3. CASE Throw
    BY <1>2, <2>3, ThrowTypes DEF Failed, FlowTypeOK, CallTypeOK
  <2> QED BY <1>2, <2>1, <2>2, <2>3 DEF Failed
<1> QED BY <1>1, <1>2 DEF Again

LEMMA WorkerStepTypes ==
  ASSUME TypeOK, WorkerStep
  PROVE  TypeOK'
<1> USE DEF TypeOK
<1>1. SignalsTypeOK'
  BY DEF WorkerStep, signals, SignalsTypeOK
<1>2. CASE AttemptProgresses
  <2>1. Following(job) \in Job
    BY JobTypes DEF ActivityTypeOK
  <2>2. DatabaseTypeOK' /\ ActivityTypeOK'
    BY <1>2, <2>1, PerformTypes DEF AttemptProgresses, ActivityTypeOK
  <2>3. FlowTypeOK' /\ BoundsTypeOK'
    BY <1>2 DEF AttemptProgresses, flow, bounds, FlowTypeOK, BoundsTypeOK
  <2> QED BY <1>1, <2>2, <2>3
<1>3. CASE AttemptReturns
  <2>1. FlowTypeOK' /\ CallTypeOK'
    BY <1>3, ReturnedTypes DEF AttemptReturns
  <2>2. CASE Perform(job)
    <3>1. DatabaseTypeOK' /\ sent' \in [Nodes -> Nat] /\ unsure' \subseteq Nodes
      BY <2>2, PerformTypes DEF ActivityTypeOK
    <3> QED BY <1>1, <1>3, <2>1, <3>1
            DEF AttemptReturns, CallTypeOK, ActivityTypeOK, bounds, BoundsTypeOK
  <2>3. CASE UNCHANGED <<db, provider>>
    <3>1. DatabaseTypeOK' /\ sent' \in [Nodes -> Nat] /\ unsure' \subseteq Nodes
      BY <2>3 DEF db, provider, DatabaseTypeOK, ActivityTypeOK
    <3> QED BY <1>1, <1>3, <2>1, <3>1
            DEF AttemptReturns, CallTypeOK, ActivityTypeOK, bounds, BoundsTypeOK
  <2> QED BY <1>3, <2>2, <2>3 DEF AttemptReturns
<1>4. CASE AttemptRaises
  <2>1. FlowTypeOK' /\ CallTypeOK'
    BY <1>4, AgainTypes DEF AttemptRaises
  <2> QED BY <1>1, <1>4, <2>1 DEF AttemptRaises, CallTypeOK, ActivityTypeOK, db, provider,
                              DatabaseTypeOK, bounds, BoundsTypeOK
<1>5. CASE AnswerLost
  <2>1. FlowTypeOK' /\ CallTypeOK'
    BY <1>5, AgainTypes DEF AnswerLost
  <2>2. sent' \in [Nodes -> Nat]
    BY <1>5, CountTypes, Zenon DEF AnswerLost, CallProviderUnanswered, ActivityTypeOK
  <2>3. unsure' \subseteq Nodes
    BY <1>5, PlanAssumption DEF AnswerLost, CallProviderUnanswered, ActivityTypeOK
  <2> QED BY <1>1, <1>5, <2>1, <2>2, <2>3 DEF AnswerLost, CallTypeOK, ActivityTypeOK, db,
                              DatabaseTypeOK, bounds, BoundsTypeOK
<1>6. CASE AttemptLosesAnswer
  <2>1. FlowTypeOK' /\ CallTypeOK'
    BY <1>6, AgainTypes DEF AttemptLosesAnswer
  <2>2. DatabaseTypeOK' /\ sent' \in [Nodes -> Nat] /\ unsure' \subseteq Nodes
    BY <1>6, PerformTypes DEF AttemptLosesAnswer, ActivityTypeOK
  <2>3. BoundsTypeOK'
    BY <1>6, BoundsAssumption DEF AttemptLosesAnswer, BoundsTypeOK
  <2> QED BY <1>1, <1>6, <2>1, <2>2, <2>3 DEF AttemptLosesAnswer, CallTypeOK, ActivityTypeOK
<1>7. CASE AttemptDies
  <2>1. FlowTypeOK' /\ CallTypeOK'
    BY <1>7, AgainTypes DEF AttemptDies
  <2>2. BoundsTypeOK'
    BY <1>7, BoundsAssumption DEF AttemptDies, BoundsTypeOK
  <2> QED BY <1>1, <1>7, <2>1, <2>2 DEF AttemptDies, CallTypeOK, ActivityTypeOK, db, provider,
                                   DatabaseTypeOK
<1>8. CASE AttemptAbandoned
  <2>1. FlowTypeOK' /\ CallTypeOK'
    BY <1>8, AgainTypes DEF AttemptAbandoned
  <2>2. BoundsTypeOK'
    BY <1>8, BoundsAssumption DEF AttemptAbandoned, BoundsTypeOK
  <2> QED BY <1>1, <1>8, <2>1, <2>2 DEF AttemptAbandoned, CallTypeOK, ActivityTypeOK, db,
                                   provider, DatabaseTypeOK
<1>9. CASE StaleStep
  <2>1. FlowTypeOK' /\ BoundsTypeOK' /\ job' \in Job /\ tries' \in 0..MaximumAttempts
    BY <1>9 DEF StaleStep, flow, bounds, FlowTypeOK, BoundsTypeOK, ActivityTypeOK
  <2>2. PICK j \in stale :
          \/ Perform(j) /\ stale' = (stale \ {j}) \cup (IF Final(j) THEN {} ELSE {Following(j)})
          \/ stale' = stale \ {j} /\ UNCHANGED <<db, provider>>
    BY <1>9 DEF StaleStep
  <2>3. j \in Job /\ Following(j) \in Job
    BY JobTypes DEF ActivityTypeOK
  <2>4. CASE /\ Perform(j)
             /\ stale' = (stale \ {j}) \cup (IF Final(j) THEN {} ELSE {Following(j)})
    <3>1. DatabaseTypeOK' /\ sent' \in [Nodes -> Nat] /\ unsure' \subseteq Nodes
      BY <2>3, <2>4, PerformTypes
    <3>2. stale' \subseteq Job
      BY <2>3, <2>4 DEF ActivityTypeOK
    <3> QED BY <1>1, <2>1, <3>1, <3>2 DEF ActivityTypeOK
  <2>5. CASE stale' = stale \ {j} /\ UNCHANGED <<db, provider>>
    BY <1>1, <2>1, <2>5 DEF ActivityTypeOK, db, provider, DatabaseTypeOK
  <2> QED BY <2>2, <2>4, <2>5
<1> QED BY <1>2, <1>3, <1>4, <1>5, <1>6, <1>7, <1>8, <1>9 DEF WorkerStep

LEMMA BeginTypes ==
  ASSUME TypeOK, NEW plan \in {"full", "empty"}, Begin(plan)
  PROVE  DatabaseTypeOK' /\ SignalsTypeOK' /\ FlowTypeOK' /\ ActivityTypeOK'
<1> USE DEF TypeOK, Begin
<1>1. OnRun("queued", "running", 1) \in Job
  BY JobTypes DEF RunState
<1>2. CallTypeOK'
  BY <1>1, CallTypes DEF WorkflowPc
<1>3. DatabaseTypeOK'
  BY DEF db, DatabaseTypeOK
<1>4. SignalsTypeOK'
  BY DEF SignalsTypeOK
<1>5. FlowTypeOK'
  BY <1>2 DEF FlowTypeOK, CallTypeOK
<1>6. ActivityTypeOK'
  BY <1>2 DEF ActivityTypeOK, CallTypeOK, provider
<1> QED BY <1>3, <1>4, <1>5, <1>6

LEMMA PeopleTypes ==
  ASSUME TypeOK, People
  PROVE  TypeOK'
<1> USE DEF TypeOK
<1>1. FlowTypeOK' /\ ActivityTypeOK' /\ BoundsTypeOK'
  BY DEF People, flow, provider, bounds, FlowTypeOK, ActivityTypeOK, BoundsTypeOK
<1>2. started' = started /\ paused' = paused /\ cancelled' = cancelled
      /\ humanDone' = humanDone /\ decision' = decision
  BY DEF People, signals
<1>3. ASSUME NEW n \in Nodes,
             \/ Decide(n) \/ Revoke(n) \/ Claim(n) \/ RequestClarification(n)
             \/ SubmitForm(n) \/ SubmitInBulk(n) \/ AnswerAgain(n)
      PROVE  /\ DatabaseTypeOK'
             /\ answered' \subseteq Nodes
             /\ mail' \subseteq Nodes \X (Outcome \cup {"done"})
  <2> USE DEF DatabaseTypeOK, SignalsTypeOK
  <2>1. CASE Decide(n)
    <3>1. PICK s \in Decisive \cup {"IN_REVIEW"} :
            /\ approval' = [approval EXCEPT ![n] = s]
            /\ mail' = IF s \in Decisive THEN mail \cup {<<n, SignalOf(s)>>} ELSE mail
      BY <2>1 DEF Decide
    <3>2. s \in ApprovalState /\ SignalOf(s) \in Outcome
      BY DEF Decisive, ApprovalState, SignalOf, Outcome
    <3>3. approval' \in [Nodes -> ApprovalState]
      BY <3>1, <3>2
    <3>4. mail' \subseteq Nodes \X (Outcome \cup {"done"})
      BY <3>1, <3>2
    <3> QED BY <2>1, <3>3, <3>4 DEF Decide
  <2>2. CASE Revoke(n)
    BY <2>2 DEF Revoke, ApprovalState
  <2>3. CASE Claim(n)
    BY <2>3 DEF Claim, TaskState
  <2>4. CASE RequestClarification(n)
    BY <2>4 DEF RequestClarification, TaskState
  <2>5. Submit(n) => DatabaseTypeOK'
    BY DEF Submit, SettleDependents, TaskState, DepState
  <2>6. CASE SubmitForm(n)
    <3>1. DatabaseTypeOK'
      BY <2>5, <2>6 DEF SubmitForm
    <3> QED BY <2>6, <3>1 DEF SubmitForm
  <2>7. CASE SubmitInBulk(n)
    <3>1. DatabaseTypeOK'
      BY <2>5, <2>7 DEF SubmitInBulk
    <3> QED BY <2>7, <3>1 DEF SubmitInBulk
  <2>8. CASE AnswerAgain(n)
    <3>1. SignalOf(approval[n]) \in Outcome
      BY DEF SignalOf, Outcome
    <3> QED BY <2>8, <3>1 DEF AnswerAgain, db
  <2> QED BY <1>3, <2>1, <2>2, <2>3, <2>4, <2>6, <2>7, <2>8
<1> QED BY <1>1, <1>2, <1>3 DEF People, SignalsTypeOK

LEMMA SignalTypes ==
  ASSUME TypeOK, SendSignal \/ SignalFails \/ Control
  PROVE  TypeOK'
<1> USE DEF TypeOK
<1>1. DatabaseTypeOK' /\ FlowTypeOK' /\ ActivityTypeOK'
  BY DEF SendSignal, Signal, SignalFails, Control, db, flow, provider,
         DatabaseTypeOK, FlowTypeOK, ActivityTypeOK
<1>2. CASE SendSignal
  <2>1. PICK n \in Nodes, m \in mail :
          /\ m[1] = n /\ mail' = mail \ {m}
          /\ IF m[2] = "done"
               THEN humanDone' = humanDone \cup {n} /\ UNCHANGED decision
               ELSE decision' = [decision EXCEPT ![n] = m[2]] /\ UNCHANGED humanDone
    BY <1>2 DEF SendSignal, Signal
  <2>2. m[2] \in Outcome \cup {"done"}
    BY DEF SignalsTypeOK
  <2>3. SignalsTypeOK'
    BY <1>2, <2>1, <2>2 DEF SendSignal, Signal, SignalsTypeOK
  <2> QED BY <1>1, <1>2, <2>3 DEF SendSignal, Signal, bounds, BoundsTypeOK
<1>3. CASE SignalFails
  <2>1. BoundsTypeOK'
    BY <1>3, BoundsAssumption DEF SignalFails, BoundsTypeOK
  <2> QED BY <1>1, <1>3, <2>1 DEF SignalFails, signals, SignalsTypeOK
<1>4. CASE Control
  <2>1. BoundsTypeOK'
    BY <1>4, BoundsAssumption DEF Control, Pause, Resume, Cancel, bounds, BoundsTypeOK
  <2>2. SignalsTypeOK'
    BY <1>4 DEF Control, Pause, Resume, Cancel, SignalsTypeOK
  <2> QED BY <1>1, <2>1, <2>2
<1> QED BY <1>2, <1>3, <1>4

LEMMA InitTypes == Init => TypeOK
<1> SUFFICES ASSUME Init PROVE TypeOK
  OBVIOUS
<1> USE DEF Init
<1>1. DatabaseTypeOK
  BY DEF DatabaseTypeOK, RunState, TaskState, DepState, ApprovalState
<1>2. SignalsTypeOK
  BY DEF SignalsTypeOK
<1>3. FlowTypeOK
  BY DEF FlowTypeOK, WorkflowPc
<1>4. ActivityTypeOK
  BY JobTypes DEF ActivityTypeOK, MaximumAttempts
<1>5. BoundsTypeOK
  BY BoundsAssumption DEF BoundsTypeOK
<1> QED BY <1>1, <1>2, <1>3, <1>4, <1>5 DEF TypeOK

LEMMA NextTypes == TypeOK /\ [Next]_vars => TypeOK'
<1> SUFFICES ASSUME TypeOK, [Next]_vars PROVE TypeOK'
  OBVIOUS
<1>1. CASE DispatchRun
  <2>1. BoundsTypeOK'
    BY <1>1 DEF DispatchRun, Begin, TypeOK, BoundsTypeOK
  <2> QED BY <1>1, <2>1, BeginTypes DEF DispatchRun, TypeOK
<1>2. CASE RedispatchRun
  <2>1. BoundsTypeOK'
    BY <1>2, BoundsAssumption DEF RedispatchRun, Begin, TypeOK, BoundsTypeOK
  <2> QED BY <1>2, <2>1, BeginTypes DEF RedispatchRun, TypeOK
<1>3. CASE WorkflowStep
  <2>1. FlowTypeOK' /\ CallTypeOK'
    BY <1>3, LocalStepTypes DEF TypeOK
  <2> QED BY <1>3, <2>1 DEF WorkflowStep, TypeOK, CallTypeOK, ActivityTypeOK, db, signals,
                           provider, bounds, DatabaseTypeOK, SignalsTypeOK, BoundsTypeOK
<1>4. CASE WorkerStep
  BY <1>4, WorkerStepTypes
<1>5. CASE People
  BY <1>5, PeopleTypes
<1>6. CASE SendSignal \/ SignalFails \/ Control
  BY <1>6, SignalTypes
<1>7. CASE UNCHANGED vars
  BY <1>7 DEF vars, db, signals, flow, bounds, provider, TypeOK, DatabaseTypeOK,
              SignalsTypeOK, FlowTypeOK, ActivityTypeOK, BoundsTypeOK
<1> QED BY <1>1, <1>2, <1>3, <1>4, <1>5, <1>6, <1>7 DEF Next

\* In every reachable state each row, flag and local has a value the code gives
\* it, and no activity was tried more often than proxyActivities allows.
THEOREM TypeCorrect == Spec => []TypeOK
<1>1. Init => TypeOK
  BY InitTypes
<1>2. TypeOK /\ [Next]_vars => TypeOK'
  BY NextTypes
<1> QED BY <1>1, <1>2, PTL DEF Spec

-----------------------------------------------------------------------------
(* The run's row and its reservation. *)

\* Only transitionRun touches them, whichever attempt of whichever activity
\* it is called from.
LEMMA PerformRow ==
  ASSUME NEW j \in Job, Perform(j)
  PROVE  UNCHANGED <<run, reservation>> \/ \E m \in Move : TransitionRun(m)
<1>1. CASE ~IsSend(j) /\ Commit(j)
  <2>1. CASE j.act = "transition" /\ TransitionRun(j.move)
    BY <2>1 DEF Job
  <2>2. CASE \/ NothingToDo(j) /\ UNCHANGED db
             \/ ActivateTask(j.node) \/ SkipTask(j.node) \/ FailTask(j.node)
             \/ ConsumeApproval(j.node) \/ ExpireApproval(j.node)
             \/ CompleteTask(j.node) \/ StartTask(j.node)
    BY <2>2 DEF db, ActivateTask, SkipTask, FailTask, ConsumeApproval, ExpireApproval,
                CompleteTask, StartTask
  <2> QED BY <1>1, <2>1, <2>2 DEF Commit
<1>2. CASE UNCHANGED db
  BY <1>2 DEF db
<1> QED BY <1>1, <1>2 DEF Perform

LEMMA RowSteps ==
  ASSUME TypeOK, [Next]_vars
  PROVE  UNCHANGED <<run, reservation>> \/ \E m \in Move : TransitionRun(m)
<1>1. CASE WorkerStep
  <2>1. CASE UNCHANGED db
    BY <2>1 DEF db
  <2>2. CASE Perform(job)
    BY <2>2, PerformRow DEF TypeOK, ActivityTypeOK
  <2>3. CASE \E j \in stale : Perform(j)
    BY <2>3, PerformRow DEF TypeOK, ActivityTypeOK
  <2> QED BY <1>1, <2>1, <2>2, <2>3
          DEF WorkerStep, AttemptProgresses, AttemptReturns, AttemptRaises, AnswerLost,
              AttemptLosesAnswer, AttemptDies, AttemptAbandoned, StaleStep
<1>2. CASE People
  BY <1>2 DEF People, Decide, Revoke, Claim, RequestClarification, SubmitForm, SubmitInBulk,
              Submit, AnswerAgain, db
<1>3. CASE DispatchRun \/ RedispatchRun \/ WorkflowStep \/ SendSignal \/ SignalFails \/ Control
  BY <1>3 DEF DispatchRun, RedispatchRun, Begin, WorkflowStep, SendSignal, Signal, SignalFails,
              Control, db
<1>4. CASE UNCHANGED vars
  BY <1>4 DEF vars, db
<1> QED BY <1>1, <1>2, <1>3, <1>4 DEF Next

\* A transition starts from a run that has not ended, along the table.
LEMMA TransitionFacts ==
  ASSUME TypeOK, NEW m \in Move, TransitionRun(m)
  PROVE  /\ run.state \in RunState \ TerminalRun
         /\ run'.state = m.to /\ m.to \in RunTransition[run.state]
         /\ run'.version = run.version + 1
<1>1. run.state = m.from /\ run.version = m.version /\ m.to \in RunTransition[m.from]
  BY DEF TransitionRun, TransitionAllowed
<1>2. m.from \in RunState
  BY DEF Move
<1>3. run'.state = m.to /\ run'.version = m.version + 1
  BY DEF TransitionRun
<1> QED BY <1>1, <1>2, <1>3, TransitionTable

LEMMA SettledStep ==
  ASSUME TypeOK, SettledWhenEnded, [Next]_vars
  PROVE  SettledWhenEnded'
<1>1. CASE UNCHANGED <<run, reservation>>
  BY <1>1 DEF SettledWhenEnded
<1>2. ASSUME NEW m \in Move, TransitionRun(m)
      PROVE  SettledWhenEnded'
  <2>1. reservation = "reserved"
    BY <1>2, TransitionFacts DEF SettledWhenEnded
  <2>2. reservation' = IF m.to \in TerminalRun THEN Settlement(m.to) ELSE "reserved"
    BY <1>2, <2>1 DEF TransitionRun
  <2> QED BY <1>2, <2>2, TransitionFacts DEF SettledWhenEnded
<1> QED BY <1>1, <1>2, RowSteps

\* The capacity reserved for a run at admission is settled exactly when its
\* row reaches a terminal state (transitionRun), under every fault.
THEOREM CapacitySettled == Spec => []SettledWhenEnded
<1>1. Init => SettledWhenEnded
  BY DEF Init, SettledWhenEnded, TerminalRun
<1>2. TypeOK /\ SettledWhenEnded /\ [Next]_vars => SettledWhenEnded'
  BY SettledStep
<1> QED BY <1>1, <1>2, TypeCorrect, PTL DEF Spec

\* The lifecycle's tables are the runtime's.
LEMMA SameTables ==
  /\ Lifecycle!TerminalRun = TerminalRun
  /\ Lifecycle!RunTransition = RunTransition
  /\ \A s : Lifecycle!Settlement(s) = Settlement(s)
  BY DEF Lifecycle!TerminalRun, TerminalRun, Lifecycle!RunTransition, RunTransition,
         Lifecycle!RunState, RunState, Lifecycle!Settlement, Settlement

LEMMA LifecycleStep ==
  ASSUME TypeOK, SettledWhenEnded, [Next]_vars
  PROVE  [Lifecycle!Next]_Lifecycle!vars
<1>1. CASE UNCHANGED <<run, reservation>>
  BY <1>1 DEF Lifecycle!vars
<1>2. ASSUME NEW m \in Move, TransitionRun(m)
      PROVE  Lifecycle!Next
  <2>1. run.state \notin TerminalRun /\ run'.state = m.to
        /\ m.to \in RunTransition[run.state] /\ run'.version = run.version + 1
    BY <1>2, TransitionFacts
  <2>2. reservation = "reserved"
    BY <2>1 DEF SettledWhenEnded
  <2>3. CASE m.to \in TerminalRun
    <3>1. reservation' = Settlement(m.to)
      BY <1>2, <2>2, <2>3 DEF TransitionRun
    <3>2. Lifecycle!End
      BY <2>1, <2>3, <3>1, SameTables DEF Lifecycle!End
    <3> QED BY <3>2 DEF Lifecycle!Next
  <2>4. CASE m.to \notin TerminalRun
    <3>1. reservation' = reservation
      BY <1>2, <2>4 DEF TransitionRun
    <3>2. Lifecycle!Move
      BY <2>1, <2>4, <3>1, SameTables DEF Lifecycle!Move
    <3> QED BY <3>2 DEF Lifecycle!Next
  <2> QED BY <2>3, <2>4
<1> QED BY <1>1, <1>2, RowSteps

\* The runtime implements the lifecycle: whatever is lost, retried, abandoned or
\* signalled, the row moves along runTransitions one version at a time and
\* ends at most once, together with its reservation.
THEOREM LifecycleImplemented == Spec => ImplementsLifecycle
<1>1. Init => Lifecycle!Init
  BY DEF Init, Lifecycle!Init
<1>2. TypeOK /\ SettledWhenEnded /\ [Next]_vars => [Lifecycle!Next]_Lifecycle!vars
  BY LifecycleStep
<1> QED BY <1>1, <1>2, TypeCorrect, CapacitySettled, PTL
        DEF Spec, ImplementsLifecycle, Lifecycle!Spec

-----------------------------------------------------------------------------
(* Nothing behind an approval succeeds before the approval is consumed. *)

\* An attempt that would complete an approval node carries a consumed approval,
\* whether the workflow still waits for it or not.
JobApproved(j) ==
  j.node \in Nodes /\ j.act \in {"complete", "agent", "connector"} =>
    Kind[j.node] # "approval" \/ (j.act = "complete" /\ approval[j.node] = "CONSUMED")

ApprovalInv ==
  /\ ApprovedBeforeExecuted
  /\ \A j \in stale \cup {job} : JobApproved(j)
  /\ pc = "consuming" => job = OnTask("consume", active)

\* Consumption is for good: no decision, revocation, expiry or skip undoes it.
LEMMA PerformKeepsConsumed ==
  ASSUME TypeOK, NEW j \in Job, Perform(j), NEW n \in Nodes, approval[n] = "CONSUMED"
  PROVE  approval'[n] = "CONSUMED"
<1> USE DEF TypeOK, DatabaseTypeOK
<1>1. CASE UNCHANGED db
  BY <1>1 DEF db
<1>2. CASE \/ TransitionRun(j.move) \/ ActivateTask(j.node) \/ FailTask(j.node)
           \/ CompleteTask(j.node) \/ StartTask(j.node)
  BY <1>2 DEF TransitionRun, ActivateTask, FailTask, CompleteTask, StartTask
<1>3. CASE SkipTask(j.node)
  BY <1>3 DEF SkipTask, OpenApproval
<1>4. CASE ConsumeApproval(j.node)
  BY <1>4 DEF ConsumeApproval
<1>5. CASE ExpireApproval(j.node)
  BY <1>5 DEF ExpireApproval, Expirable, OpenApproval
<1> QED BY <1>1, <1>2, <1>3, <1>4, <1>5 DEF Perform, Commit

LEMMA ConsumedStays ==
  ASSUME TypeOK, [Next]_vars, NEW n \in Nodes, approval[n] = "CONSUMED"
  PROVE  approval'[n] = "CONSUMED"
<1>1. CASE WorkerStep
  <2>1. CASE UNCHANGED db
    BY <2>1 DEF db
  <2>2. CASE Perform(job)
    BY <2>2, PerformKeepsConsumed DEF TypeOK, ActivityTypeOK
  <2>3. CASE \E j \in stale : Perform(j)
    BY <2>3, PerformKeepsConsumed DEF TypeOK, ActivityTypeOK
  <2> QED BY <1>1, <2>1, <2>2, <2>3
          DEF WorkerStep, AttemptProgresses, AttemptReturns, AttemptRaises, AnswerLost,
              AttemptLosesAnswer, AttemptDies, AttemptAbandoned, StaleStep
<1>2. ASSUME NEW k \in Nodes,
             \/ Decide(k) \/ Revoke(k) \/ Claim(k) \/ RequestClarification(k)
             \/ SubmitForm(k) \/ SubmitInBulk(k) \/ AnswerAgain(k)
      PROVE  approval'[n] = "CONSUMED"
  BY <1>2 DEF Decide, Revoke, Claim, RequestClarification, SubmitForm, SubmitInBulk, Submit,
              AnswerAgain, db, OpenApproval, TypeOK, DatabaseTypeOK
<1>3. CASE DispatchRun \/ RedispatchRun \/ WorkflowStep \/ SendSignal \/ SignalFails \/ Control
  BY <1>3 DEF DispatchRun, RedispatchRun, Begin, WorkflowStep, SendSignal, Signal, SignalFails,
              Control, db
<1>4. CASE UNCHANGED vars
  BY <1>4 DEF vars, db
<1> QED BY <1>1, <1>2, <1>3, <1>4 DEF Next, People

\* The transaction of an approved attempt completes no unapproved node.
LEMMA PerformApproved ==
  ASSUME TypeOK, ApprovedBeforeExecuted, NEW j \in Job, JobApproved(j), Perform(j)
  PROVE  ApprovedBeforeExecuted'
<1> SUFFICES ASSUME NEW n \in Nodes, Kind[n] = "approval", task'[n] = "succeeded"
             PROVE  approval'[n] = "CONSUMED"
  BY DEF ApprovedBeforeExecuted
<1> USE DEF TypeOK, DatabaseTypeOK
<1>1. CASE task[n] = "succeeded"
  BY <1>1, PerformKeepsConsumed DEF ApprovedBeforeExecuted
<1>2. CASE task[n] # "succeeded"
  <2>1. Completes(j) /\ CompleteTask(j.node)
    BY <1>2 DEF Perform, Commit, db, TransitionRun, ActivateTask, SkipTask, FailTask,
                ConsumeApproval, ExpireApproval, StartTask
  <2>2. j.node = n
    BY <1>2, <2>1 DEF CompleteTask
  <2>3. approval[n] = "CONSUMED"
    BY <2>1, <2>2 DEF Completes, JobApproved
  <2> QED BY <2>1, <2>3 DEF CompleteTask
<1> QED BY <1>1, <1>2

\* What the workflow calls next does no node's work, and where it consumes an
\* approval it is the one of the node in progress.
Executing == {"complete", "agent", "connector"}
PlainCall ==
  /\ job'.act \notin Executing
  /\ pc' = "consuming" => job' = OnTask("consume", active')

LEMMA ThrowCalls ==
  ASSUME Throw PROVE job'.act \notin Executing /\ pc' # "consuming"
  BY DEF Throw, RequestMove, Call, OnTask, OnRun, Executing

LEMMA PassCalls ==
  ASSUME Pass PROVE job'.act \notin Executing /\ pc' # "consuming"
  BY ThrowCalls DEF Pass, Goto, NoJob, Executing

LEMMA FinishCalls ==
  ASSUME Finish PROVE job'.act \notin Executing /\ pc' # "consuming"
  BY ThrowCalls DEF Finish, RequestMove, Call, OnRun, Executing

LEMMA WorkflowCalls ==
  ASSUME WorkflowStep PROVE PlainCall
<1>1. CASE Loop
  BY <1>1, PassCalls, FinishCalls DEF Loop, RequestMove, Call, OnRun, Executing, PlainCall
<1>2. CASE Await \/ Resumed
  BY <1>2, PassCalls DEF Await, Resumed, RequestMove, Call, OnRun, Executing, PlainCall
<1>3. CASE SkipNext \/ ActivateNext
  BY <1>3 DEF SkipNext, ActivateNext, Call, Goto, NoJob, OnTask, Executing, PlainCall
<1>4. CASE AwaitHuman \/ AwaitApproval
  BY <1>4 DEF AwaitHuman, AwaitApproval, Leave, Answer, Call, Goto, NoJob, OnTask, Executing,
              PlainCall
<1> QED BY <1>1, <1>2, <1>3, <1>4 DEF WorkflowStep

LEMMA FailedCalls ==
  ASSUME Failed PROVE PlainCall
  BY ThrowCalls DEF Failed, Goto, Call, NoJob, OnTask, Executing, PlainCall

\* Work is called for after an activation, if the node needs no person, or
\* after a consumption.
LEMMA ReturnedCalls ==
  ASSUME Returned
  PROVE  \/ PlainCall
         \/ /\ job' = WorkOf(active) /\ pc' = "working"
            /\ Kind[active] \notin {"human", "approval"}
         \/ pc = "consuming" /\ job' = OnTask("complete", active) /\ pc' = "working"
<1> USE DEF PlainCall, Executing
<1>1. CASE pc \in {"starting", "pausing", "resuming", "skipping", "reading", "working",
                   "refusing", "expiring", "ending", "stopping", "succeeding", "failing"}
  BY <1>1 DEF Returned, Goto, NoJob
<1>2. CASE pc \in {"recording", "closefail", "cancelling"}
  BY <1>2 DEF Returned, Goto, NoJob, RequestMove, Call, OnRun
<1>3. CASE pc = "activating"
  BY <1>3 DEF Returned, Goto, NoJob, Call
<1>4. CASE pc = "consuming"
  BY <1>4 DEF Returned, Call
<1> QED BY <1>1, <1>2, <1>3, <1>4 DEF Returned

\* Retrying an attempt or moving it to its next phase changes neither what it
\* does nor to which node.
LEMMA PhaseOnly ==
  \A j \in Job : /\ Following(j).act = j.act /\ Following(j).node = j.node
                /\ [j EXCEPT !.phase = "start"].act = j.act
                /\ [j EXCEPT !.phase = "start"].node = j.node
  BY Zenon DEF Job, Following

LEMMA ApprovedStays ==
  ASSUME TypeOK, [Next]_vars, NEW j, JobApproved(j)
  PROVE  JobApproved(j)'
  BY ConsumedStays DEF JobApproved

\* A plain call, a retry and an attempt left as it is need no approval.
LEMMA PlainCallApproved ==
  ASSUME PlainCall PROVE JobApproved(job)'
  BY DEF PlainCall, Executing, JobApproved

LEMMA AgainApproved ==
  ASSUME TypeOK, ApprovalInv, [Next]_vars, Again
  PROVE  JobApproved(job)' /\ (pc' = "consuming" => job' = OnTask("consume", active'))
<1>1. CASE job' = [job EXCEPT !.phase = "start"] /\ UNCHANGED flow
  <2>1. job \in Job /\ JobApproved(job)
    BY DEF TypeOK, ActivityTypeOK, ApprovalInv
  <2>2. JobApproved(job') => JobApproved(job)'
    BY ConsumedStays DEF JobApproved
  <2>3. JobApproved(job')
    BY <1>1, <2>1, PhaseOnly DEF JobApproved
  <2>4. CASE pc' = "consuming"
    <3>1. job = OnTask("consume", active) /\ active' = active
      BY <1>1, <2>4 DEF flow, ApprovalInv
    <3>2. [OnTask("consume", active) EXCEPT !.phase = "start"] = OnTask("consume", active)
      BY DEF OnTask
    <3> QED BY <1>1, <2>2, <2>3, <3>1, <3>2
  <2> QED BY <2>2, <2>3, <2>4
<1>2. CASE Failed
  BY <1>2, FailedCalls, PlainCallApproved DEF PlainCall
<1> QED BY <1>1, <1>2 DEF Again

\* The work called for when an activity returned is approved.
LEMMA ReturnedApproved ==
  ASSUME TypeOK, ApprovalInv, [Next]_vars, AttemptReturns
  PROVE  JobApproved(job)' /\ (pc' = "consuming" => job' = OnTask("consume", active'))
<1>1. CASE PlainCall
  BY <1>1, PlainCallApproved DEF PlainCall
<1>2. CASE /\ job' = WorkOf(active) /\ pc' = "working"
           /\ Kind[active] \notin {"human", "approval"}
  BY <1>2 DEF WorkOf, OnTask, JobApproved
<1>3. CASE pc = "consuming" /\ job' = OnTask("complete", active) /\ pc' = "working"
  <2>1. job = OnTask("consume", active)
    BY <1>3 DEF ApprovalInv
  <2>2. job.act = "consume" /\ job.node = active
    BY <2>1 DEF OnTask
  <2>3. ConsumeApproval(active)
    BY <2>2 DEF AttemptReturns, Perform, StopsForReview, IsSend, Commit, NothingToDo, Completes,
                Starts
  <2>4. active \in Nodes => approval'[active] = "CONSUMED"
    BY <2>3 DEF ConsumeApproval, TypeOK, DatabaseTypeOK
  <2> QED BY <1>3, <2>4 DEF OnTask, JobApproved
<1> QED BY <1>1, <1>2, <1>3, ReturnedCalls DEF AttemptReturns

LEMMA ApprovalWorkerStep ==
  ASSUME TypeOK, ApprovalInv, [Next]_vars, WorkerStep
  PROVE  ApprovalInv'
<1>1. job \in Job /\ stale \subseteq Job
  BY DEF TypeOK, ActivityTypeOK
<1>2. \A j \in stale \cup {job} : JobApproved(j)'
  BY ApprovedStays DEF ApprovalInv
<1>3. Perform(job) => ApprovedBeforeExecuted'
  BY <1>1, PerformApproved DEF ApprovalInv
<1>4. UNCHANGED db => ApprovedBeforeExecuted'
  BY DEF db, ApprovedBeforeExecuted, ApprovalInv
<1>5. CASE AttemptProgresses
  <2>1. JobApproved(job)'
    <3>1. job'.act = job.act /\ job'.node = job.node
      BY <1>1, <1>5, PhaseOnly DEF AttemptProgresses
    <3>2. ASSUME NEW j, j = job
          PROVE  JobApproved(j)'
      BY <1>2, <3>2
    <3>3. ASSUME NEW j, j.act = job'.act, j.node = job'.node
          PROVE  JobApproved(j)'
      BY <3>1, <3>2, <3>3 DEF JobApproved
    <3> QED BY <3>3 DEF JobApproved
  <2>2. pc # "consuming"
    BY <1>5 DEF AttemptProgresses, ApprovalInv, Final, OnTask
  <2> QED BY <1>2, <1>3, <1>5, <2>1, <2>2 DEF AttemptProgresses, flow, ApprovalInv
<1>6. CASE AttemptReturns
  BY <1>2, <1>3, <1>4, <1>6, ReturnedApproved DEF AttemptReturns, ApprovalInv
<1>7. CASE AttemptRaises \/ AnswerLost \/ AttemptLosesAnswer \/ AttemptDies
  BY <1>2, <1>3, <1>4, <1>7, AgainApproved
     DEF AttemptRaises, AnswerLost, AttemptLosesAnswer, AttemptDies, ApprovalInv
<1>8. CASE AttemptAbandoned
  BY <1>2, <1>4, <1>8, AgainApproved DEF AttemptAbandoned, ApprovalInv
<1>9. CASE StaleStep
  <2>1. UNCHANGED <<pc, active, job>>
    BY <1>9 DEF StaleStep, flow
  <2>2. PICK j \in stale :
          \/ Perform(j) /\ stale' = (stale \ {j}) \cup (IF Final(j) THEN {} ELSE {Following(j)})
          \/ stale' = stale \ {j} /\ UNCHANGED <<db, provider>>
    BY <1>9 DEF StaleStep
  <2>3. ApprovedBeforeExecuted'
    BY <1>1, <1>4, <2>2, PerformApproved DEF ApprovalInv
  <2>4. JobApproved(Following(j))'
    BY <1>1, <1>2, PhaseOnly DEF JobApproved
  <2>5. \A k \in stale' \cup {job'} : JobApproved(k)'
    BY <1>2, <2>1, <2>2, <2>4
  <2> QED BY <2>1, <2>3, <2>5 DEF ApprovalInv
<1> QED BY <1>5, <1>6, <1>7, <1>8, <1>9 DEF WorkerStep

LEMMA ApprovalStep ==
  ASSUME TypeOK, ApprovalInv, [Next]_vars
  PROVE  ApprovalInv'
<1>1. \A j \in stale \cup {job} : JobApproved(j)'
  BY ApprovedStays DEF ApprovalInv
<1>2. UNCHANGED db => ApprovedBeforeExecuted'
  BY DEF db, ApprovedBeforeExecuted, ApprovalInv
<1>3. CASE DispatchRun \/ RedispatchRun
  <2>1. job' = OnRun("queued", "running", 1) /\ pc' = "starting" /\ UNCHANGED <<db, stale>>
    BY <1>3 DEF DispatchRun, RedispatchRun, Begin, Call
  <2>2. JobApproved(job)'
    BY <2>1 DEF JobApproved, OnRun
  <2> QED BY <1>1, <1>2, <2>1, <2>2 DEF ApprovalInv
<1>4. CASE WorkflowStep
  <2>1. PlainCall
    BY <1>4, WorkflowCalls
  <2> QED BY <1>1, <1>2, <1>4, <2>1, PlainCallApproved DEF WorkflowStep, PlainCall, ApprovalInv
<1>5. CASE WorkerStep
  BY <1>5, ApprovalWorkerStep
<1>6. CASE People
  <2>1. UNCHANGED <<job, stale, pc, active>>
    BY <1>6 DEF People, flow
  <2>2. ASSUME NEW n \in Nodes, Kind[n] = "approval", task'[n] = "succeeded"
        PROVE  task[n] = "succeeded"
    BY <1>6, <2>2 DEF People, Decide, Revoke, Claim, RequestClarification, SubmitForm,
                 SubmitInBulk, Submit, AnswerAgain, db, TypeOK, DatabaseTypeOK
  <2>3. ApprovedBeforeExecuted'
    BY <2>2, ConsumedStays DEF ApprovedBeforeExecuted, ApprovalInv
  <2> QED BY <1>1, <2>1, <2>3 DEF ApprovalInv
<1>7. CASE SendSignal \/ SignalFails \/ Control
  BY <1>1, <1>2, <1>7 DEF SendSignal, Signal, SignalFails, Control, flow, ApprovalInv
<1>8. CASE UNCHANGED vars
  BY <1>1, <1>2, <1>8 DEF vars, flow, ApprovalInv
<1> QED BY <1>3, <1>4, <1>5, <1>6, <1>7, <1>8 DEF Next

LEMMA ApprovalKept == Spec => []ApprovalInv
<1>1. Init => ApprovalInv
  BY DEF Init, ApprovalInv, ApprovedBeforeExecuted, JobApproved, NoJob
<1>2. TypeOK /\ ApprovalInv /\ [Next]_vars => ApprovalInv'
  BY ApprovalStep
<1> QED BY <1>1, <1>2, TypeCorrect, PTL DEF Spec

\* An approval node's task only succeeds under a consumed approval: no retry,
\* attempt that outlives its timeout, revocation or expiry gets around
\* consumeForNode.
THEOREM ApprovalsHonoured == Spec => []ApprovedBeforeExecuted
<1>1. ApprovalInv => ApprovedBeforeExecuted
  BY DEF ApprovalInv
<1> QED BY <1>1, ApprovalKept, PTL

-----------------------------------------------------------------------------
(* Providers are called behind consumed approvals only. *)

\* Some way into n asks for no approval, or for one that was consumed.
Authorized(n) ==
  Into(n) # {} =>
    \E e \in Into(n) : \/ e.path = "failure" \/ Kind[e.source] # "approval"
                       \/ approval[e.source] = "CONSUMED"

\* The same of the next state, for a node named in this one.
AuthorizedAfter(n) ==
  Into(n) # {} =>
    \E e \in Into(n) : \/ e.path = "failure" \/ Kind[e.source] # "approval"
                       \/ approval'[e.source] = "CONSUMED"

JobAuthorized(j) == j.act = "connector" => Authorized(j.node)
JobAuthorizedAfter(j) == j.act = "connector" => AuthorizedAfter(j.node)

\* What the workflow has routed to success, or is about to, was consumed.
RoutedConsumed ==
  /\ \A n \in Nodes : Kind[n] = "approval" /\ routed[n] = "succeeded" => approval[n] = "CONSUMED"
  /\ pc \in {"reading", "working"} /\ active \in Nodes /\ Kind[active] = "approval" =>
       approval[active] = "CONSUMED"

BatchAuthorized == \A n \in ready \cup {active} : Authorized(n)

EffectInv ==
  /\ EffectsAuthorized
  /\ \A j \in stale \cup {job} : JobAuthorized(j)
  /\ RoutedConsumed
  /\ BatchAuthorized

LEMMA NoneAuthorized == Authorized(None) /\ AuthorizedAfter(None)
BY PlanAssumption DEF Authorized, AuthorizedAfter, Into, Edge

LEMMA AuthorizedStays ==
  ASSUME TypeOK, [Next]_vars, NEW n, Authorized(n)
  PROVE  AuthorizedAfter(n)
<1>1. \A e \in Into(n) : e.source \in Nodes
  BY PlanAssumption DEF Into, Edge
<1>2. \A k \in Nodes : approval[k] = "CONSUMED" => approval'[k] = "CONSUMED"
  BY ConsumedStays
<1> QED BY <1>1, <1>2 DEF Authorized, AuthorizedAfter

LEMMA JobAuthorizedStays ==
  ASSUME TypeOK, [Next]_vars, NEW j, JobAuthorized(j)
  PROVE  JobAuthorizedAfter(j)
BY AuthorizedStays DEF JobAuthorized, JobAuthorizedAfter

\* The parts of the invariant in the next state.
LEMMA EffectsAfter ==
  ASSUME EffectsAuthorized', RoutedConsumed',
  \A j \in stale' \cup {job'} : JobAuthorizedAfter(j),
         \A n \in ready' \cup {active'} : AuthorizedAfter(n)
  PROVE  EffectInv'
BY DEF EffectInv, BatchAuthorized, JobAuthorized, JobAuthorizedAfter, Authorized,
      AuthorizedAfter,
       Into

\* A provider is only called for an authorized job.
LEMMA PerformEffects ==
  ASSUME TypeOK, [Next]_vars, EffectsAuthorized, NEW j \in Job, JobAuthorized(j),
         Perform(j) \/ (IsSend(j) /\ CallProviderUnanswered(j.node)) \/ UNCHANGED provider
  PROVE  EffectsAuthorized'
<1>1. \A n \in Nodes : Authorized(n) => AuthorizedAfter(n)
  BY AuthorizedStays
<1>2. ASSUME NEW n \in Nodes, sent'[n] > 0 PROVE Authorized(n)
  <2>1. CASE sent[n] > 0
    BY <2>1 DEF EffectsAuthorized, Authorized
  <2>2. CASE ~(sent[n] > 0)
    <3>1. IsSend(j) /\ sent' = [sent EXCEPT ![j.node] = @ + 1]
      BY <1>2, <2>2 DEF Perform, CallProvider, CallProviderUnanswered, provider
    <3>2. j.node = n
      BY <1>2, <2>2, <3>1 DEF TypeOK
    <3> QED BY <3>1, <3>2 DEF IsSend, JobAuthorized
  <2> QED BY <2>1, <2>2
<1> QED BY <1>1, <1>2 DEF EffectsAuthorized, AuthorizedAfter

\* A node is made ready by an edge that its source's outcome selects.
LEMMA SelectedAuthorized ==
  ASSUME RoutedConsumed, NEW n \in Nodes, Selected(n)
  PROVE  Authorized(n)
<1>1. CASE Into(n) = {}
  BY <1>1 DEF Authorized
<1>2. CASE Into(n) # {}
  <2>1. PICK e \in Into(n) : EdgeSelected(e)
    BY <1>2 DEF Selected
  <2>2. e.source \in Nodes
    BY PlanAssumption DEF Into, Edge
  <2>3. e.path # "failure" => routed[e.source] = "succeeded"
    BY <2>1 DEF EdgeSelected
  <2> QED BY <2>2, <2>3 DEF RoutedConsumed, Authorized
<1> QED BY <1>1, <1>2

\* What a local step of the workflow does to its batch and its record.
LEMMA PassBatch ==
  ASSUME RoutedConsumed, BatchAuthorized, Pass
  PROVE  /\ \A n \in ready' : Authorized(n)
         /\ pc' \notin {"reading", "working"}
<1>1. CASE Settled = {}
  BY <1>1 DEF Pass, Throw, Call, RequestMove, BatchAuthorized
<1>2. CASE Settled # {}
  <2>1. \A n \in ready' : n \in Nodes /\ Selected(n)
    BY <1>2 DEF Pass, Settled, Unrouted, PlanNodes
  <2> QED BY <1>2, <2>1, SelectedAuthorized DEF Pass, Goto
<1> QED BY <1>1, <1>2

LEMMA LocalEffects ==
  ASSUME RoutedConsumed, BatchAuthorized, WorkflowStep
  PROVE  /\ \A n \in ready' \cup {active'} : Authorized(n)
         /\ routed' = routed /\ pc' # "working"
         /\ pc' = "reading" => Kind[active'] = "human"
<1>1. CASE Loop
  <2>1. CASE cancelled \/ stopped \/ Unrouted = {}
    BY <1>1, <2>1 DEF Loop, Finish, Throw, RequestMove, Call, BatchAuthorized
  <2>2. CASE ~(cancelled \/ stopped \/ Unrouted = {}) /\ paused /\ current = "running"
    BY <1>1, <2>2 DEF Loop, RequestMove, Call, BatchAuthorized
  <2>3. CASE Pass
    BY <1>1, <2>3, PassBatch DEF Loop, BatchAuthorized
  <2> QED BY <1>1, <2>1, <2>2, <2>3 DEF Loop
<1>2. CASE Await \/ Resumed
  <2>1. CASE Pass
    BY <1>2, <2>1, PassBatch DEF Await, Resumed, BatchAuthorized
  <2> QED BY <1>2, <2>1 DEF Await, Resumed, RequestMove, Call, BatchAuthorized
<1>3. CASE SkipNext \/ ActivateNext
  BY <1>3 DEF SkipNext, ActivateNext, Call, Goto, BatchAuthorized
<1>4. CASE AwaitHuman \/ AwaitApproval
  BY <1>4 DEF AwaitHuman, AwaitApproval, Leave, Answer, Call, Goto, BatchAuthorized
<1> QED BY <1>1, <1>2, <1>3, <1>4 DEF WorkflowStep

LEMMA FailedEffects ==
  ASSUME Failed
  PROVE  /\ UNCHANGED <<routed, ready, active>>
         /\ pc' \notin {"reading", "working"}
BY DEF Failed, Throw, RequestMove, Call, Goto

\* An activity that returns routes the node in progress, or the one skipped.
LEMMA ReturnedEffects ==
  ASSUME Returned
  PROVE  /\ ready' \subseteq ready /\ active' \in {active, None}
         /\ \/ routed' = routed
            \/ \E n, s : routed' = [routed EXCEPT ![n] = s] /\ s # "succeeded"
            \/ pc \in {"reading", "working"} /\ routed' = [routed EXCEPT ![active] = "succeeded"]
         /\ pc' # "reading"
         /\ pc' = "working" =>
              /\ active' = active
              /\ (pc = "activating" /\ Kind[active] # "approval") \/ pc = "consuming"
<1>1. CASE pc \in {"starting", "pausing", "resuming"}
  BY <1>1 DEF Returned, Goto
<1>2. CASE pc = "skipping"
  BY <1>2, "skipped" # "succeeded" DEF Returned, Goto, Route
<1>3. CASE pc \in {"reading", "working"}
  BY <1>3 DEF Returned, Goto, Route
<1>4. CASE pc \in {"refusing", "expiring", "recording"}
  <2>1. routed' = [routed EXCEPT ![active] = "failed"] /\ "failed" # "succeeded"
    BY <1>4 DEF Returned, Route
  <2> QED BY <1>4, <2>1 DEF Returned, Goto, RequestMove, Call
<1>5. CASE pc \in {"ending", "stopping", "succeeding", "failing", "closefail", "cancelling"}
  BY <1>5 DEF Returned, Goto, RequestMove, Call
<1>6. CASE pc = "activating"
  BY <1>6 DEF Returned, Goto, Call
<1>7. CASE pc = "consuming"
  BY <1>7 DEF Returned, Call
<1> QED BY <1>1, <1>2, <1>3, <1>4, <1>5, <1>6, <1>7 DEF Returned

\* The records of the workflow stay true while it does not move on.
LEMMA QuietEffects ==
  ASSUME TypeOK, EffectInv, [Next]_vars, UNCHANGED <<routed, ready, active>>,
         pc' = pc \/ pc' \notin {"reading", "working"}
  PROVE  RoutedConsumed' /\ \A n \in ready' \cup {active'} : AuthorizedAfter(n)
<1>1. \A n \in Nodes : approval[n] = "CONSUMED" => approval'[n] = "CONSUMED"
  BY ConsumedStays
<1>2. RoutedConsumed'
  BY <1>1 DEF EffectInv, RoutedConsumed
<1>3. \A n \in ready \cup {active} : AuthorizedAfter(n)
  BY AuthorizedStays DEF EffectInv, BatchAuthorized
<1> QED BY <1>2, <1>3

LEMMA AgainEffects ==
  ASSUME TypeOK, EffectInv, [Next]_vars, Again
  PROVE  /\ JobAuthorizedAfter(job') /\ RoutedConsumed'
         /\ \A n \in ready' \cup {active'} : AuthorizedAfter(n)
<1>1. CASE job' = [job EXCEPT !.phase = "start"] /\ UNCHANGED flow
  <2>1. job'.act = job.act /\ job'.node = job.node
    BY <1>1, PhaseOnly DEF TypeOK, ActivityTypeOK
  <2>2. JobAuthorizedAfter(job)
    BY JobAuthorizedStays DEF EffectInv
  <2>3. JobAuthorizedAfter(job')
    BY <2>1, <2>2 DEF JobAuthorizedAfter
  <2> QED BY <1>1, <2>3, QuietEffects DEF flow
<1>2. CASE Failed
  <2>1. JobAuthorizedAfter(job')
    BY <1>2, FailedCalls DEF PlainCall, Executing, JobAuthorizedAfter
  <2> QED BY <1>2, <2>1, FailedEffects, QuietEffects
<1> QED BY <1>1, <1>2 DEF Again

LEMMA ReturnsEffects ==
  ASSUME TypeOK, ApprovalInv, EffectInv, [Next]_vars, AttemptReturns
  PROVE  /\ JobAuthorizedAfter(job') /\ RoutedConsumed'
         /\ \A n \in ready' \cup {active'} : AuthorizedAfter(n)
<1>1. Returned
  BY DEF AttemptReturns
<1>2. \A n \in Nodes : approval[n] = "CONSUMED" => approval'[n] = "CONSUMED"
  BY ConsumedStays
<1>3. \A n \in ready \cup {active} : AuthorizedAfter(n)
  BY AuthorizedStays DEF EffectInv, BatchAuthorized
<1>4. \A n \in ready' \cup {active'} : AuthorizedAfter(n)
  <2>1. ready' \cup {active'} \subseteq ready \cup {active, None}
    BY <1>1, ReturnedEffects
  <2> QED BY <1>3, <2>1, NoneAuthorized
<1>5. JobAuthorizedAfter(job')
  <2>1. CASE PlainCall
    BY <2>1 DEF PlainCall, Executing, JobAuthorizedAfter
  <2>2. CASE job' = WorkOf(active)
    BY <2>2, <1>3 DEF WorkOf, OnTask, JobAuthorizedAfter
  <2>3. CASE job' = OnTask("complete", active)
    BY <2>3 DEF OnTask, JobAuthorizedAfter
  <2> QED BY <1>1, <2>1, <2>2, <2>3, ReturnedCalls
<1>6. \A n \in Nodes : Kind[n] = "approval" /\ routed'[n] = "succeeded" => approval'[n] = "CONSUMED"
  BY <1>1, <1>2, ReturnedEffects DEF EffectInv, RoutedConsumed, TypeOK, FlowTypeOK
<1>7. pc' \in {"reading", "working"} /\ active' \in Nodes /\ Kind[active'] = "approval" =>
        approval'[active'] = "CONSUMED"
  <2>1. SUFFICES ASSUME pc' = "working", pc = "consuming", active' = active, active \in Nodes
                 PROVE  approval'[active] = "CONSUMED"
    BY <1>1, ReturnedEffects
  <2>2. job.act = "consume" /\ job.node = active
    BY <2>1 DEF ApprovalInv, OnTask
  <2>3. ConsumeApproval(active)
    BY <2>2 DEF AttemptReturns, Perform, StopsForReview, IsSend, Commit, NothingToDo, Completes,
                Starts
  <2> QED BY <2>1, <2>3 DEF ConsumeApproval, TypeOK, DatabaseTypeOK
<1> QED BY <1>4, <1>5, <1>6, <1>7 DEF RoutedConsumed

LEMMA EffectWorkerStep ==
  ASSUME TypeOK, ApprovalInv, EffectInv, [Next]_vars, WorkerStep
  PROVE  EffectInv'
<1>1. job \in Job /\ stale \subseteq Job
  BY DEF TypeOK, ActivityTypeOK
<1>2. \A j \in stale \cup {job} : JobAuthorized(j) /\ JobAuthorizedAfter(j)
  BY JobAuthorizedStays DEF EffectInv
<1>3. Perform(job) \/ (IsSend(job) /\ CallProviderUnanswered(job.node)) \/ UNCHANGED provider
        => EffectsAuthorized'
  BY <1>1, <1>2, PerformEffects DEF EffectInv
<1>4. CASE AttemptProgresses
  <2>1. JobAuthorizedAfter(job')
    BY <1>1, <1>2, <1>4, PhaseOnly DEF AttemptProgresses, JobAuthorizedAfter
  <2>2. RoutedConsumed' /\ \A n \in ready' \cup {active'} : AuthorizedAfter(n)
    BY <1>4, QuietEffects DEF AttemptProgresses, flow
  <2> QED BY <1>2, <1>3, <1>4, <2>1, <2>2, EffectsAfter DEF AttemptProgresses
<1>5. CASE AttemptReturns
  BY <1>2, <1>3, <1>5, ReturnsEffects, EffectsAfter DEF AttemptReturns
<1>6. CASE AttemptRaises \/ AnswerLost \/ AttemptLosesAnswer \/ AttemptDies
  BY <1>2, <1>3, <1>6, AgainEffects, EffectsAfter
     DEF AttemptRaises, AnswerLost, AttemptLosesAnswer, AttemptDies
<1>7. CASE AttemptAbandoned
  BY <1>2, <1>3, <1>7, AgainEffects, EffectsAfter DEF AttemptAbandoned
<1>8. CASE StaleStep
  <2>1. UNCHANGED <<job, pc, routed, ready, active>>
    BY <1>8 DEF StaleStep, flow
  <2>2. PICK j \in stale :
          \/ Perform(j) /\ stale' = (stale \ {j}) \cup (IF Final(j) THEN {} ELSE {Following(j)})
          \/ stale' = stale \ {j} /\ UNCHANGED <<db, provider>>
    BY <1>8 DEF StaleStep
  <2>3. EffectsAuthorized'
    BY <1>1, <1>2, <2>2, PerformEffects DEF EffectInv
  <2>4. JobAuthorizedAfter(Following(j))
    BY <1>1, <1>2, PhaseOnly DEF JobAuthorizedAfter
  <2>5. \A k \in stale' \cup {job'} : JobAuthorizedAfter(k)
    BY <1>2, <2>1, <2>2, <2>4
  <2> QED BY <2>1, <2>3, <2>5, QuietEffects, EffectsAfter
<1> QED BY <1>4, <1>5, <1>6, <1>7, <1>8 DEF WorkerStep

LEMMA EffectStep ==
  ASSUME TypeOK, ApprovalInv, EffectInv, [Next]_vars
  PROVE  EffectInv'
<1>1. \A j \in stale \cup {job} : JobAuthorizedAfter(j)
  BY JobAuthorizedStays DEF EffectInv
<1>2. UNCHANGED provider => EffectsAuthorized'
  <2>1. ASSUME NEW n \in Nodes, sent[n] > 0 PROVE AuthorizedAfter(n)
    BY <2>1, AuthorizedStays DEF EffectInv, EffectsAuthorized, Authorized
  <2> QED BY <2>1 DEF provider, EffectsAuthorized, AuthorizedAfter
<1>3. CASE DispatchRun \/ RedispatchRun
  <2>1. /\ job' = OnRun("queued", "running", 1) /\ pc' = "starting"
        /\ UNCHANGED <<stale, provider>>
        /\ routed' = [n \in Nodes |-> "pending"] /\ ready' = {} /\ active' = None
    BY <1>3 DEF DispatchRun, RedispatchRun, Begin, Call
  <2>2. JobAuthorizedAfter(job') /\ RoutedConsumed'
    BY <2>1 DEF JobAuthorizedAfter, OnRun, RoutedConsumed
  <2>3. \A n \in ready' \cup {active'} : AuthorizedAfter(n)
    BY <2>1, NoneAuthorized
  <2> QED BY <1>1, <1>2, <2>1, <2>2, <2>3, EffectsAfter
<1>4. CASE WorkflowStep
  <2>1. JobAuthorizedAfter(job')
    BY <1>4, WorkflowCalls DEF PlainCall, Executing, JobAuthorizedAfter
  <2>2. /\ \A n \in ready' \cup {active'} : Authorized(n)
        /\ routed' = routed /\ pc' # "working"
        /\ pc' = "reading" => Kind[active'] = "human"
    BY <1>4, LocalEffects DEF EffectInv
  <2>3. UNCHANGED <<db, stale, provider>>
    BY <1>4 DEF WorkflowStep
  <2>4. \A n \in ready' \cup {active'} : AuthorizedAfter(n)
    BY <2>2, AuthorizedStays
  <2>5. RoutedConsumed'
    BY <2>2, <2>3 DEF RoutedConsumed, EffectInv, db
  <2> QED BY <1>1, <1>2, <2>1, <2>3, <2>4, <2>5, EffectsAfter
<1>5. CASE WorkerStep
  BY <1>5, EffectWorkerStep
<1>6. CASE People \/ SendSignal \/ SignalFails \/ Control \/ UNCHANGED vars
  <2>1. UNCHANGED <<pc, routed, ready, active, job, stale, provider>>
    BY <1>6 DEF People, SendSignal, Signal, SignalFails, Control, flow, vars
  <2> QED BY <1>1, <1>2, <2>1, QuietEffects, EffectsAfter
<1> QED BY <1>3, <1>4, <1>5, <1>6 DEF Next

\* No provider is called for a node whose every way in leads from an approval that was
\* not consumed, whatever is retried, abandoned, revoked or expired (runtimeEdgeSelected,
\* consumeForNode).
THEOREM EffectsBehindApprovals == Spec => []EffectsAuthorized
<1>1. Init => EffectInv
  BY NoneAuthorized DEF Init, EffectInv, EffectsAuthorized, JobAuthorized, RoutedConsumed,
     BatchAuthorized, NoJob
<1>2. TypeOK /\ ApprovalInv /\ EffectInv /\ [Next]_vars => EffectInv'
  BY ApprovalStep, EffectStep
<1>3. EffectInv => EffectsAuthorized
  BY DEF EffectInv
<1> QED BY <1>1, <1>2, <1>3, TypeCorrect, ApprovalKept, PTL DEF Spec

-----------------------------------------------------------------------------
(* What the workflow function is doing, and with which node. *)

Waiting == {n \in Nodes : routed[n] = "pending"}
Sourced(n) == \A e \in Into(n) : routed[e.source] # "pending"

\* Where the function stands: between two activities, in one that moves the run's row,
\* busy with a node, or on its way out.
Between == {"idle", "loop", "await", "resumed", "skips", "ready", "waiting", "closed"}
Moving == {"starting", "pausing", "resuming", "cancelling", "ending", "stopping", "succeeding",
           "failing"}
InProgress == {"activating", "waiting", "reading", "consuming", "refusing", "expiring",
               "recording", "working"}
Closing == {"closefail", "failing", "cancelling", "ending", "stopping", "succeeding", "closed"}

\* The activity it waits for is the one its place in the code calls.
JobInv ==
  /\ pc \in Between => job = NoJob
  /\ pc \in Moving => job.act = "transition"
  /\ pc = "skipping" => job.act = "skip" /\ job.node \in skips
  /\ pc = "activating" => job.act = "activate" /\ job.node = active
  /\ pc = "waiting" => Kind[active] \in {"human", "approval"}
  /\ pc = "reading" => /\ job.act = "read" /\ job.node = active
                       /\ Kind[active] = "human" /\ active \in humanDone
  /\ pc = "consuming" => job.act = "consume" /\ job.node = active /\ Kind[active] = "approval"
  /\ pc = "refusing" => job.act = "fail" /\ job.node = active /\ Kind[active] = "approval"
  /\ pc = "expiring" => job.act = "expire" /\ job.node = active /\ Kind[active] = "approval"
  /\ pc \in {"recording", "closefail"} => job.act = "fail" /\ job.node = active
  /\ pc = "working" => /\ job.act = WorkOf(active).act /\ job.node = active
                       /\ Kind[active] # "human"

\* What it still has to skip or to make ready waits for no other node.
QueueInv ==
  /\ ready \cup skips \subseteq Waiting /\ ready \cap skips = {}
  /\ \A n \in skips : Into(n) # {}
  /\ \A n \in ready \cup skips : Sourced(n)
  /\ active \in Nodes => Sourced(active)

\* The node in progress has no end yet and is in progress once.
PlaceInv ==
  /\ pc \in InProgress \cup {"ready"} => skips = {}
  /\ pc \in InProgress => active \in Waiting \ ready
  /\ pc = "closefail" => active \in Waiting
  /\ stopped => pc \in Closing \cup {"loop"}
  /\ started = "no" <=> pc = "idle"
  /\ started # "full" => Waiting = Nodes /\ ready = {} /\ skips = {} /\ active = None

FlowInv == JobInv /\ QueueInv /\ PlaceInv

\* Routing a node takes it out of the waiting ones and holds up no other.
LEMMA RouteFacts ==
  ASSUME FlowTypeOK, NEW n \in Nodes, NEW s, s # "pending", Route(n, s)
  PROVE  /\ Waiting' = Waiting \ {n}
         /\ \A m : Sourced(m) => \A e \in Into(m) : routed'[e.source] # "pending"
         /\ \A m \in Nodes \ {n} : routed'[m] = routed[m]
<1>1. /\ routed' = [routed EXCEPT ![n] = s]
      /\ routed \in [Nodes -> {"pending", "succeeded", "failed", "skipped"}]
  BY DEF Route, FlowTypeOK
<1>2. \A m \in Nodes : routed'[m] = IF m = n THEN s ELSE routed[m]
  BY <1>1
<1>3. \A m : \A e \in Into(m) : e.source \in Nodes
  BY PlanAssumption DEF Into, Edge
<1> QED BY <1>2, <1>3 DEF Waiting, Sourced

LEMMA ThrowFlow ==
  ASSUME TypeOK, FlowInv, Throw, stopped => pc \in Closing \cup {"loop"}, pc # "idle",
         UNCHANGED <<routed, ready, skips, active, stopped, started, humanDone>>
  PROVE  FlowInv'
<1>1. CASE active # None /\ active \in Unrouted
  <2>1. pc' = "closefail" /\ job'.act = "fail" /\ job'.node = active
    BY <1>1 DEF Throw, Call, OnTask
  <2>2. active \in Waiting
    BY <1>1 DEF Unrouted, PlanNodes, Waiting
  <2>3. JobInv'
    BY <2>1 DEF JobInv, Between, Moving
  <2>4. QueueInv'
    BY DEF FlowInv, QueueInv, Waiting, Sourced
  <2>5. PlaceInv'
    BY <2>1, <2>2 DEF FlowInv, PlaceInv, InProgress, Closing, Waiting
  <2> QED BY <2>3, <2>4, <2>5 DEF FlowInv
<1>2. CASE ~(active # None /\ active \in Unrouted)
  <2>1. pc' = "failing" /\ job'.act = "transition"
    BY <1>2 DEF Throw, RequestMove, Call, OnRun
  <2>3. JobInv'
    BY <2>1 DEF JobInv, Between
  <2>4. QueueInv'
    BY DEF FlowInv, QueueInv, Waiting, Sourced
  <2>5. PlaceInv'
    BY <2>1 DEF FlowInv, PlaceInv, InProgress, Closing, Waiting
  <2> QED BY <2>3, <2>4, <2>5 DEF FlowInv
<1> QED BY <1>1, <1>2

\* A request to move the row, and a step to a place without an activity.
LEMMA RequestFlow ==
  ASSUME TypeOK, FlowInv, NEW p, p \in Moving, NEW from, NEW to, RequestMove(p, from, to),
         stopped => p \in Closing, pc # "idle",
         UNCHANGED <<routed, ready, skips, active, stopped, started, humanDone>>
  PROVE  FlowInv'
<1>1. pc' = p /\ job'.act = "transition"
  BY DEF RequestMove, Call, OnRun
<1>2. JobInv'
  BY <1>1 DEF JobInv, Between, Moving
<1>3. QueueInv'
  BY DEF FlowInv, QueueInv, Waiting, Sourced
<1>4. PlaceInv'
  BY <1>1 DEF FlowInv, PlaceInv, InProgress, Moving, Waiting
<1> QED BY <1>2, <1>3, <1>4 DEF FlowInv

LEMMA PassFlow ==
  ASSUME TypeOK, FlowInv, Pass, pc # "idle", ~stopped,
         UNCHANGED <<routed, active, stopped, started, humanDone>>
  PROVE  FlowInv'
<1>1. CASE Settled = {}
  BY <1>1, ThrowFlow DEF Pass
<1>2. CASE Settled # {}
  <2>1. /\ ready' = {n \in Settled : Selected(n)} /\ skips' = {n \in Settled : ~Selected(n)}
        /\ pc' = "skips" /\ job' = NoJob
    BY <1>2 DEF Pass, Goto
  <2>2. \A n \in Settled : n \in Waiting /\ Sourced(n) /\ started = "full"
    BY DEF Settled, Unrouted, PlanNodes, Waiting, Sourced
  <2>3. JobInv'
    BY <2>1 DEF JobInv, Between, Moving
  <2>4. \A n \in skips' : Into(n) # {}
    BY <2>1 DEF Selected
  <2>5. QueueInv'
    BY <2>1, <2>2, <2>4 DEF FlowInv, QueueInv, Waiting, Sourced
  <2>6. PlaceInv'
    BY <1>2, <2>1, <2>2 DEF FlowInv, PlaceInv, InProgress, Closing, Waiting
  <2> QED BY <2>3, <2>5, <2>6 DEF FlowInv
<1> QED BY <1>1, <1>2

LEMMA LocalFlow ==
  ASSUME TypeOK, FlowInv, WorkflowStep
  PROVE  FlowInv'
<1>1. UNCHANGED <<started, humanDone>>
  BY DEF WorkflowStep, signals
<1>2. CASE Loop
  <2>1. pc = "loop" /\ UNCHANGED <<routed, active, stopped>>
    BY <1>2 DEF Loop
  <2>2. CASE cancelled \/ stopped \/ Unrouted = {}
    <3>1. Finish
      BY <1>2, <2>2 DEF Loop
    <3>2. ready' = ready /\ skips' = skips
      BY <3>1 DEF Finish
    <3>3. {"cancelling", "stopping", "succeeding"} \subseteq Moving \cap Closing
      BY DEF Moving, Closing
    <3>4. CASE Throw
      BY <1>1, <2>1, <3>2, <3>4, ThrowFlow
    <3>5. CASE ~Throw
      <4>1. \/ RequestMove("cancelling", current, "cancelling")
            \/ RequestMove("stopping", current, "policy_stopped")
            \/ RequestMove("succeeding", current, "succeeded")
        BY <3>1, <3>5 DEF Finish
      <4> QED BY <1>1, <2>1, <3>2, <3>3, <4>1, RequestFlow
    <3> QED BY <3>4, <3>5
  <2>3. CASE ~(cancelled \/ stopped \/ Unrouted = {}) /\ paused /\ current = "running"
    <3>1. RequestMove("pausing", "running", "paused") /\ UNCHANGED <<ready, skips>>
      BY <1>2, <2>3 DEF Loop
    <3>2. "pausing" \in Moving
      BY DEF Moving
    <3> QED BY <1>1, <2>1, <2>3, <3>1, <3>2, RequestFlow
  <2>4. CASE ~(cancelled \/ stopped \/ Unrouted = {}) /\ ~(paused /\ current = "running")
    <3>1. Pass
      BY <1>2, <2>4 DEF Loop
    <3> QED BY <1>1, <2>1, <2>4, <3>1, PassFlow
  <2> QED BY <2>2, <2>3, <2>4
<1>3. CASE Await \/ Resumed
  <2>1. pc \in {"await", "resumed"} /\ UNCHANGED <<routed, active, stopped>>
    BY <1>3 DEF Await, Resumed
  <2>2. ~stopped
    BY <2>1 DEF FlowInv, PlaceInv, Closing
  <2>3. CASE Pass
    BY <1>1, <2>1, <2>2, <2>3, PassFlow
  <2>4. CASE ~Pass
    <3>1. RequestMove("resuming", "paused", "running") /\ UNCHANGED <<ready, skips>>
      BY <1>3, <2>4 DEF Await, Resumed
    <3>2. "resuming" \in Moving
      BY DEF Moving
    <3> QED BY <1>1, <2>1, <2>2, <3>1, <3>2, RequestFlow
  <2> QED BY <2>3, <2>4
<1>4. CASE SkipNext
  <2>1. /\ pc = "skips" /\ UNCHANGED <<routed, skips, ready, active, stopped>>
        /\ \/ skips = {} /\ pc' = "ready" /\ job' = NoJob
           \/ \E n \in skips : pc' = "skipping" /\ job' = OnTask("skip", n)
    BY <1>4 DEF SkipNext, Goto, Call
  <2>2. JobInv'
    BY <2>1 DEF JobInv, Between, Moving, OnTask
  <2>3. QueueInv' /\ PlaceInv'
    BY <1>1, <2>1 DEF FlowInv, QueueInv, PlaceInv, Waiting, Sourced, InProgress, Closing
  <2> QED BY <2>2, <2>3 DEF FlowInv
<1>5. CASE ActivateNext
  <2>1. /\ pc = "ready" /\ UNCHANGED <<routed, skips, stopped>>
        /\ \/ ready = {} /\ pc' = "loop" /\ job' = NoJob /\ UNCHANGED <<ready, active>>
           \/ \E n \in ready : /\ pc' = "activating" /\ job' = OnTask("activate", n)
                               /\ active' = n /\ ready' = ready \ {n}
    BY <1>5 DEF ActivateNext, Goto, Call
  <2>2. JobInv'
    BY <2>1 DEF JobInv, Between, Moving, OnTask
  <2>3. QueueInv' /\ PlaceInv'
    BY <1>1, <2>1 DEF FlowInv, QueueInv, PlaceInv, Waiting, Sourced, InProgress, Closing
  <2> QED BY <2>2, <2>3 DEF FlowInv
<1>6. CASE AwaitHuman \/ AwaitApproval
  <2>1. pc = "waiting" /\ UNCHANGED <<routed, skips, active, stopped>>
    BY <1>6 DEF AwaitHuman, AwaitApproval, Leave, Answer
  <2>2. CASE Leave
    <3>1. pc' = "loop" /\ job' = NoJob /\ ready' = {}
      BY <2>2 DEF Leave, Goto
    <3>2. JobInv'
      BY <3>1 DEF JobInv, Between, Moving
    <3>3. QueueInv' /\ PlaceInv'
      BY <1>1, <2>1, <3>1 DEF FlowInv, QueueInv, PlaceInv, Waiting, Sourced, InProgress, Closing
    <3> QED BY <3>2, <3>3 DEF FlowInv
  <2>3. CASE ~Leave
    <3>1. /\ ready' = ready
          /\ \/ /\ pc' = "reading" /\ job' = OnTask("read", active)
                /\ Kind[active] = "human" /\ active \in humanDone
             \/ /\ Kind[active] = "approval"
                /\ \/ pc' = "consuming" /\ job' = OnTask("consume", active)
                   \/ pc' = "refusing" /\ job' = OnTask("fail", active)
                   \/ pc' = "expiring" /\ job' = OnTask("expire", active)
      BY <1>6, <2>3 DEF AwaitHuman, AwaitApproval, Answer, Call
    <3>2. JobInv'
      BY <1>1, <2>1, <3>1 DEF JobInv, Between, Moving, OnTask
    <3>3. QueueInv' /\ PlaceInv'
      BY <1>1, <2>1, <3>1 DEF FlowInv, QueueInv, PlaceInv, Waiting, Sourced, InProgress, Closing
    <3> QED BY <3>2, <3>3 DEF FlowInv
  <2> QED BY <2>2, <2>3
<1> QED BY <1>2, <1>3, <1>4, <1>5, <1>6 DEF WorkflowStep

LEMMA ReturnedFlow ==
  ASSUME TypeOK, FlowInv, Returned, UNCHANGED <<started, humanDone>>
  PROVE  FlowInv'
<1> USE DEF FlowInv
<1>1. CASE pc \in {"starting", "pausing", "resuming", "activating", "consuming", "ending",
                   "stopping", "succeeding", "failing", "closefail", "cancelling"}
  <2>1. UNCHANGED <<routed, skips, ready, active, stopped>>
    BY <1>1 DEF Returned
  <2>2. QueueInv'
    BY <2>1 DEF QueueInv, Waiting, Sourced
  <2>3. CASE pc = "activating"
    <3>1. \/ Kind[active] \in {"human", "approval"} /\ pc' = "waiting" /\ job' = NoJob
          \/ /\ Kind[active] \notin {"human", "approval"}
             /\ pc' = "working" /\ job' = WorkOf(active)
      BY <1>1, <2>3 DEF Returned, Goto, Call
    <3>2. JobInv'
      BY <2>1, <3>1 DEF JobInv, Between, Moving, WorkOf, OnTask
    <3>3. PlaceInv'
      BY <2>1, <2>3, <3>1 DEF PlaceInv, Waiting, InProgress, Closing
    <3> QED BY <2>2, <3>2, <3>3
  <2>4. CASE pc = "consuming"
    <3>1. pc' = "working" /\ job' = OnTask("complete", active) /\ Kind[active] = "approval"
      BY <1>1, <2>4 DEF Returned, Call, JobInv
    <3>2. JobInv'
      BY <2>1, <3>1 DEF JobInv, Between, Moving, WorkOf, OnTask
    <3>3. PlaceInv'
      BY <2>1, <2>4, <3>1 DEF PlaceInv, Waiting, InProgress, Closing
    <3> QED BY <2>2, <3>2, <3>3
  <2>5. CASE pc \notin {"activating", "consuming"}
    <3>1. \/ pc' \in {"loop", "await", "resumed", "closed"} /\ job' = NoJob
             /\ (pc' # "closed" => pc \in {"starting", "pausing", "resuming"})
          \/ pc' \in {"failing", "ending"} /\ job'.act = "transition"
      BY <1>1, <2>5 DEF Returned, Goto, RequestMove, Call, OnRun
    <3>2. JobInv'
      BY <3>1 DEF JobInv, Between, Moving
    <3>3. PlaceInv'
      BY <1>1, <2>1, <2>5, <3>1 DEF PlaceInv, Waiting, InProgress, Closing
    <3> QED BY <2>2, <3>2, <3>3
  <2> QED BY <1>1, <2>3, <2>4, <2>5
<1>2. CASE pc = "skipping"
  <2>1. /\ pc' = "skips" /\ job' = NoJob /\ skips' = skips \ {job.node}
        /\ Route(job.node, "skipped") /\ UNCHANGED <<ready, active, stopped>>
    BY <1>2 DEF Returned, Goto
  <2>2. job.node \in skips /\ job.node \in Nodes
    BY <1>2 DEF JobInv, QueueInv, Waiting
  <2>3. /\ Waiting' = Waiting \ {job.node}
        /\ \A m : Sourced(m) => \A e \in Into(m) : routed'[e.source] # "pending"
    BY <2>1, <2>2, RouteFacts DEF TypeOK
  <2>4. JobInv'
    BY <2>1 DEF JobInv, Between, Moving
  <2>5. QueueInv'
    BY <2>1, <2>2, <2>3 DEF QueueInv, Sourced
  <2>6. PlaceInv'
    BY <1>2, <2>1, <2>2, <2>3 DEF PlaceInv, InProgress, Closing
  <2> QED BY <2>4, <2>5, <2>6
<1>3. CASE pc \in {"reading", "working", "refusing", "expiring", "recording"}
  <2>1. /\ active' = None /\ skips' = skips
        /\ Route(active, "succeeded") \/ Route(active, "failed")
        /\ \/ pc' \in {"ready", "loop"} /\ job' = NoJob
           \/ pc' = "failing" /\ job'.act = "transition"
        /\ ready' \in {ready, {}}
        /\ stopped' => stopped \/ pc' = "loop"
    BY <1>3 DEF Returned, Goto, RequestMove, Call, OnRun
  <2>2. active \in Waiting \ ready /\ skips = {} /\ active \in Nodes
    BY <1>3 DEF PlaceInv, InProgress, Waiting
  <2>3. /\ Waiting' = Waiting \ {active}
        /\ \A m : Sourced(m) => \A e \in Into(m) : routed'[e.source] # "pending"
    BY <2>1, <2>2, RouteFacts DEF TypeOK
  <2>4. None \notin Nodes
    BY PlanAssumption
  <2>5. JobInv'
    BY <2>1 DEF JobInv, Between, Moving
  <2>6. QueueInv'
    BY <2>1, <2>2, <2>3, <2>4 DEF QueueInv, Sourced
  <2>7. PlaceInv'
    BY <1>3, <2>1, <2>2, <2>3, <2>4 DEF PlaceInv, InProgress, Closing
  <2> QED BY <2>5, <2>6, <2>7
<1> QED BY <1>1, <1>2, <1>3 DEF Returned

\* An attempt that is retried or goes on is still the same activity.
LEMMA SameActivityFlow ==
  ASSUME TypeOK, FlowInv, Working, job'.act = job.act, job'.node = job.node, UNCHANGED flow,
         UNCHANGED <<started, humanDone>>
  PROVE  FlowInv'
<1>1. pc \notin Between
  BY DEF FlowInv, JobInv, Working
<1>2. JobInv'
  BY <1>1 DEF FlowInv, JobInv, flow
<1>3. QueueInv' /\ PlaceInv'
  BY DEF FlowInv, QueueInv, PlaceInv, flow, Waiting, Sourced
<1> QED BY <1>2, <1>3 DEF FlowInv

LEMMA AgainFlow ==
  ASSUME TypeOK, FlowInv, Working, Again, UNCHANGED <<started, humanDone>>
  PROVE  FlowInv'
<1>1. CASE job' = [job EXCEPT !.phase = "start"] /\ UNCHANGED flow
  <2>1. job'.act = job.act /\ job'.node = job.node
    BY <1>1, PhaseOnly DEF TypeOK, ActivityTypeOK
  <2> QED BY <1>1, <2>1, SameActivityFlow
<1>2. CASE Failed
  <2>1. UNCHANGED <<routed, skips, ready, active, stopped>>
    BY <1>2 DEF Failed
  <2>2. CASE Throw
    <3>1. pc # "idle"
      BY DEF FlowInv, JobInv, Between, Working
    <3> QED BY <2>1, <2>2, <3>1, ThrowFlow DEF FlowInv, PlaceInv
  <2>3. CASE /\ pc \in {"reading", "consuming", "working", "expiring", "refusing"}
             /\ pc' = "recording" /\ job' = OnTask("fail", active)
    <3>1. JobInv'
      BY <2>1, <2>3 DEF JobInv, Between, Moving, OnTask
    <3>2. QueueInv' /\ PlaceInv'
      BY <2>1, <2>3 DEF FlowInv, QueueInv, PlaceInv, Waiting, Sourced, InProgress, Closing
    <3> QED BY <3>1, <3>2 DEF FlowInv
  <2>4. CASE /\ pc \in {"starting", "closefail", "failing"}
             /\ pc' = "closed" /\ job' = NoJob
    <3>1. JobInv'
      BY <2>4 DEF JobInv, Between, Moving
    <3>2. QueueInv' /\ PlaceInv'
      BY <2>1, <2>4 DEF FlowInv, QueueInv, PlaceInv, Waiting, Sourced, InProgress, Closing
    <3> QED BY <3>1, <3>2 DEF FlowInv
  <2> QED BY <1>2, <2>2, <2>3, <2>4 DEF Failed, Call, Goto
<1> QED BY <1>1, <1>2 DEF Again

LEMMA WorkerFlow ==
  ASSUME TypeOK, FlowInv, WorkerStep
  PROVE  FlowInv'
<1>1. UNCHANGED <<started, humanDone>>
  BY DEF WorkerStep, signals
<1>2. CASE AttemptProgresses
  <2>1. job'.act = job.act /\ job'.node = job.node
    BY <1>2, PhaseOnly DEF AttemptProgresses, TypeOK, ActivityTypeOK
  <2> QED BY <1>1, <1>2, <2>1, SameActivityFlow DEF AttemptProgresses
<1>3. CASE AttemptReturns
  BY <1>1, <1>3, ReturnedFlow DEF AttemptReturns
<1>4. CASE AttemptRaises \/ AnswerLost \/ AttemptLosesAnswer \/ AttemptDies \/ AttemptAbandoned
  BY <1>1, <1>4, AgainFlow DEF AttemptRaises, AnswerLost, AttemptLosesAnswer, AttemptDies,
                              AttemptAbandoned
<1>5. CASE StaleStep
  <2>1. UNCHANGED <<flow, job>>
    BY <1>5 DEF StaleStep
  <2> QED BY <1>1, <2>1 DEF FlowInv, JobInv, QueueInv, PlaceInv, flow, Waiting, Sourced
<1> QED BY <1>2, <1>3, <1>4, <1>5 DEF WorkerStep

LEMMA FlowStep ==
  ASSUME TypeOK, FlowInv, [Next]_vars
  PROVE  FlowInv'
<1>1. CASE DispatchRun \/ RedispatchRun
  <2>1. /\ started' \in {"full", "empty"} /\ pc' = "starting" /\ stopped' = FALSE
        /\ job'.act = "transition" /\ routed' = [n \in Nodes |-> "pending"]
        /\ skips' = {} /\ ready' = {} /\ active' = None
    BY <1>1 DEF DispatchRun, RedispatchRun, Begin, Call, OnRun
  <2>2. None \notin Nodes
    BY PlanAssumption
  <2>3. JobInv'
    BY <2>1 DEF JobInv, Between
  <2>4. QueueInv' /\ PlaceInv'
    BY <2>1, <2>2 DEF QueueInv, PlaceInv, Waiting, InProgress
  <2> QED BY <2>3, <2>4 DEF FlowInv
<1>2. CASE WorkflowStep
  BY <1>2, LocalFlow
<1>3. CASE WorkerStep
  BY <1>3, WorkerFlow
<1>4. CASE People \/ SendSignal \/ SignalFails \/ Control \/ UNCHANGED vars
  <2>1. UNCHANGED <<flow, job, started>> /\ humanDone \subseteq humanDone'
    BY <1>4 DEF People, SendSignal, Signal, SignalFails, Control, Pause, Resume, Cancel, vars,
                signals
  <2> QED BY <2>1 DEF FlowInv, JobInv, QueueInv, PlaceInv, flow, Waiting, Sourced
<1> QED BY <1>1, <1>2, <1>3, <1>4 DEF Next

\* Whatever is lost, retried or signalled, the workflow function has one node in hand, of
\* which nothing has been routed and everything before it has.
THEOREM OneNodeInHand == Spec => []FlowInv
<1>1. Init => FlowInv
  BY PlanAssumption DEF Init, FlowInv, JobInv, QueueInv, PlaceInv, Between, Moving, InProgress,
        Closing,
                        Waiting, Sourced
<1>2. TypeOK /\ FlowInv /\ [Next]_vars => FlowInv'
  BY FlowStep
<1> QED BY <1>1, <1>2, TypeCorrect, PTL DEF Spec

-----------------------------------------------------------------------------
(* What happens to the tasks. *)

\* Only approval nodes have an approval.
ApprovalKinds == \A n \in Nodes : approval[n] # "none" => Kind[n] = "approval"

\* Whoever still waits for a task waits for one that has not ended, unless it is an
\* approval node's, whose expiry tells nobody.
DepsInv ==
  \A d \in Dependencies : dep[d] = "pending" =>
    /\ task[d[2]] \notin {"succeeded", "skipped"}
    /\ task[d[2]] = "failed" => Kind[d[2]] = "approval"

LEMMA DependencyNodes ==
  \A d \in Dependencies : d[1] \in Nodes /\ d[2] \in Nodes
  BY PlanAssumption DEF Dependencies, Edge

\* What one attempt can do to the task of one node.
LEMMA PerformTask ==
  ASSUME DatabaseTypeOK, NEW j \in Job, Perform(j), NEW n \in Nodes, task'[n] # task[n]
  PROVE  /\ j.node = n
         /\ \/ j.act = "activate" /\ task[n] = "pending" /\ task'[n] = "ready"
            \/ j.act = "skip" /\ task[n] \in {"pending", "ready"} /\ task'[n] = "skipped"
            \/ j.act = "fail" /\ task'[n] = "failed"
            \/ Completes(j) /\ task'[n] = "succeeded"
            \/ Starts(j) /\ task[n] # "succeeded" /\ task'[n] = "running"
            \/ j.act = "expire" /\ task[n] \in {"ready", "running"} /\ task'[n] = "failed"
<1>1. Commit(j) /\ ~UNCHANGED db
  BY DEF Perform, db
<1>2. task \in [Nodes -> TaskState]
  BY DEF DatabaseTypeOK
<1>3. CASE j.act = "activate" /\ ActivateTask(j.node)
  BY <1>2, <1>3 DEF ActivateTask
<1>4. CASE j.act = "skip" /\ SkipTask(j.node)
  BY <1>2, <1>4 DEF SkipTask
<1>5. CASE j.act = "fail" /\ FailTask(j.node)
  BY <1>2, <1>5 DEF FailTask
<1>6. CASE Completes(j) /\ CompleteTask(j.node)
  BY <1>2, <1>6 DEF CompleteTask
<1>7. CASE Starts(j) /\ StartTask(j.node)
  BY <1>2, <1>7 DEF StartTask
<1>8. CASE j.act = "expire" /\ ExpireApproval(j.node)
  BY <1>2, <1>8 DEF ExpireApproval
<1>9. CASE TransitionRun(j.move) \/ ConsumeApproval(j.node)
  BY <1>9 DEF TransitionRun, ConsumeApproval
<1> QED BY <1>1, <1>3, <1>4, <1>5, <1>6, <1>7, <1>8, <1>9 DEF Commit

\* What an attempt leaves behind when it has done its part.
LEMMA PerformDone ==
  ASSUME DatabaseTypeOK, NEW j \in Job, Perform(j), j.node \in Nodes
  PROVE  /\ j.act = "skip" => task'[j.node] = (IF task[j.node] \in {"pending", "ready"}
                                               THEN "skipped" ELSE task[j.node])
         /\ j.act = "fail" => task'[j.node] = "failed"
         /\ Completes(j) => task'[j.node] = "succeeded"
<1>1. task \in [Nodes -> TaskState]
  BY DEF DatabaseTypeOK
<1>2. CASE j.act = "skip"
  <2>1. (NothingToDo(j) /\ UNCHANGED db) \/ SkipTask(j.node)
    BY <1>2 DEF Perform, IsSend, Commit, Completes, Starts
  <2> QED BY <1>1, <1>2, <2>1 DEF SkipTask, NothingToDo, Completes, Starts, db
<1>3. CASE j.act = "fail"
  <2>1. (NothingToDo(j) /\ UNCHANGED db) \/ FailTask(j.node)
    BY <1>3 DEF Perform, IsSend, Commit, Completes, Starts
  <2> QED BY <1>1, <1>3, <2>1 DEF FailTask, NothingToDo, Completes, Starts, db
<1>4. CASE Completes(j)
  <2>1. (NothingToDo(j) /\ UNCHANGED db) \/ CompleteTask(j.node)
    BY <1>4 DEF Perform, IsSend, Commit, Completes, Starts
  <2> QED BY <1>1, <1>4, <2>1 DEF CompleteTask, NothingToDo, Completes, Starts, db
<1> QED BY <1>2, <1>3, <1>4 DEF Completes

\* What people can do to it.
LEMMA PeopleTask ==
  ASSUME DatabaseTypeOK, People, NEW n \in Nodes, task'[n] # task[n]
  PROVE  /\ Kind[n] = "human" /\ task[n] \in {"ready", "running"}
         /\ task'[n] \in {"ready", "running", "waiting", "succeeded"}
<1>1. task \in [Nodes -> TaskState]
  BY DEF DatabaseTypeOK
<1> QED BY <1>1 DEF People, Decide, Revoke, Claim, RequestClarification, SubmitForm,
                 SubmitInBulk, Submit, AnswerAgain, db

\* A dependency that has been told stays told.
LEMMA PerformDeps ==
  ASSUME TypeOK, DepsInv, ApprovalKinds, NEW j \in Job, Perform(j)
  PROVE  /\ DepsInv' /\ ApprovalKinds'
         /\ \A d \in Dependencies : dep'[d] = "pending" => dep[d] = "pending"
<1> USE DEF TypeOK, DatabaseTypeOK
<1>1. CASE UNCHANGED db
  BY <1>1 DEF db, DepsInv, ApprovalKinds
<1>2. CASE TransitionRun(j.move) \/ ConsumeApproval(j.node)
  BY <1>2 DEF TransitionRun, ConsumeApproval, DepsInv, ApprovalKinds
<1>3. CASE ActivateTask(j.node) \/ StartTask(j.node)
  BY <1>3, DependencyNodes DEF ActivateTask, StartTask, DepsInv, ApprovalKinds
<1>4. CASE SkipTask(j.node)
  <2>1. ApprovalKinds'
    BY <1>4 DEF SkipTask, ApprovalKinds, OpenApproval
  <2>2. \A d \in Dependencies : dep'[d] = "pending" => dep[d] = "pending" /\ d[2] # j.node
    BY <1>4 DEF SkipTask, SettleDependents
  <2> QED BY <1>4, <2>1, <2>2, DependencyNodes DEF SkipTask, DepsInv
<1>5. CASE FailTask(j.node)
  <2>1. \A d \in Dependencies : dep'[d] = "pending" => dep[d] = "pending" /\ d[2] # j.node
    BY <1>5 DEF FailTask, SettleDependents
  <2> QED BY <1>5, <2>1, DependencyNodes DEF FailTask, DepsInv, ApprovalKinds
<1>6. CASE CompleteTask(j.node)
  <2>1. \A d \in Dependencies : dep'[d] = "pending" => dep[d] = "pending" /\ d[2] # j.node
    BY <1>6 DEF CompleteTask, SettleDependents
  <2> QED BY <1>6, <2>1, DependencyNodes DEF CompleteTask, DepsInv, ApprovalKinds
<1>7. CASE ExpireApproval(j.node)
  <2>1. j.node \in Nodes => Kind[j.node] = "approval"
    BY <1>7 DEF ExpireApproval, ApprovalKinds, Expirable, OpenApproval
  <2>2. ApprovalKinds'
    BY <1>7, <2>1 DEF ExpireApproval, ApprovalKinds
  <2> QED BY <1>7, <2>1, <2>2, DependencyNodes DEF ExpireApproval, DepsInv
<1> QED BY <1>1, <1>2, <1>3, <1>4, <1>5, <1>6, <1>7 DEF Perform, Commit

LEMMA PeopleDeps ==
  ASSUME TypeOK, DepsInv, ApprovalKinds, People
  PROVE  /\ DepsInv' /\ ApprovalKinds'
         /\ \A d \in Dependencies : dep'[d] = "pending" => dep[d] = "pending"
<1> USE DEF TypeOK, DatabaseTypeOK
<1>1. PICK n \in Nodes :
        \/ Decide(n) \/ Revoke(n) \/ Claim(n) \/ RequestClarification(n)
        \/ SubmitForm(n) \/ SubmitInBulk(n) \/ AnswerAgain(n)
  BY DEF People
<1>2. CASE Decide(n) \/ Revoke(n)
  BY <1>2 DEF Decide, Revoke, DepsInv, ApprovalKinds, OpenApproval
<1>3. CASE Claim(n) \/ RequestClarification(n)
  BY <1>3, DependencyNodes DEF Claim, RequestClarification, DepsInv, ApprovalKinds
<1>4. CASE Submit(n)
  <2>1. \A d \in Dependencies : dep'[d] = "pending" => dep[d] = "pending" /\ d[2] # n
    BY <1>4 DEF Submit, SettleDependents
  <2> QED BY <1>4, <2>1, DependencyNodes DEF Submit, DepsInv, ApprovalKinds
<1>5. CASE UNCHANGED db
  BY <1>5 DEF db, DepsInv, ApprovalKinds
<1> QED BY <1>1, <1>2, <1>3, <1>4, <1>5 DEF SubmitForm, SubmitInBulk, AnswerAgain

\* The database changes by an attempt's transaction or by what people do.
LEMMA DatabaseSteps ==
  ASSUME [Next]_vars
  PROVE  \/ UNCHANGED db
         \/ WorkerStep /\ \E j \in stale \cup {job} : Perform(j)
         \/ People
BY DEF Next, vars, DispatchRun, RedispatchRun, Begin, WorkflowStep, WorkerStep,
      AttemptProgresses,
       AttemptReturns, AttemptRaises, AnswerLost, AttemptLosesAnswer, AttemptDies,
       AttemptAbandoned, StaleStep, SendSignal, Signal, SignalFails, Control

LEMMA DepsStep ==
  ASSUME TypeOK, DepsInv, ApprovalKinds, [Next]_vars
  PROVE  /\ DepsInv' /\ ApprovalKinds'
         /\ \A d \in Dependencies : dep'[d] = "pending" => dep[d] = "pending"
<1>1. \A j \in stale \cup {job} : j \in Job
  BY DEF TypeOK, ActivityTypeOK
<1>2. CASE UNCHANGED db
  BY <1>2 DEF db, DepsInv, ApprovalKinds
<1> QED BY <1>1, <1>2, DatabaseSteps, PerformDeps, PeopleDeps

\* No task that is waited for has succeeded, been skipped or been failed by failTask:
\* the dependants are told in the same transaction, on every path and in every order.
THEOREM DependantsTold == Spec => []DepsInv
<1>1. Init => DepsInv /\ ApprovalKinds
  BY DependencyNodes DEF Init, DepsInv, ApprovalKinds
<1>2. TypeOK /\ DepsInv /\ ApprovalKinds /\ [Next]_vars => DepsInv' /\ ApprovalKinds'
  BY DepsStep
<1> QED BY <1>1, <1>2, TypeCorrect, PTL DEF Spec

-----------------------------------------------------------------------------
(* Attempts that are never abandoned: tasks follow the workflow. *)

\* With no attempt outliving its timeout, the only one is the one that is waited for.
LEMMA OnlyAwaited ==
  ASSUME MaxAbandoned = 0
  PROVE  Spec => [](stale = {})
<1>1. Init => stale = {}
  BY DEF Init
<1>2. TypeOK /\ stale = {} /\ [Next]_vars => (stale = {})'
  <2> SUFFICES ASSUME TypeOK, stale = {}, [Next]_vars PROVE stale' = {}
    OBVIOUS
  <2>1. ~AttemptAbandoned
    BY DEF AttemptAbandoned, TypeOK, BoundsTypeOK
  <2> QED BY <2>1 DEF Next, vars, DispatchRun, RedispatchRun, Begin, WorkflowStep, WorkerStep,
       AttemptProgresses, AttemptReturns, AttemptRaises, AnswerLost, AttemptLosesAnswer,
       AttemptDies, StaleStep, People, SendSignal, Signal, SignalFails, Control
<1> QED BY <1>1, <1>2, TypeCorrect, PTL DEF Spec

\* An execution that may still route nodes of a plan.
Live == pc \notin Closing /\ started # "empty"

PlainTask(n) ==
  \/ task[n] \in {"pending", "ready"}
  \/ n = active /\ \/ pc = "recording"
                   \/ pc = "working" /\ task[n] \in {"running", "succeeded"}
                   \/ pc \in {"refusing", "expiring"} /\ task[n] = "failed"
  \/ n = job.node /\ pc = "skipping" /\ task[n] = "skipped"

HumanTask(n) ==
  \/ task[n] \in {"pending", "ready", "running", "waiting", "succeeded"}
  \/ n = active /\ pc = "recording"
  \/ n = job.node /\ pc = "skipping" /\ task[n] = "skipped"

\* A node that has not been routed has a task that has not ended, or is being ended, or
\* was completed by a person.
EndlessInv ==
  Live => \A n \in Waiting : IF Kind[n] = "human" THEN HumanTask(n) ELSE PlainTask(n)

\* An activity on a task is for a node that has not been routed.
LEMMA JobWaits ==
  ASSUME TypeOK, FlowInv, job.act \notin {"none", "transition"}
  PROVE  job.node \in Waiting /\ job.node \in Nodes
<1>1. pc \notin Between \cup Moving
  BY DEF FlowInv, JobInv, NoJob
<1>2. pc = "skipping" \/ pc \in InProgress \/ pc = "closefail"
  BY <1>1 DEF TypeOK, FlowTypeOK, WorkflowPc, Between, Moving, InProgress
<1>3. Waiting \subseteq Nodes
  BY DEF Waiting
<1> QED BY <1>1, <1>2, <1>3 DEF FlowInv, JobInv, QueueInv, PlaceInv, InProgress, Between

\* What a worker's step does to the tasks and to the workflow.
LEMMA WorkerCases ==
  ASSUME TypeOK, stale = {}, WorkerStep
  PROVE  /\ stale' = {} \/ AttemptAbandoned
         /\ UNCHANGED <<started, answered, mail, signals>>
         /\ \/ job # NoJob /\ (Perform(job) \/ UNCHANGED <<db, provider>> \/ UNCHANGED db)
               /\ UNCHANGED flow /\ job'.act = job.act /\ job'.node = job.node
            \/ /\ job # NoJob /\ Final(job) /\ Returned
               /\ Perform(job) \/ (StopsForReview(job) /\ UNCHANGED db)
            \/ job # NoJob /\ Failed /\ (Perform(job) \/ UNCHANGED db)
<1>1. \A j \in Job : Following(j).act = j.act /\ Following(j).node = j.node
  BY PhaseOnly
<1>2. Again => \/ UNCHANGED flow /\ job'.act = job.act /\ job'.node = job.node
               \/ Failed
  BY PhaseOnly DEF Again, TypeOK, ActivityTypeOK
<1>3. ~StaleStep
  BY DEF StaleStep
<1> QED BY <1>1, <1>2, <1>3 DEF WorkerStep, Working, AttemptProgresses, AttemptReturns,
      AttemptRaises,
           AnswerLost, AttemptLosesAnswer, AttemptDies, AttemptAbandoned, TypeOK, ActivityTypeOK

\* Where an activity that fails for the last time leaves the workflow.
LEMMA FailedPlaces ==
  ASSUME Failed
  PROVE  /\ \/ pc' \in Closing
            \/ /\ pc' = "recording"
               /\ pc \in {"reading", "consuming", "working", "expiring", "refusing"}
         /\ UNCHANGED <<current, routed, truth, skips, ready, active, stopped>>
  BY DEF Failed, Throw, RequestMove, Call, Goto, Closing

\* Once on its way out it stays there.
LEMMA ClosingStays ==
  ASSUME TypeOK, FlowInv, [Next]_vars, pc \in Closing
  PROVE  pc' \in Closing \/ DispatchRun \/ RedispatchRun
<1>1. CASE WorkflowStep
  BY <1>1 DEF WorkflowStep, Loop, Await, Resumed, SkipNext, ActivateNext, AwaitHuman,
        AwaitApproval,
              Closing
<1>2. CASE WorkerStep
  <2>1. CASE Returned
    BY <2>1 DEF Returned, Goto, RequestMove, Call, Closing
  <2>2. CASE Again
    <3>1. CASE UNCHANGED flow
      BY <3>1 DEF flow
    <3>2. CASE Failed
      BY <3>2, FailedPlaces DEF Closing
    <3> QED BY <2>2, <3>1, <3>2 DEF Again
  <2>3. CASE UNCHANGED flow
    BY <2>3 DEF flow
  <2> QED BY <1>2, <2>1, <2>2, <2>3 DEF WorkerStep, AttemptProgresses, AttemptReturns,
       AttemptRaises, AnswerLost, AttemptLosesAnswer, AttemptDies, AttemptAbandoned, StaleStep
<1>3. CASE People \/ SendSignal \/ SignalFails \/ Control \/ UNCHANGED vars
  BY <1>3 DEF People, SendSignal, Signal, SignalFails, Control, vars, flow
<1> QED BY <1>1, <1>2, <1>3 DEF Next

\* The attempt touches one task only.
LEMMA OthersKept ==
  ASSUME TypeOK, Perform(job) \/ UNCHANGED db, NEW n \in Nodes,
         n # job.node \/ job.act \in {"none", "transition", "read", "consume"}
  PROVE  task'[n] = task[n]
<1>1. CASE UNCHANGED db
  BY <1>1 DEF db
<1>2. CASE Perform(job)
  <2>1. job \in Job /\ DatabaseTypeOK
    BY DEF TypeOK, ActivityTypeOK
  <2> QED BY <1>2, <2>1, PerformTask DEF Completes, Starts
<1> QED BY <1>1, <1>2

\* ... and keeps the task of a node in progress in its course.
LEMMA CourseKept ==
  ASSUME TypeOK, FlowInv, EndlessInv, Live, Perform(job) \/ UNCHANGED db, NEW n \in Waiting
  PROVE  /\ pc \in {"starting", "pausing", "resuming"} => task'[n] = task[n]
         /\ Kind[n] # "human" =>
              \/ task'[n] \in {"pending", "ready"}
              \/ n = active /\ \/ pc = "recording"
                               \/ pc = "working" /\ task'[n] \in {"running", "succeeded"}
                               \/ pc \in {"refusing", "expiring"} /\ task'[n] = "failed"
              \/ n = job.node /\ pc = "skipping" /\ task'[n] = "skipped"
         /\ Kind[n] = "human" =>
              \/ task'[n] \in {"pending", "ready", "running", "waiting", "succeeded"}
              \/ n = active /\ pc = "recording"
              \/ n = job.node /\ pc = "skipping" /\ task'[n] = "skipped"
<1>0. n \in Nodes /\ IF Kind[n] = "human" THEN HumanTask(n) ELSE PlainTask(n)
  BY DEF Waiting, EndlessInv
<1>1. CASE task'[n] = task[n]
  BY <1>0, <1>1 DEF HumanTask, PlainTask
<1>2. CASE task'[n] # task[n]
  <2>0. Perform(job)
    BY <1>2 DEF db
  <2>1. job \in Job /\ DatabaseTypeOK
    BY DEF TypeOK, ActivityTypeOK
  <2>2. /\ job.node = n
        /\ \/ job.act = "activate" /\ task[n] = "pending" /\ task'[n] = "ready"
           \/ job.act = "skip" /\ task[n] \in {"pending", "ready"} /\ task'[n] = "skipped"
           \/ job.act = "fail" /\ task'[n] = "failed"
           \/ Completes(job) /\ task'[n] = "succeeded"
           \/ Starts(job) /\ task[n] # "succeeded" /\ task'[n] = "running"
           \/ job.act = "expire" /\ task[n] \in {"ready", "running"} /\ task'[n] = "failed"
    BY <1>0, <1>2, <2>0, <2>1, PerformTask
  <2>3. pc \notin Between \cup Moving /\ pc # "closefail"
    BY <2>2 DEF FlowInv, JobInv, NoJob, Completes, Starts, Live, Closing
  <2>4. pc = "skipping" \/ pc \in InProgress
    BY <2>3 DEF TypeOK, FlowTypeOK, WorkflowPc, Between, Moving, InProgress
  <2>5. CASE pc = "skipping"
    BY <2>2, <2>5 DEF FlowInv, JobInv, Completes, Starts
  <2>6. CASE pc = "activating"
    BY <2>2, <2>6 DEF FlowInv, JobInv, Completes, Starts
  <2>7. CASE pc \in {"waiting", "reading", "consuming"}
    BY <2>2, <2>3, <2>7 DEF FlowInv, JobInv, Completes, Starts, Between
  <2>8. CASE pc \in {"refusing", "expiring"}
    BY <2>2, <2>8 DEF FlowInv, JobInv, Completes, Starts
  <2>9. CASE pc = "recording"
    BY <2>2, <2>9 DEF FlowInv, JobInv
  <2>10. CASE pc = "working"
    BY <2>2, <2>10 DEF FlowInv, JobInv, Completes, Starts, WorkOf, OnTask
  <2> QED BY <2>4, <2>5, <2>6, <2>7, <2>8, <2>9, <2>10 DEF InProgress
<1> QED BY <1>1, <1>2

LEMMA EndlessStep ==
  ASSUME TypeOK, FlowInv, EndlessInv, stale = {}, [Next]_vars
  PROVE  EndlessInv'
<1>1. CASE UNCHANGED <<task, routed, flow, job, started>>
  BY <1>1 DEF EndlessInv, Live, PlainTask, HumanTask, Waiting, flow
<1>2. CASE DispatchRun \/ RedispatchRun
  <2>1. /\ UNCHANGED task /\ pc' = "starting"
        /\ started' = "full" => started = "no"
        /\ started' \in {"full", "empty"}
    BY <1>2 DEF DispatchRun, RedispatchRun, Begin, Call, db
  <2>2. CASE started' = "empty"
    BY <2>2 DEF EndlessInv, Live
  <2>3. CASE started' = "full"
    <3>1. pc = "idle" /\ Live /\ Waiting = Nodes
      BY <2>1, <2>3 DEF FlowInv, PlaceInv, Live, Closing
    <3>2. \A n \in Nodes : IF Kind[n] = "human"
            THEN task[n] \in {"pending", "ready", "running", "waiting", "succeeded"}
            ELSE task[n] \in {"pending", "ready"}
      BY <3>1 DEF EndlessInv, PlainTask, HumanTask
    <3> QED BY <2>1, <3>2 DEF EndlessInv, PlainTask, HumanTask, Waiting
  <2> QED BY <2>1, <2>2, <2>3
<1>3. CASE WorkflowStep
  <2>1. UNCHANGED <<task, routed, started>>
    BY <1>3 DEF WorkflowStep, db, Loop, Await, Resumed, SkipNext, ActivateNext, AwaitHuman,
                AwaitApproval, Leave, Answer
  <2>2. pc \in {"loop", "await", "resumed", "skips", "ready", "waiting"}
    BY <1>3 DEF WorkflowStep, Loop, Await, Resumed, SkipNext, ActivateNext, AwaitHuman,
                AwaitApproval
  <2>3. SUFFICES ASSUME Live' PROVE EndlessInv'
    BY DEF EndlessInv
  <2>4. Live
    BY <2>1, <2>2, <2>3 DEF Live, Closing
  <2> QED BY <2>1, <2>2, <2>4 DEF EndlessInv, PlainTask, HumanTask, Waiting
<1>4. CASE WorkerStep
  <2>1. SUFFICES ASSUME Live', NEW n \in Waiting'
                 PROVE  IF Kind[n] = "human" THEN HumanTask(n)' ELSE PlainTask(n)'
    BY DEF EndlessInv
  <2>2. Live
    BY <1>4, <2>1, ClosingStays DEF Live, WorkerStep, DispatchRun, RedispatchRun, Begin, Call,
          Closing
  <2>3. CASE UNCHANGED flow /\ job'.node = job.node /\ (Perform(job) \/ UNCHANGED db)
    <3>1. n \in Waiting
      BY <2>3 DEF Waiting, flow
    <3> QED BY <2>2, <2>3, <3>1, CourseKept DEF PlainTask, HumanTask, flow
  <2>4. CASE job # NoJob /\ Failed /\ (Perform(job) \/ UNCHANGED db)
    <3>1. /\ pc \in {"reading", "consuming", "working", "expiring", "refusing"}
          /\ pc' = "recording" /\ active' = active /\ routed' = routed
      BY <2>1, <2>4, FailedPlaces DEF Live
    <3>2. n \in Waiting
      BY <3>1 DEF Waiting
    <3>3. job.node = active
      BY <3>1 DEF FlowInv, JobInv
    <3>4. CASE n = active
      BY <3>1, <3>4 DEF PlainTask, HumanTask
    <3>5. CASE n # active
      BY <2>2, <2>4, <3>1, <3>2, <3>3, <3>5, CourseKept DEF PlainTask, HumanTask
    <3> QED BY <3>4, <3>5
  <2>5. CASE Returned /\ (Perform(job) \/ UNCHANGED db)
    <3>1. CASE pc \in {"starting", "pausing", "resuming", "activating", "consuming"}
      <4>1. routed' = routed /\ active' = active
        BY <2>5, <3>1 DEF Returned
      <4>2. n \in Waiting
        BY <4>1 DEF Waiting
      <4>3. IF Kind[n] = "human"
              THEN task'[n] \in {"pending", "ready", "running", "waiting", "succeeded"}
              ELSE task'[n] \in {"pending", "ready"}
        BY <2>2, <2>5, <3>1, <4>2, CourseKept
      <4> QED BY <4>3 DEF PlainTask, HumanTask
    <3>2. CASE pc = "skipping"
      <4>1. Route(job.node, "skipped") /\ pc' = "skips"
        BY <2>5, <3>2 DEF Returned, Goto
      <4>2. job.node \in Nodes
        BY <3>2 DEF FlowInv, JobInv, QueueInv, Waiting
      <4>3. n \in Waiting /\ n # job.node
        BY <4>1, <4>2, RouteFacts DEF TypeOK
      <4>4. IF Kind[n] = "human"
              THEN task'[n] \in {"pending", "ready", "running", "waiting", "succeeded"}
              ELSE task'[n] \in {"pending", "ready"}
        BY <2>2, <2>5, <3>2, <4>3, CourseKept
      <4> QED BY <4>4 DEF PlainTask, HumanTask
    <3>3. CASE pc \in {"reading", "working", "refusing", "expiring", "recording"}
      <4>1. Route(active, "succeeded") \/ Route(active, "failed")
        BY <2>5, <3>3 DEF Returned
      <4>2. active \in Nodes
        BY <3>3 DEF FlowInv, PlaceInv, InProgress, Waiting
      <4>3. n \in Waiting /\ n # active
        BY <4>1, <4>2, RouteFacts DEF TypeOK
      <4>4. IF Kind[n] = "human"
              THEN task'[n] \in {"pending", "ready", "running", "waiting", "succeeded"}
              ELSE task'[n] \in {"pending", "ready"}
        BY <2>2, <2>5, <3>3, <4>3, CourseKept
      <4> QED BY <4>4 DEF PlainTask, HumanTask
    <3>4. CASE pc \in Closing
      BY <2>2, <3>4 DEF Live
    <3> QED BY <2>5, <3>1, <3>2, <3>3, <3>4 DEF Returned, Closing
  <2> QED BY <1>4, <2>3, <2>4, <2>5, WorkerCases
<1>5. CASE People
  <2>1. UNCHANGED <<flow, job, started>>
    BY <1>5 DEF People
  <2>2. ASSUME NEW n \in Nodes, task'[n] # task[n]
        PROVE  Kind[n] = "human" /\ task'[n] \in {"ready", "running", "waiting", "succeeded"}
    BY <1>5, <2>2, PeopleTask DEF TypeOK
  <2> QED BY <2>1, <2>2 DEF EndlessInv, Live, PlainTask, HumanTask, Waiting, flow
<1>6. CASE SendSignal \/ SignalFails \/ Control \/ UNCHANGED vars
  BY <1>1, <1>6 DEF SendSignal, Signal, SignalFails, Control, vars, flow, db
<1> QED BY <1>2, <1>3, <1>4, <1>5, <1>6 DEF Next

-----------------------------------------------------------------------------
(* A person's turn. *)

\* Conditions cannot turn against n while it waits: it has none, or no other node can be
\* routed meanwhile.
Steady(n) ==
  \/ Into(n) \cap Conditional = {}
  \/ \A m \in Nodes \ {n} : \E e \in Edges : {e.source, e.target} = {m, n}

\* A person may have begun with n, or have ended it.
Opened(n) ==
  /\ n \in Waiting /\ Into(n) # {} /\ task[n] # "pending"
  /\ ~(n = job.node /\ pc = "skipping") /\ ~(n = active /\ pc = "recording")

\* A human node is only opened when its turn has come, and is never skipped after that.
ChosenInv ==
  Live => \A n \in Nodes : Kind[n] = "human" /\ Steady(n) =>
    /\ n \in ready \/ (pc = "activating" /\ n = active) => Selected(n)
    /\ Opened(n) => Sourced(n) /\ Selected(n) /\ n \notin skips
    /\ pc = "skipping" /\ n = job.node => task[n] \in {"pending", "skipped"}

\* A node that was selected stays so while others are routed, if it is steady.
LEMMA SelectedStays ==
  ASSUME TypeOK, NEW n \in Waiting, Steady(n), Sourced(n), Selected(n),
         NEW m \in Waiting, m # n, Sourced(m), NEW s, Route(m, s), s # "pending"
  PROVE  Selected(n)'
<1>1. n \in Nodes /\ m \in Nodes /\ routed[n] = "pending" /\ routed[m] = "pending"
  BY DEF Waiting
<1>2. \A e \in Into(n) : e \in Edges /\ e.target = n /\ e.source \in Nodes
  BY PlanAssumption DEF Into, Edge
<1>3. CASE Into(n) \cap Conditional = {}
  <2>1. \A e \in Into(n) : routed'[e.source] = routed[e.source]
    BY <1>1, <1>2, RouteFacts DEF TypeOK, Sourced
  <2>2. \A e \in Into(n) : EdgeSelected(e) => EdgeSelected(e)'
    BY <1>3, <2>1 DEF EdgeSelected
  <2> QED BY <2>2 DEF Selected
<1>4. CASE \A k \in Nodes \ {n} : \E e \in Edges : {e.source, e.target} = {k, n}
  <2>1. PICK e \in Edges : {e.source, e.target} = {m, n}
    BY <1>1, <1>4
  <2>2. CASE e.source = m /\ e.target = n
    BY <1>1, <2>2 DEF Sourced, Into
  <2>3. CASE e.source = n /\ e.target = m
    BY <1>1, <2>3 DEF Sourced, Into
  <2> QED BY <2>1, <2>2, <2>3
<1> QED BY <1>3, <1>4 DEF Steady

\* Before the start, nobody has begun with a node that waits for others.
LEMMA NothingOpened ==
  ASSUME TypeOK, FlowInv, ChosenInv, started = "no", NEW n \in Nodes, Kind[n] = "human",
         Steady(n), Into(n) # {}
  PROVE  task[n] = "pending"
<1>1. pc = "idle" /\ Waiting = Nodes /\ Live
  BY DEF FlowInv, PlaceInv, Live, Closing
<1>2. \E e \in Into(n) : e.source \in Nodes
  BY PlanAssumption DEF Into, Edge
<1>3. ~Sourced(n)
  BY <1>1, <1>2 DEF Sourced, Waiting
<1> QED BY <1>1, <1>3 DEF ChosenInv, Opened

LEMMA ChosenStep ==
  ASSUME TypeOK, FlowInv, EndlessInv, ChosenInv, stale = {}, [Next]_vars
  PROVE  ChosenInv'
<1> SUFFICES ASSUME Live', NEW n \in Nodes, Kind[n] = "human", Steady(n)
             PROVE  /\ n \in ready' \/ (pc' = "activating" /\ n = active') => Selected(n)'
                    /\ Opened(n)' => Sourced(n)' /\ Selected(n)' /\ n \notin skips'
                    /\ pc' = "skipping" /\ n = job'.node => task'[n] \in {"pending", "skipped"}
  BY DEF ChosenInv
<1>1. CASE DispatchRun \/ RedispatchRun
  <2>1. /\ UNCHANGED task /\ pc' = "starting" /\ ready' = {}
        /\ started' = "empty" \/ started = "no"
    BY <1>1 DEF DispatchRun, RedispatchRun, Begin, Call, db
  <2>2. Into(n) # {} => task'[n] = "pending"
    BY <2>1, NothingOpened DEF Live
  <2> QED BY <2>1, <2>2 DEF Opened
<1>a. CASE ~(DispatchRun \/ RedispatchRun)
  <2>1. started' = started
    BY <1>a DEF Next, vars, WorkflowStep, WorkerStep, People, SendSignal, Signal, SignalFails,
          Control
  <2>2. Live
    BY <1>a, <2>1, ClosingStays DEF Live
  <2>c. /\ n \in ready \/ (pc = "activating" /\ n = active) => Selected(n)
        /\ Opened(n) => Sourced(n) /\ Selected(n) /\ n \notin skips
        /\ pc = "skipping" /\ n = job.node => task[n] \in {"pending", "skipped"}
    BY <2>2 DEF ChosenInv
  <2>3. CASE WorkflowStep
    <3>1. UNCHANGED <<task, routed, truth>>
      BY <2>3 DEF WorkflowStep, db, Loop, Await, Resumed, SkipNext, ActivateNext, AwaitHuman,
                  AwaitApproval, Leave, Answer
    <3>2. Selected(n)' = Selected(n) /\ Sourced(n)' = Sourced(n) /\ Waiting' = Waiting
      BY <3>1 DEF Selected, EdgeSelected, Sourced, Waiting
    <3>3. pc \notin {"skipping", "activating", "recording"}
      BY <2>3 DEF WorkflowStep, Loop, Await, Resumed, SkipNext, ActivateNext, AwaitHuman,
                  AwaitApproval
    <3>4. CASE SkipNext
      <4>1. CASE pc' = "skipping"
        <5>1. ready' = ready /\ skips' = skips /\ \E m \in skips : job' = OnTask("skip", m)
          BY <3>4, <4>1 DEF SkipNext, Goto, Call
        <5>2. job'.node \in skips
          BY <5>1 DEF OnTask
        <5>3. n \in skips => task[n] = "pending"
          BY <2>c, <3>3 DEF Opened, FlowInv, QueueInv
        <5> QED BY <2>c, <3>1, <3>2, <3>3, <4>1, <5>1, <5>2, <5>3 DEF Opened
      <4>2. CASE pc' # "skipping"
        <5>1. ready' = ready /\ skips' = skips /\ pc' = "ready"
          BY <3>4, <4>2 DEF SkipNext, Goto, Call
        <5> QED BY <2>c, <3>1, <3>2, <3>3, <5>1 DEF Opened
      <4> QED BY <4>1, <4>2
    <3>5. CASE ActivateNext
      <4>1. /\ skips' = skips /\ ready' \subseteq ready /\ pc' \notin {"skipping", "recording"}
            /\ pc' = "activating" => active' \in ready
        BY <3>5 DEF ActivateNext, Goto, Call
      <4> QED BY <2>c, <3>1, <3>2, <3>3, <4>1 DEF Opened
    <3>6. CASE Pass
      <4>1. CASE Settled = {}
        BY <3>6, <4>1 DEF Pass, Throw, Call, RequestMove, Live, Closing
      <4>2. CASE Settled # {}
        BY <2>c, <3>1, <3>2, <3>3, <3>6, <4>2 DEF Pass, Goto, Opened
      <4> QED BY <4>1, <4>2
    <3>7. CASE ~SkipNext /\ ~ActivateNext /\ ~Pass
      <4>1. skips' = skips /\ ready' \in {ready, {}} /\ pc' \notin {"skipping", "activating"}
        BY <2>3, <3>7 DEF WorkflowStep, Loop, Finish, Throw, Await, Resumed, AwaitHuman,
                     AwaitApproval, Leave, Answer, RequestMove, Call, Goto
      <4> QED BY <2>c, <3>1, <3>2, <3>3, <4>1 DEF Opened
    <3> QED BY <3>4, <3>5, <3>6, <3>7
  <2>4. CASE WorkerStep
    <3>1. CASE UNCHANGED flow /\ job'.node = job.node /\ job'.act = job.act
               /\ (Perform(job) \/ UNCHANGED db)
      <4>1. Selected(n)' = Selected(n) /\ Sourced(n)' = Sourced(n) /\ Waiting' = Waiting
        BY <3>1 DEF Selected, EdgeSelected, Sourced, Waiting, flow
      <4>2. CASE task'[n] = task[n]
        BY <2>c, <3>1, <4>1, <4>2 DEF Opened, flow
      <4>3. CASE task'[n] # task[n]
        <5>1. job.node = n /\ (pc = "skipping" \/ pc \in InProgress)
          BY <2>2, <3>1, <4>3, OthersKept DEF FlowInv, JobInv, TypeOK, FlowTypeOK, WorkflowPc,
             Between, Moving, InProgress, Live, Closing, NoJob
        <5>2. CASE pc = "skipping"
          <6>1. job.act = "skip" /\ job \in Job
            BY <5>2 DEF FlowInv, JobInv, TypeOK, ActivityTypeOK
          <6>2. task'[n] = "skipped"
            BY <3>1, <4>3, <5>1, <6>1, PerformTask DEF TypeOK, db, Completes, Starts
          <6> QED BY <2>c, <3>1, <4>1, <5>1, <5>2, <6>2 DEF Opened, flow
        <5>3. CASE pc \in InProgress
          <6>1. n = active /\ skips = {} /\ n \notin ready
            BY <5>1, <5>3, PlanAssumption DEF FlowInv, JobInv, PlaceInv, InProgress, Between,
                  NoJob
          <6>2. Sourced(n)
            BY <6>1 DEF FlowInv, QueueInv
          <6>3. CASE pc = "activating"
            BY <2>c, <3>1, <4>1, <5>3, <6>1, <6>2, <6>3 DEF Opened, flow
          <6>4. CASE pc # "activating"
            <7>1. pc = "recording"
              <8>1. pc \notin {"waiting", "consuming", "refusing", "expiring", "working"}
                BY <5>1, <6>1, PlanAssumption DEF FlowInv, JobInv, Between, NoJob
              <8>2. pc # "reading"
                BY <3>1, <4>3, OthersKept DEF FlowInv, JobInv
              <8> QED BY <5>3, <6>4, <8>1, <8>2 DEF InProgress
            <7> QED BY <3>1, <6>1, <7>1 DEF Opened, flow
          <6> QED BY <6>3, <6>4
        <5> QED BY <5>1, <5>2, <5>3
      <4> QED BY <4>2, <4>3
    <3>2. CASE job # NoJob /\ Failed /\ (Perform(job) \/ UNCHANGED db)
      <4>1. /\ pc \in {"reading", "consuming", "working", "expiring", "refusing"}
            /\ pc' = "recording" /\ UNCHANGED <<active, routed, truth, ready, skips>>
        BY <3>2, FailedPlaces DEF Live
      <4>2. Selected(n)' = Selected(n) /\ Sourced(n)' = Sourced(n) /\ Waiting' = Waiting
        BY <4>1 DEF Selected, EdgeSelected, Sourced, Waiting
      <4>3. n # active => task'[n] = task[n]
        BY <3>2, <4>1, OthersKept DEF FlowInv, JobInv
      <4> QED BY <2>c, <4>1, <4>2, <4>3 DEF Opened
    <3>3. CASE Returned /\ (Perform(job) \/ UNCHANGED db)
      <4>1. CASE pc \in {"starting", "pausing", "resuming", "consuming", "activating"}
        <5>1. /\ UNCHANGED <<active, routed, truth, ready, skips>>
              /\ pc' \notin {"skipping", "recording", "activating"}
          BY <3>3, <4>1 DEF Returned, Goto, Call
        <5>2. Selected(n)' = Selected(n) /\ Sourced(n)' = Sourced(n) /\ Waiting' = Waiting
          BY <5>1 DEF Selected, EdgeSelected, Sourced, Waiting
        <5>3. (n = active /\ pc = "activating") \/ task'[n] = task[n]
          BY <3>3, <4>1, OthersKept DEF FlowInv, JobInv, Moving
        <5>4. n = active /\ pc = "activating" => Sourced(n) /\ n \notin skips
          BY DEF FlowInv, QueueInv, PlaceInv, InProgress
        <5> QED BY <2>c, <4>1, <5>1, <5>2, <5>3, <5>4 DEF Opened
      <4>2. CASE pc \in {"skipping", "reading", "working", "refusing", "expiring", "recording"}
        <5> DEFINE m == IF pc = "skipping" THEN job.node ELSE active
        <5>1. /\ m \in Waiting /\ Sourced(m) /\ m \in Nodes
              /\ job.node = m \/ job.act = "none"
          BY <4>2 DEF FlowInv, JobInv, QueueInv, PlaceInv, InProgress, Waiting
        <5>2. /\ \E s \in {"skipped", "succeeded", "failed"} : Route(m, s)
              /\ ready' \subseteq ready /\ skips' \subseteq skips
              /\ pc' \notin {"skipping", "recording", "activating"}
          BY <3>3, <4>2 DEF Returned, Goto, RequestMove, Call
        <5>3. PICK s : Route(m, s) /\ s # "pending"
          BY <5>2
        <5>4. Waiting' = Waiting \ {m} /\ (Sourced(n) => Sourced(n)')
          BY <5>1, <5>3, RouteFacts DEF TypeOK, Sourced
        <5>5. CASE n \notin Waiting'
          <6>1. n \notin ready
            BY <5>4, <5>5, <5>2, <5>1, <4>2 DEF FlowInv, QueueInv, PlaceInv, InProgress, JobInv
          <6> QED BY <5>2, <5>5, <6>1 DEF Opened
        <5>6. CASE n \in Waiting'
          <6>1. n \in Waiting /\ n # m
            BY <5>4, <5>6
          <6>2. task'[n] = task[n]
            BY <3>3, <5>1, <6>1, OthersKept
          <6>3. Sourced(n) /\ Selected(n) => Selected(n)'
            BY <5>1, <5>3, <6>1, SelectedStays
          <6>4. n \in ready => Sourced(n)
            BY DEF FlowInv, QueueInv
          <6>5. Opened(n)' => Opened(n)
            BY <4>2, <6>1, <6>2 DEF Opened
          <6> QED BY <2>c, <5>2, <5>4, <6>3, <6>4, <6>5
        <5> QED BY <5>5, <5>6
      <4>3. CASE pc \in Closing
        BY <2>2, <4>3 DEF Live
      <4> QED BY <3>3, <4>1, <4>2, <4>3 DEF Returned, Closing
    <3> QED BY <2>4, <3>1, <3>2, <3>3, WorkerCases
  <2>5. CASE People
    <3>1. UNCHANGED <<flow, job>>
      BY <2>5 DEF People
    <3>2. Selected(n)' = Selected(n) /\ Sourced(n)' = Sourced(n) /\ Waiting' = Waiting
      BY <3>1 DEF Selected, EdgeSelected, Sourced, Waiting, flow
    <3>3. task'[n] = task[n] \/ (task[n] \in {"ready", "running"} /\ task'[n] # "pending")
      BY <2>5, PeopleTask DEF TypeOK
    <3> QED BY <2>c, <3>1, <3>2, <3>3 DEF Opened, flow
  <2>6. CASE SendSignal \/ SignalFails \/ Control \/ UNCHANGED vars
    <3>1. UNCHANGED <<flow, job, task>>
      BY <2>6 DEF SendSignal, Signal, SignalFails, Control, vars, db
    <3>2. Selected(n)' = Selected(n) /\ Sourced(n)' = Sourced(n) /\ Waiting' = Waiting
      BY <3>1 DEF Selected, EdgeSelected, Sourced, Waiting, flow
    <3> QED BY <2>c, <3>1, <3>2 DEF Opened, flow
  <2> QED BY <1>a, <2>3, <2>4, <2>5, <2>6 DEF Next
<1> QED BY <1>1, <1>a

-----------------------------------------------------------------------------
(* The workflow's record of the tasks. *)

\* Whoever is told that a person answered can read the answer, unless the node was failed.
AnswersInv ==
  \A n \in Nodes : Kind[n] = "human" /\ (n \in answered \cup humanDone \/ <<n, "done">> \in mail)
    => task[n] \in {"succeeded", "failed"}

LEMMA AnswersStep ==
  ASSUME TypeOK, FlowInv, ApprovalKinds, AnswersInv, stale = {}, [Next]_vars
  PROVE  AnswersInv'
<1>1. ASSUME NEW n \in Nodes, Kind[n] = "human", task[n] \in {"succeeded", "failed"}
      PROVE  task'[n] \in {"succeeded", "failed"}
  <2>1. CASE WorkerStep /\ Perform(job) /\ task'[n] # task[n]
    <3>1. job \in Job /\ DatabaseTypeOK
      BY DEF TypeOK, ActivityTypeOK
    <3>2. job.node = n /\ ~(Starts(job) /\ task'[n] = "running")
      <4>1. job.node = n
        BY <2>1, <3>1, PerformTask
      <4>2. job.act \in {"agent", "connector"} => pc = "working" /\ job.node = active
                                                  /\ Kind[active] # "human"
        BY DEF FlowInv, JobInv, TypeOK, FlowTypeOK, WorkflowPc, Between, Moving, NoJob
      <4> QED BY <1>1, <4>1, <4>2 DEF Starts
    <3> QED BY <1>1, <2>1, <3>1, <3>2, PerformTask
  <2>2. CASE People
    BY <1>1, <2>2, PeopleTask DEF TypeOK
  <2> QED BY <1>1, <2>1, <2>2, DatabaseSteps DEF db
<1>2. CASE People
  <2>1. PICK k \in Nodes :
          \/ Decide(k) \/ Revoke(k) \/ Claim(k) \/ RequestClarification(k)
          \/ SubmitForm(k) \/ SubmitInBulk(k) \/ AnswerAgain(k)
    BY <1>2 DEF People
  <2>2. humanDone' = humanDone
    BY <1>2 DEF People, signals
  <2>3. CASE UNCHANGED <<answered, mail>>
    BY <1>1, <2>2, <2>3 DEF AnswersInv
  <2>4. CASE Decide(k)
    <3>1. Kind[k] = "approval"
      BY <2>4 DEF Decide, ApprovalKinds, OpenApproval
    <3>2. /\ answered' = answered \cup {k}
          /\ \A n \in Nodes : <<n, "done">> \in mail' => <<n, "done">> \in mail
      BY <2>4 DEF Decide, SignalOf
    <3> QED BY <1>1, <2>2, <3>1, <3>2 DEF AnswersInv
  <2>5. CASE SubmitForm(k)
    <3>1. /\ task'[k] = "succeeded" /\ answered' = answered \cup {k}
          /\ mail' = mail \cup {<<k, "done">>}
      BY <2>5 DEF SubmitForm, Submit, TypeOK, DatabaseTypeOK
    <3> QED BY <1>1, <2>2, <3>1 DEF AnswersInv
  <2>6. CASE AnswerAgain(k)
    <3>1. /\ k \in answered /\ answered' = answered /\ task' = task
          /\ \A n \in Nodes : <<n, "done">> \in mail' => <<n, "done">> \in mail \/ n = k
      BY <2>6 DEF AnswerAgain, SignalOf, db
    <3> QED BY <2>2, <3>1 DEF AnswersInv
  <2> QED BY <2>1, <2>3, <2>4, <2>5, <2>6 DEF Revoke, Claim, RequestClarification, SubmitInBulk
<1>3. CASE ~People
  <2>1. /\ answered' = answered /\ mail' \subseteq mail
        /\ \A n \in Nodes : n \in humanDone' => n \in humanDone \/ <<n, "done">> \in mail
    <3>1. CASE WorkflowStep \/ WorkerStep \/ UNCHANGED vars
      BY <3>1 DEF WorkflowStep, WorkerStep, vars, signals
    <3>2. CASE DispatchRun \/ RedispatchRun
      BY <3>2 DEF DispatchRun, RedispatchRun, Begin
    <3>3. CASE SendSignal
      <4>1. PICK k \in Nodes, m \in mail :
              /\ m[1] = k /\ mail' = mail \ {m} /\ answered' = answered
              /\ IF m[2] = "done" THEN humanDone' = humanDone \cup {k} ELSE humanDone' = humanDone
        BY <3>3 DEF SendSignal, Signal
      <4>2. m = <<m[1], m[2]>>
        BY <4>1 DEF TypeOK, SignalsTypeOK
      <4> QED BY <4>1, <4>2
    <3>4. CASE SignalFails
      BY <3>4 DEF SignalFails, signals
    <3>5. CASE Control
      BY <3>5 DEF Control, Pause, Resume, Cancel
    <3> QED BY <1>3, <3>1, <3>2, <3>3, <3>4, <3>5 DEF Next
  <2> QED BY <1>1, <2>1 DEF AnswersInv
<1> QED BY <1>2, <1>3

\* The workflow's record of n can be relied on: no agent that stops for review, and no
\* person whose task a condition may take away.
Recorded(n) == n \notin Reviewed /\ (Kind[n] = "human" => Steady(n))

RecordOf(n) ==
  /\ routed[n] = "succeeded" => task[n] = "succeeded"
  /\ routed[n] = "skipped" => task[n] = "skipped"
  /\ routed[n] = "failed" => task[n] # "succeeded" /\ (Kind[n] # "approval" => task[n] = "failed")

RecordInv == \A n \in Nodes : Recorded(n) => RecordOf(n)

\* The end of the node that is routed.
LEMMA RoutedNow ==
  ASSUME TypeOK, FlowInv, EndlessInv, ChosenInv, AnswersInv, Final(job), Returned,
         Perform(job) \/ (StopsForReview(job) /\ UNCHANGED db),
         NEW n \in Nodes, Recorded(n), routed[n] = "pending", routed'[n] # "pending"
  PROVE  RecordOf(n)'
<1>0. job \in Job /\ DatabaseTypeOK /\ FlowTypeOK /\ n \in Waiting /\ Waiting \subseteq Nodes
  BY DEF TypeOK, ActivityTypeOK, Waiting
<1>1. pc \in {"skipping", "reading", "working", "refusing", "expiring", "recording"}
  BY DEF Returned
<1>2. Live
  <2>1. started = "full"
    BY <1>0, <1>1, PlanAssumption DEF FlowInv, JobInv, PlaceInv, InProgress, TypeOK,
          SignalsTypeOK
  <2> QED BY <1>1, <2>1 DEF Live, Closing
<1>3. IF Kind[n] = "human" THEN HumanTask(n) ELSE PlainTask(n)
  BY <1>0, <1>2 DEF EndlessInv
<1>4. CASE pc = "skipping"
  <2>1. job.act = "skip" /\ Route(job.node, "skipped") /\ job.node \in Nodes
    BY <1>0, <1>4 DEF Returned, FlowInv, JobInv, QueueInv
  <2>2. n = job.node /\ routed'[n] = "skipped"
    BY <1>0, <2>1, RouteFacts DEF Route, FlowTypeOK
  <2>3. task[n] \in {"pending", "ready", "skipped"}
    <3>1. CASE Kind[n] = "human"
      BY <1>2, <1>4, <2>2, <3>1 DEF ChosenInv, Recorded
    <3>2. CASE Kind[n] # "human"
      BY <1>3, <1>4, <3>2 DEF PlainTask
    <3> QED BY <3>1, <3>2
  <2>4. Perform(job)
    BY <2>1 DEF StopsForReview
  <2>5. task'[n] = "skipped"
    BY <1>0, <2>1, <2>2, <2>3, <2>4, PerformDone
  <2> QED BY <2>2, <2>5 DEF RecordOf
<1>5. CASE pc = "reading"
  <2>1. job.act = "read" /\ Route(active, "succeeded") /\ active \in Nodes /\ active \in humanDone
        /\ Kind[active] = "human"
    BY <1>0, <1>5 DEF Returned, FlowInv, JobInv, PlaceInv, InProgress
  <2>2. n = active /\ routed'[n] = "succeeded"
    BY <1>0, <2>1, RouteFacts DEF Route, FlowTypeOK
  <2>3. task[n] = "succeeded"
    BY <1>3, <1>5, <2>1, <2>2 DEF AnswersInv, HumanTask
  <2>4. task'[n] = task[n]
    BY <2>1, OthersKept
  <2> QED BY <2>2, <2>3, <2>4 DEF RecordOf
<1>6. CASE pc = "working"
  <2>1. Route(active, "succeeded") /\ active \in Nodes /\ job.node = active
        /\ job.act \in {"complete", "agent", "connector"}
    BY <1>0, <1>6 DEF Returned, FlowInv, JobInv, PlaceInv, InProgress, WorkOf, OnTask
  <2>2. n = active /\ routed'[n] = "succeeded"
    BY <1>0, <2>1, RouteFacts DEF Route, FlowTypeOK
  <2>3. Completes(job) /\ Perform(job)
    BY <2>1, <2>2 DEF Completes, Final, StopsForReview, Recorded
  <2>4. task'[n] = "succeeded"
    BY <1>0, <2>1, <2>2, <2>3, PerformDone
  <2> QED BY <2>2, <2>4 DEF RecordOf
<1>7. CASE pc \in {"refusing", "recording"}
  <2>1. Route(active, "failed") /\ active \in Nodes /\ job.node = active /\ job.act = "fail"
    BY <1>0, <1>7 DEF Returned, FlowInv, JobInv, PlaceInv, InProgress
  <2>2. n = active /\ routed'[n] = "failed"
    BY <1>0, <2>1, RouteFacts DEF Route, FlowTypeOK
  <2>3. task'[n] = "failed"
    BY <1>0, <2>1, <2>2, PerformDone DEF StopsForReview
  <2> QED BY <2>2, <2>3 DEF RecordOf
<1>8. CASE pc = "expiring"
  <2>1. /\ Route(active, "failed") /\ active \in Nodes /\ job.node = active /\ job.act = "expire"
        /\ Kind[active] = "approval"
    BY <1>0, <1>8 DEF Returned, FlowInv, JobInv, PlaceInv, InProgress
  <2>2. n = active /\ routed'[n] = "failed"
    BY <1>0, <2>1, RouteFacts DEF Route, FlowTypeOK
  <2>3. task[n] # "succeeded"
    BY <1>3, <1>8, <2>1, <2>2 DEF PlainTask
  <2>4. task'[n] # "succeeded"
    BY <1>0, <2>1, <2>3, PerformTask DEF StopsForReview, Completes, Starts
  <2> QED BY <2>1, <2>2, <2>4 DEF RecordOf
<1> QED BY <1>1, <1>4, <1>5, <1>6, <1>7, <1>8

LEMMA RecordStep ==
  ASSUME TypeOK, FlowInv, EndlessInv, ChosenInv, AnswersInv, RecordInv, stale = {}, [Next]_vars
  PROVE  RecordInv'
<1> SUFFICES ASSUME NEW n \in Nodes, Recorded(n) PROVE RecordOf(n)'
  BY DEF RecordInv
<1>0. RecordOf(n)
  BY DEF RecordInv
<1>1. CASE routed'[n] = "pending"
  BY <1>1 DEF RecordOf
<1>2. CASE routed[n] # "pending" /\ routed'[n] # "pending"
  <2>1. routed'[n] = routed[n]
    <3>1. ASSUME NEW m \in Nodes, NEW s, Route(m, s), m \in Waiting
          PROVE  routed'[n] = routed[n]
      BY <1>2, <3>1 DEF Route, Waiting, TypeOK, FlowTypeOK
    <3>2. CASE WorkerStep
      <4>1. CASE UNCHANGED routed
        BY <4>1
      <4>2. CASE Returned /\ ~UNCHANGED routed
        <5>1. \/ pc = "skipping" /\ Route(job.node, "skipped")
              \/ pc \in {"reading", "working", "refusing", "expiring", "recording"}
                 /\ (Route(active, "succeeded") \/ Route(active, "failed"))
          BY <4>2 DEF Returned
        <5>2. (pc = "skipping" => job.node \in Waiting)
              /\ (pc \in {"reading", "working", "refusing", "expiring", "recording"}
                    => active \in Waiting)
          BY DEF FlowInv, JobInv, QueueInv, PlaceInv, InProgress
        <5> QED BY <3>1, <5>1, <5>2 DEF Waiting
      <4> QED BY <3>2, <4>1, <4>2, WorkerCases, FailedPlaces DEF flow
    <3>3. CASE DispatchRun \/ RedispatchRun
      BY <1>2, <3>3 DEF DispatchRun, RedispatchRun, Begin
    <3>4. CASE WorkflowStep \/ People \/ SendSignal \/ SignalFails \/ Control \/ UNCHANGED vars
      BY <3>4 DEF WorkflowStep, Loop, Await, Resumed, SkipNext, ActivateNext, AwaitHuman,
           AwaitApproval, Leave, Answer, People, SendSignal, Signal, SignalFails, Control, vars,
           flow
    <3> QED BY <3>2, <3>3, <3>4 DEF Next
  <2>2. CASE People
    BY <1>0, <2>1, <2>2, PeopleTask DEF RecordOf, TypeOK
  <2>3. CASE WorkerStep /\ Perform(job)
    <3>1. n # job.node \/ job.act \in {"none", "transition"}
      BY <1>2, JobWaits DEF Waiting
    <3>2. task'[n] = task[n]
      BY <2>3, <3>1, OthersKept
    <3> QED BY <1>0, <2>1, <3>2 DEF RecordOf
  <2>4. CASE UNCHANGED db
    BY <1>0, <2>1, <2>4 DEF RecordOf, db
  <2> QED BY <2>2, <2>3, <2>4, DatabaseSteps
<1>3. CASE routed[n] = "pending" /\ routed'[n] # "pending"
  <2>1. WorkerStep
    BY <1>3 DEF Next, DispatchRun, RedispatchRun, Begin, WorkflowStep, Loop, Await, Resumed,
          SkipNext,
           ActivateNext, AwaitHuman, AwaitApproval, Leave, Answer, People, SendSignal, Signal,
           SignalFails, Control, vars, flow
  <2>2. Final(job) /\ Returned /\ (Perform(job) \/ (StopsForReview(job) /\ UNCHANGED db))
    BY <1>3, <2>1, WorkerCases, FailedPlaces DEF flow
  <2> QED BY <1>3, <2>2, RoutedNow
<1> QED BY <1>1, <1>2, <1>3

\* What the attempts leave of the tasks, with what it takes to know it.
TasksInv == EndlessInv /\ ChosenInv /\ ApprovalKinds /\ AnswersInv /\ RecordInv

\* ... which holds in every run of any plan without abandoned attempts.
LEMMA TasksKept ==
  ASSUME MaxAbandoned = 0
  PROVE  Spec => []TasksInv
<1>1. Init => TasksInv
  <2> SUFFICES ASSUME Init PROVE TasksInv
    OBVIOUS
  <2>1. Waiting = Nodes /\ \A n \in Nodes : task[n] = IF Into(n) = {} THEN "ready" ELSE "pending"
    BY DEF Init, Waiting
  <2>2. EndlessInv
    BY <2>1 DEF EndlessInv, PlainTask, HumanTask
  <2>3. ChosenInv
    BY <2>1 DEF Init, ChosenInv, Opened
  <2>4. ApprovalKinds /\ AnswersInv
    BY DEF Init, ApprovalKinds, AnswersInv
  <2>5. RecordInv
    BY DEF Init, RecordInv, RecordOf
  <2> QED BY <2>2, <2>3, <2>4, <2>5 DEF TasksInv
<1>2. TypeOK /\ FlowInv /\ DepsInv /\ stale = {} /\ TasksInv /\ [Next]_vars => TasksInv'
  BY EndlessStep, ChosenStep, AnswersStep, RecordStep, DepsStep DEF TasksInv
<1> QED BY <1>1, <1>2, TypeCorrect, OneNodeInHand, OnlyAwaited, DependantsTold, PTL DEF Spec

\* The workflow's record of every node is what the database holds of its task, whatever
\* answers are lost, pauses and executions repeated, when no attempt outlives its timeout.
THEOREM RecordKept ==
  ASSUME MaxAbandoned = 0, \A n \in Nodes : Recorded(n)
  PROVE  Spec => []RoutedMatchesTasks
<1>1. TasksInv => RoutedMatchesTasks
  BY DEF TasksInv, RecordInv, RecordOf, RoutedMatchesTasks
<1> QED BY <1>1, TasksKept, PTL

-----------------------------------------------------------------------------
(* What the dependants of a routed node have been told. *)

\* An approval that fails without a way on ends the run before anyone could depend on it;
\* one that is refused tells its dependants, by the attempt that failed its task.
UntoldInv ==
  /\ \A n \in Nodes :
       Kind[n] = "approval" /\ ~HasFailureEdge(n) /\ routed[n] = "failed"
         /\ (\E d \in OwedTo(n) : dep[d] = "pending")
       => stopped \/ pc \in Closing
  /\ pc = "refusing" /\ task[active] = "failed" => \A d \in OwedTo(active) : dep[d] # "pending"

\* The dependants of a node are told of its failure with it.
LEMMA FailureTold ==
  ASSUME TypeOK, UntoldInv, pc = "refusing", job.act = "fail", job.node = active,
         Perform(job), NEW d \in OwedTo(active)
  PROVE  dep'[d] # "pending"
<1>1. d \in Dependencies /\ d[2] = active
  BY DEF OwedTo
<1>2. (NothingToDo(job) /\ UNCHANGED db) \/ FailTask(active)
  BY DEF Perform, IsSend, Commit, Completes, Starts
<1>3. CASE NothingToDo(job) /\ UNCHANGED db
  <2>1. task[active] = "failed"
    BY <1>3 DEF NothingToDo, Completes, Starts
  <2> QED BY <1>3, <2>1 DEF UntoldInv, db
<1>4. CASE FailTask(active)
  BY <1>1, <1>4 DEF FailTask, SettleDependents
<1> QED BY <1>2, <1>3, <1>4

\* Where the workflow may be when it has just routed a node to failed.
LEMMA FailedRoute ==
  ASSUME TypeOK, FlowInv, Returned, NEW n \in Nodes, routed[n] = "pending", routed'[n] = "failed"
  PROVE  /\ n = active /\ job.node = active
         /\ \/ pc = "refusing" /\ job.act = "fail"
            \/ /\ pc \in {"expiring", "recording"}
               /\ HasFailureEdge(n) \/ stopped' \/ pc' \in Closing
<1>1. CASE pc \in {"reading", "working", "refusing", "expiring", "recording"}
  <2>1. /\ active \in Nodes /\ job.node = active
        /\ Route(active, IF pc \in {"reading", "working"} THEN "succeeded" ELSE "failed")
    BY <1>1 DEF Returned, FlowInv, JobInv, PlaceInv, InProgress, Waiting
  <2>2. n = active /\ pc \notin {"reading", "working"}
    BY <2>1, RouteFacts DEF TypeOK, FlowTypeOK, Route
  <2>3. pc = "refusing" => job.act = "fail"
    BY DEF FlowInv, JobInv
  <2>4. pc \in {"expiring", "recording"} => HasFailureEdge(n) \/ stopped' \/ pc' \in Closing
    BY <2>2 DEF Returned, RequestMove, Call, Closing
  <2> QED BY <1>1, <2>1, <2>2, <2>3, <2>4
<1>2. CASE pc = "skipping"
  <2>1. job.node \in Nodes /\ Route(job.node, "skipped")
    BY <1>2 DEF Returned, FlowInv, JobInv, QueueInv, Waiting
  <2> QED BY <2>1, RouteFacts DEF TypeOK, FlowTypeOK, Route
<1> QED BY <1>1, <1>2 DEF Returned

\* Where the workflow changes its record of a node: at the end of an activity, or anew.
LEMMA RoutedSteps ==
  ASSUME TypeOK, stale = {}, [Next]_vars
  PROVE  \/ UNCHANGED <<routed, stopped>>
         \/ \A n \in Nodes : routed'[n] = "pending"
         \/ /\ WorkerStep /\ Returned /\ Final(job)
            /\ Perform(job) \/ (StopsForReview(job) /\ UNCHANGED db)
<1>1. CASE WorkerStep
  BY <1>1, WorkerCases, FailedPlaces DEF flow
<1>2. CASE DispatchRun \/ RedispatchRun
  BY <1>2 DEF DispatchRun, RedispatchRun, Begin
<1>3. CASE WorkflowStep
  BY <1>3 DEF WorkflowStep, Loop, Await, Resumed, SkipNext, ActivateNext, AwaitHuman,
              AwaitApproval, Leave, Answer
<1>4. CASE People \/ SendSignal \/ SignalFails \/ Control \/ UNCHANGED vars
  BY <1>4 DEF People, SendSignal, Signal, SignalFails, Control, vars, flow
<1> QED BY <1>1, <1>2, <1>3, <1>4 DEF Next

\* ... and it gets to refusing only from waiting.
LEMMA RefusingSteps ==
  ASSUME TypeOK, FlowInv, stale = {}, [Next]_vars, pc' = "refusing"
  PROVE  \/ /\ pc = "refusing" /\ active' = active
            /\ UNCHANGED db \/ Perform(job) \/ People
         \/ pc = "waiting" /\ active' = active /\ UNCHANGED db
<1>1. CASE WorkerStep
  <2>1. ~Returned
    BY DEF Returned, Goto, Call, RequestMove
  <2>2. ~Failed
    BY FailedPlaces DEF Closing
  <2> QED BY <1>1, <2>1, <2>2, WorkerCases DEF flow
<1>2. CASE DispatchRun \/ RedispatchRun
  BY <1>2 DEF DispatchRun, RedispatchRun, Begin, Call
<1>3. CASE WorkflowStep
  <2>1. AwaitApproval
    <3>1. ~Pass /\ ~Finish
      BY DEF Pass, Finish, Throw, RequestMove, Call, Goto
    <3> QED BY <1>3, <3>1 DEF WorkflowStep, Loop, Await, Resumed, SkipNext, ActivateNext,
          AwaitHuman,
              Leave, Answer, RequestMove, Call, Goto
  <2> QED BY <1>3, <2>1 DEF WorkflowStep, AwaitApproval, Leave, Answer, Goto
<1>4. CASE People \/ SendSignal \/ SignalFails \/ Control \/ UNCHANGED vars
  BY <1>4 DEF People, SendSignal, Signal, SignalFails, Control, vars, flow
<1> QED BY <1>1, <1>2, <1>3, <1>4 DEF Next

LEMMA UntoldStep ==
  ASSUME TypeOK, FlowInv, DepsInv, ApprovalKinds, EndlessInv, UntoldInv, stale = {}, [Next]_vars
  PROVE  UntoldInv'
<1>0. \A d \in Dependencies : dep'[d] = "pending" => dep[d] = "pending"
  BY DepsStep
<1>1. ASSUME NEW n \in Nodes, Kind[n] = "approval", ~HasFailureEdge(n), routed'[n] = "failed",
             NEW d \in OwedTo(n), dep'[d] = "pending"
      PROVE  stopped' \/ pc' \in Closing
  <2>1. CASE routed[n] = "failed"
    <3>1. dep[d] = "pending"
      BY <1>0, <1>1 DEF OwedTo
    <3>2. stopped \/ pc \in Closing
      BY <1>1, <2>1, <3>1 DEF UntoldInv
    <3>3. ~DispatchRun /\ ~RedispatchRun
      BY <1>1 DEF DispatchRun, RedispatchRun, Begin
    <3>4. stopped => stopped'
      BY <1>1, RoutedSteps DEF Returned
    <3> QED BY <3>2, <3>3, <3>4, ClosingStays
  <2>2. CASE routed[n] # "failed"
    <3>1. /\ Returned /\ Final(job)
          /\ Perform(job) \/ (StopsForReview(job) /\ UNCHANGED db)
      BY <1>1, <2>2, RoutedSteps
    <3>2. routed[n] = "pending"
      <4>1. ASSUME NEW m \in Waiting, NEW s, s # "pending", Route(m, s), routed[n] # "pending"
            PROVE  routed'[n] = routed[n]
        BY <4>1 DEF Route, Waiting, TypeOK, FlowTypeOK
      <4>2. CASE pc = "skipping"
        <5>1. job.node \in Waiting /\ Route(job.node, "skipped")
          BY <3>1, <4>2 DEF Returned, FlowInv, JobInv, QueueInv
        <5> QED BY <1>1, <2>2, <4>1, <5>1
      <4>3. CASE pc \in {"reading", "working", "refusing", "expiring", "recording"}
        <5>1. active \in Waiting /\ (Route(active, "succeeded") \/ Route(active, "failed"))
          BY <3>1, <4>3 DEF Returned, FlowInv, PlaceInv, InProgress
        <5> QED BY <1>1, <2>2, <4>1, <5>1
      <4> QED BY <1>1, <2>2, <3>1, <4>2, <4>3 DEF Returned
    <3>3. \/ n = active /\ job.node = active /\ pc = "refusing" /\ job.act = "fail"
          \/ stopped' \/ pc' \in Closing
      BY <1>1, <3>1, <3>2, FailedRoute
    <3>4. CASE n = active /\ job.node = active /\ pc = "refusing" /\ job.act = "fail"
      <4>1. Perform(job)
        BY <3>1, <3>4 DEF StopsForReview
      <4> QED BY <1>1, <3>4, <4>1, FailureTold
    <3> QED BY <3>3, <3>4
  <2> QED BY <2>1, <2>2
<1>2. ASSUME pc' = "refusing", task'[active'] = "failed", NEW d \in OwedTo(active')
      PROVE  dep'[d] # "pending"
  <2>1. d \in Dependencies
    BY DEF OwedTo
  <2>2. CASE pc = "waiting" /\ active' = active /\ UNCHANGED db
    <3>1. started = "full" /\ active \in Waiting /\ ~(active = job.node /\ pc = "skipping")
      BY <2>2, PlanAssumption DEF FlowInv, PlaceInv, InProgress, Waiting, TypeOK, SignalsTypeOK
    <3>2. Live
      BY <2>2, <3>1 DEF Live, Closing
    <3>3. task[active] # "failed"
      BY <2>2, <3>1, <3>2 DEF EndlessInv, PlainTask, HumanTask
    <3> QED BY <1>2, <2>2, <3>3 DEF db
  <2>3. CASE pc = "refusing" /\ active' = active /\ (UNCHANGED db \/ Perform(job) \/ People)
    <3>1. job.act = "fail" /\ job.node = active /\ Kind[active] = "approval" /\ active \in Nodes
      BY <2>3 DEF FlowInv, JobInv, PlaceInv, InProgress, Waiting
    <3>2. CASE Perform(job)
      BY <1>2, <2>3, <3>1, <3>2, FailureTold
    <3>3. CASE UNCHANGED db \/ People
      <4>1. task'[active] = task[active]
        BY <3>1, <3>3, PeopleTask DEF db, TypeOK
      <4> QED BY <1>0, <1>2, <2>1, <2>3, <4>1 DEF UntoldInv
    <3> QED BY <2>3, <3>2, <3>3
  <2> QED BY <1>2, <2>2, <2>3, RefusingSteps
<1> QED BY <1>1, <1>2 DEF UntoldInv

\* The dependants of n know how it ended whenever the workflow goes on from it: it is
\* routed to what its task became, and it is no approval with a way on from expiry.
TrueTo(n) == Recorded(n) /\ (Kind[n] = "approval" => ~HasFailureEdge(n))

\* Before work whose predecessors have all told it, nothing is held for pending.
LEMMA ToldInWork ==
  ASSUME TypeOK, FlowInv, DepsInv, RecordInv, UntoldInv, pc = "working",
         \A e \in Into(active) : TrueTo(e.source)
  PROVE  ~Blocked(active)
<1> SUFFICES ASSUME NEW d \in Dependencies, d[1] = active, dep[d] = "pending" PROVE FALSE
  BY DEF Blocked, Owing
<1>1. PICK e \in Edges : d = <<e.target, e.source>>
  BY DEF Dependencies
<1> DEFINE m == e.source
<1>2. e \in Into(active) /\ TrueTo(m) /\ m \in Nodes /\ d \in OwedTo(m) /\ d[2] = m
  BY <1>1, PlanAssumption DEF Into, Edge, OwedTo
<1>3. routed[m] # "pending"
  <2>1. active \in Nodes
    BY DEF FlowInv, PlaceInv, InProgress, Waiting
  <2> QED BY <1>2, <2>1 DEF FlowInv, QueueInv, Sourced
<1>4. routed[m] \in {"succeeded", "skipped", "failed"}
  BY <1>2, <1>3 DEF TypeOK, FlowTypeOK
<1>5. RecordOf(m)
  BY <1>2 DEF RecordInv, TrueTo
<1>6. Kind[m] = "approval" /\ routed[m] = "failed"
  BY <1>2, <1>4, <1>5 DEF RecordOf, DepsInv
<1>7. stopped \/ pc \in Closing
  BY <1>2, <1>6 DEF UntoldInv, TrueTo
<1> QED BY <1>7 DEF FlowInv, PlaceInv, Closing

LEMMA UntoldKept ==
  ASSUME MaxAbandoned = 0
  PROVE  Spec => []UntoldInv
<1>1. Init => UntoldInv
  BY DEF Init, UntoldInv
<1>2. TypeOK /\ FlowInv /\ DepsInv /\ TasksInv /\ stale = {} /\ UntoldInv /\ [Next]_vars
      => UntoldInv'
  BY UntoldStep DEF TasksInv
<1> QED BY <1>1, <1>2, TypeCorrect, OneNodeInHand, OnlyAwaited, DependantsTold, TasksKept,
      PTL DEF Spec

\* The workflow never starts work whose task the database would refuse to complete, because
\* a task it depends on is still held for pending, as long as every node it goes on from has
\* told its dependants.
THEOREM WorkUnblocked ==
  ASSUME MaxAbandoned = 0, \A e \in Edges : TrueTo(e.source)
  PROVE  Spec => []WorkIsUnblocked
<1>1. TypeOK /\ FlowInv /\ DepsInv /\ TasksInv /\ UntoldInv => WorkIsUnblocked
  BY ToldInWork DEF TasksInv, WorkIsUnblocked, Into
<1> QED BY <1>1, TypeCorrect, OneNodeInHand, DependantsTold, TasksKept, UntoldKept, PTL

-----------------------------------------------------------------------------
(* Runs in which no answer is lost: the workflow and the row agree. *)

\* The state the function asks for where it moves the row.
Goal(p) ==
  CASE p = "pausing" -> "paused" [] p = "resuming" -> "running"
    [] p = "cancelling" -> "cancelling" [] p = "ending" -> "cancelled"
    [] p = "stopping" -> "policy_stopped" [] p = "succeeding" -> "succeeded"
    [] OTHER -> "failed"

\* The row is what the function takes it for, whatever signals arrive in between.
RowAt ==
  /\ pc \in {"idle", "starting"} => run = [state |-> "queued", version |-> 1]
  /\ pc = "starting" => job = OnRun("queued", "running", 1) /\ version = 2 /\ current = "running"
  /\ pc \notin Moving \cup {"idle", "closed"} => run = [state |-> current, version |-> version]
  /\ pc \in Moving \ {"starting"} =>
       /\ job = OnRun(run.state, Goal(pc), run.version) /\ version = run.version + 1
       /\ run.state = IF pc = "ending" THEN "cancelling" ELSE current
  /\ pc = "closed" => Ended

\* It is paused only where it waits, unless it has been cancelled, and has nothing to
\* clean up after an error of its own.
CourseInv ==
  /\ started # "empty"
  /\ pc \in {"pausing", "succeeding"} => current = "running"
  /\ pc \in {"await", "resuming"} => current = "paused"
  /\ current = "paused" => pc \in {"await", "resuming"} \/ cancelled
  /\ pc # "closefail"

FenceInv == RowAt /\ CourseInv

\* The fence lets every move of the row through.
LEMMA MoveAllowed ==
  ASSUME TypeOK, FenceInv, pc \in Moving
  PROVE  TransitionAllowed(job.move)
<1>1. CASE pc = "starting"
  BY <1>1 DEF FenceInv, RowAt, Moving, TransitionAllowed, OnRun, RunTransition, RunState
<1>2. CASE pc # "starting"
  <2>1. /\ job.move = [from |-> run.state, to |-> Goal(pc), version |-> run.version]
        /\ run.state = IF pc = "ending" THEN "cancelling" ELSE current
    BY <1>2 DEF FenceInv, RowAt, OnRun
  <2>2. run = [state |-> run.state, version |-> run.version] /\ current \in {"running", "paused"}
    BY DEF TypeOK, DatabaseTypeOK, FlowTypeOK
  <2>3. Goal(pc) \in RunTransition[run.state]
    BY <1>2, <2>1, <2>2 DEF FenceInv, CourseInv, Moving, Goal, RunTransition, RunState
  <2> QED BY <2>1, <2>2, <2>3 DEF TransitionAllowed
<1> QED BY <1>1, <1>2

\* Only a node's own work, or the consumption of its approval, can fail.
LEMMA OnlyWorkFails ==
  ASSUME MaxLost = 0, MaxAbandoned = 0, TypeOK, FlowInv, FenceInv, stale = {}, WorkerStep
  PROVE  \/ AttemptProgresses
         \/ AttemptReturns
         \/ (AttemptRaises \/ AnswerLost) /\ pc \in {"consuming", "working"}
<1>1. AttemptProgresses \/ AttemptReturns \/ AttemptRaises \/ AnswerLost
  BY DEF WorkerStep, AttemptLosesAnswer, AttemptDies, AttemptAbandoned, StaleStep, TypeOK,
         BoundsTypeOK
<1>2. pc \in Moving \/ pc \in {"skipping", "activating", "reading", "refusing", "expiring",
                               "recording"} \/ pc \in {"consuming", "working"}
      \/ pc \in Between
  BY DEF TypeOK, FlowTypeOK, WorkflowPc, Moving, Between, FenceInv, CourseInv
<1>3. CASE AttemptRaises \/ AnswerLost
  <2>1. Working /\ (Refused(job) \/ WorkRaises(job) \/ IsSend(job))
    BY <1>3 DEF AttemptRaises, AnswerLost
  <2>2. pc \notin Between
    BY <2>1 DEF Working, FlowInv, JobInv
  <2>3. pc \notin Moving
    BY <2>1, MoveAllowed DEF FlowInv, JobInv, Refused, WorkRaises, IsSend, Completes, Starts
  <2>4. pc \notin {"skipping", "activating", "reading", "refusing", "expiring", "recording"}
    BY <2>1 DEF FlowInv, JobInv, Refused, WorkRaises, IsSend, Completes, Starts
  <2> QED BY <1>2, <1>3, <2>2, <2>3, <2>4
<1> QED BY <1>1, <1>3

\* What an attempt does to the row.
LEMMA PerformMove ==
  ASSUME NEW j \in Job, Perform(j)
  PROVE  /\ j.act = "transition" => run' = [state |-> j.move.to, version |-> j.move.version + 1]
         /\ j.act # "transition" => run' = run
<1>1. CASE IsSend(j)
  BY <1>1 DEF IsSend, Perform, db
<1>2. CASE ~IsSend(j) /\ j.act = "transition"
  <2>1. TransitionRun(j.move)
    BY <1>2 DEF Perform, Commit, NothingToDo, Completes, Starts
  <2> QED BY <1>2, <2>1 DEF TransitionRun
<1>3. CASE ~IsSend(j) /\ j.act # "transition"
  <2>1. \/ UNCHANGED db
        \/ ActivateTask(j.node) \/ SkipTask(j.node) \/ FailTask(j.node) \/ ConsumeApproval(j.node)
        \/ ExpireApproval(j.node) \/ CompleteTask(j.node) \/ StartTask(j.node)
    BY <1>3 DEF Perform, Commit
  <2> QED BY <1>3, <2>1 DEF db, ActivateTask, SkipTask, FailTask, ConsumeApproval,
        ExpireApproval,
             CompleteTask, StartTask
<1> QED BY <1>1, <1>2, <1>3

\* A pass always finds a node, or there is none in hand.
LEMMA NoCleanUp ==
  ASSUME TypeOK, FlowInv, Settled = {} \/ Unrouted = {}
  PROVE  ~(active # None /\ active \in Unrouted)
BY PlanAssumption DEF FlowInv, QueueInv, Sourced, Settled, Unrouted, PlanNodes, TypeOK,
      FlowTypeOK

\* A request made where the row is what the function takes it for.
LEMMA RequestFence ==
  ASSUME TypeOK, FenceInv, NEW p \in Moving \ {"starting", "ending"},
         RequestMove(p, current, Goal(p)), UNCHANGED <<run, current>>,
         pc \notin Moving \cup {"idle", "closed"}
  PROVE  RowAt' /\ pc' = p
<1>1. /\ pc' = p /\ job' = OnRun(current, Goal(p), version) /\ version' = version + 1
      /\ run' = run /\ current' = current /\ run = [state |-> current, version |-> version]
  BY DEF RequestMove, Call, FenceInv, RowAt
<1>2. run'.state = current' /\ run'.version = version
  BY <1>1
<1> QED BY <1>1, <1>2 DEF RowAt, Moving

LEMMA LocalFence ==
  ASSUME TypeOK, FlowInv, FenceInv, WorkflowStep
  PROVE  FenceInv'
<1>1. UNCHANGED <<run, current, started, cancelled>>
  BY DEF WorkflowStep, db, signals, Loop, Await, Resumed, SkipNext, ActivateNext, AwaitHuman,
         AwaitApproval, Leave, Answer
<1>2. pc \in {"loop", "await", "resumed", "skips", "ready", "waiting"}
  BY DEF WorkflowStep, Loop, Await, Resumed, SkipNext, ActivateNext, AwaitHuman, AwaitApproval
<1>3. pc \notin Moving \cup {"idle", "closed"} /\ run = [state |-> current, version |-> version]
  BY <1>2 DEF Moving, FenceInv, RowAt
<1>4. ASSUME NEW p \in Moving \ {"starting", "ending"}, RequestMove(p, current, Goal(p)),
             p \in {"pausing", "succeeding"} => current = "running",
             p = "resuming" => current = "paused",
             current = "paused" => p = "resuming" \/ cancelled
      PROVE  FenceInv'
  BY <1>1, <1>3, <1>4, RequestFence DEF FenceInv, CourseInv, Moving
<1>5. ASSUME version' = version, pc' \notin Moving \cup {"idle", "closed", "closefail", "await"},
             current = "paused" => cancelled
      PROVE  FenceInv'
  BY <1>1, <1>3, <1>5 DEF FenceInv, RowAt, CourseInv, Moving
<1>6. CASE Throw /\ (Settled = {} \/ Unrouted = {}) /\ (current = "paused" => cancelled)
  <2>1. RequestMove("failing", current, "failed")
    BY <1>6, NoCleanUp DEF Throw
  <2> QED BY <1>4, <1>6, <2>1 DEF Goal, Moving
<1>7. CASE Pass /\ (current = "paused" => cancelled)
  <2>1. CASE Settled = {}
    BY <1>6, <1>7, <2>1 DEF Pass
  <2>2. CASE Settled # {}
    <3>1. pc' = "skips" /\ version' = version
      BY <1>7, <2>2 DEF Pass, Goto
    <3> QED BY <1>5, <1>7, <3>1 DEF Moving
  <2> QED BY <2>1, <2>2
<1>8. CASE Loop
  <2>1. current = "paused" => cancelled
    BY <1>8 DEF Loop, FenceInv, CourseInv
  <2>2. CASE cancelled \/ stopped \/ Unrouted = {}
    <3>1. Finish
      BY <1>8, <2>2 DEF Loop
    <3>2. CASE cancelled
      <4>1. RequestMove("cancelling", current, "cancelling")
        BY <3>1, <3>2 DEF Finish
      <4> QED BY <1>4, <2>1, <4>1 DEF Goal, Moving
    <3>3. CASE ~cancelled /\ stopped
      <4>1. RequestMove("stopping", current, "policy_stopped")
        BY <3>1, <3>3 DEF Finish
      <4> QED BY <1>4, <2>1, <4>1 DEF Goal, Moving
    <3>4. CASE ~cancelled /\ ~stopped /\ Cardinality(Terminals) = 1
      <4>1. RequestMove("succeeding", current, "succeeded")
        BY <3>1, <3>4 DEF Finish
      <4>2. current = "running"
        BY <2>1, <3>4 DEF TypeOK, FlowTypeOK
      <4> QED BY <1>4, <2>1, <4>1, <4>2 DEF Goal, Moving
    <3>5. CASE ~cancelled /\ ~stopped /\ Cardinality(Terminals) # 1
      BY <1>6, <2>1, <2>2, <3>1, <3>5 DEF Finish
    <3> QED BY <3>2, <3>3, <3>4, <3>5
  <2>3. CASE ~(cancelled \/ stopped \/ Unrouted = {}) /\ paused /\ current = "running"
    <3>1. RequestMove("pausing", current, "paused")
      BY <1>8, <2>3 DEF Loop
    <3> QED BY <1>4, <2>3, <3>1 DEF Goal, Moving
  <2>4. CASE ~(cancelled \/ stopped \/ Unrouted = {}) /\ ~(paused /\ current = "running")
    BY <1>7, <1>8, <2>1, <2>4 DEF Loop
  <2> QED BY <2>2, <2>3, <2>4
<1>9. CASE Await
  <2>1. CASE cancelled
    BY <1>7, <1>9, <2>1 DEF Await
  <2>2. CASE ~cancelled
    <3>1. RequestMove("resuming", "paused", "running") /\ pc = "await"
      BY <1>9, <2>2 DEF Await
    <3>2. current = "paused"
      BY <3>1 DEF FenceInv, CourseInv
    <3> QED BY <1>4, <3>1, <3>2 DEF Goal, Moving
  <2> QED BY <2>1, <2>2
<1>10. CASE Resumed
  BY <1>7, <1>10 DEF Resumed, FenceInv, CourseInv
<1>11. CASE SkipNext \/ ActivateNext \/ AwaitHuman \/ AwaitApproval
  <2>1. /\ version' = version
        /\ pc' \in {"ready", "skipping", "loop", "activating", "reading", "consuming", "refusing",
                    "expiring"}
    BY <1>11 DEF SkipNext, ActivateNext, AwaitHuman, AwaitApproval, Leave, Answer, Goto, Call
  <2>2. pc \notin {"await", "resuming"}
    BY <1>11 DEF SkipNext, ActivateNext, AwaitHuman, AwaitApproval
  <2> QED BY <1>5, <2>1, <2>2 DEF Moving, FenceInv, CourseInv
<1> QED BY <1>8, <1>9, <1>10, <1>11 DEF WorkflowStep

\* The end of an activity.
LEMMA ReturnedFence ==
  ASSUME TypeOK, FlowInv, FenceInv, Returned, Final(job), UNCHANGED <<started, cancelled>>,
         Perform(job) \/ (StopsForReview(job) /\ UNCHANGED db)
  PROVE  FenceInv'
<1>0. job \in Job /\ run = [state |-> run.state, version |-> run.version]
      /\ current \in {"running", "paused"}
  BY DEF TypeOK, ActivityTypeOK, DatabaseTypeOK, FlowTypeOK
<1>1. CASE pc \in Moving
  <2>1. job.act = "transition"
    BY <1>1 DEF FlowInv, JobInv
  <2>2. run' = [state |-> job.move.to, version |-> job.move.version + 1]
    BY <1>0, <2>1, PerformMove DEF StopsForReview
  <2>3. CASE pc = "starting"
    <3>1. run' = [state |-> "running", version |-> 2]
      BY <2>2, <2>3 DEF FenceInv, RowAt, OnRun
    <3>2. pc' = "loop" /\ version' = 2 /\ current' = "running"
      BY <2>3 DEF Returned, Goto, FenceInv, RowAt
    <3> QED BY <3>1, <3>2 DEF FenceInv, RowAt, CourseInv, Moving
  <2>4. CASE pc \in {"pausing", "resuming"}
    <3>1. run' = [state |-> Goal(pc), version |-> version]
      BY <2>2, <2>4 DEF FenceInv, RowAt, OnRun, Moving
    <3>2. pc' \in {"await", "resumed"} /\ version' = version /\ current' = Goal(pc)
          /\ (pc' = "await" <=> pc = "pausing")
      BY <2>4 DEF Returned, Goto, Goal
    <3> QED BY <2>4, <3>1, <3>2 DEF FenceInv, RowAt, CourseInv, Moving, Goal
  <2>5. CASE pc = "cancelling"
    <3>1. run' = [state |-> "cancelling", version |-> version]
      BY <2>2, <2>5 DEF FenceInv, RowAt, OnRun, Moving, Goal
    <3>2. /\ pc' = "ending" /\ job' = OnRun("cancelling", "cancelled", version)
          /\ version' = version + 1 /\ current' = current
      BY <2>5 DEF Returned, RequestMove, Call
    <3> QED BY <2>5, <3>1, <3>2 DEF FenceInv, RowAt, CourseInv, Moving, Goal
  <2>6. CASE pc \in {"ending", "stopping", "succeeding", "failing"}
    <3>1. run'.state = Goal(pc)
      BY <2>2, <2>6 DEF FenceInv, RowAt, OnRun, Moving
    <3>2. pc' = "closed" /\ current' = current
      BY <2>6 DEF Returned, Goto
    <3> QED BY <2>6, <3>1, <3>2 DEF FenceInv, RowAt, CourseInv, Moving, Goal, Ended, TerminalRun
  <2> QED BY <1>1, <2>3, <2>4, <2>5, <2>6 DEF Moving
<1>2. CASE pc \notin Moving
  <2>1. pc \in {"skipping", "activating", "consuming", "reading", "working", "refusing", "expiring",
                "recording"}
    BY <1>2 DEF Returned, Moving, FenceInv, CourseInv
  <2>2. run' = run
    BY <1>0, <2>1, PerformMove DEF FlowInv, JobInv, WorkOf, OnTask, StopsForReview, db
  <2>3. run = [state |-> current, version |-> version] /\ current' = current
    BY <1>2, <2>1 DEF FenceInv, RowAt, Returned
  <2>4. current = "paused" => cancelled
    BY <2>1 DEF FenceInv, CourseInv
  <2>5. CASE pc' \in {"skips", "waiting", "working", "ready", "loop"} /\ version' = version
    BY <2>2, <2>3, <2>4, <2>5 DEF FenceInv, RowAt, CourseInv, Moving
  <2>6. CASE RequestMove("failing", current, "failed")
    <3>1. RowAt' /\ pc' = "failing"
      BY <1>2, <2>1, <2>2, <2>3, <2>6, RequestFence DEF Moving, Goal
    <3> QED BY <2>3, <2>4, <3>1 DEF FenceInv, CourseInv
  <2> QED BY <2>1, <2>5, <2>6 DEF Returned, Goto, Call
<1> QED BY <1>1, <1>2

LEMMA WorkerFence ==
  ASSUME MaxLost = 0, MaxAbandoned = 0, TypeOK, FlowInv, FenceInv, stale = {}, WorkerStep
  PROVE  FenceInv'
<1>1. UNCHANGED <<started, cancelled>>
  BY DEF WorkerStep, signals
<1>2. CASE AttemptReturns
  BY <1>1, <1>2, ReturnedFence DEF AttemptReturns, db
<1>3. CASE AttemptProgresses
  <2>1. ~Final(job) /\ job \in Job /\ Perform(job) /\ UNCHANGED flow
    BY <1>3 DEF AttemptProgresses, TypeOK, ActivityTypeOK
  <2>2. pc \notin Moving
    BY <2>1 DEF FenceInv, RowAt, OnRun, Final
  <2>3. run' = run
    <3>1. job.act # "transition"
      BY <2>1, <2>2 DEF TypeOK, FlowTypeOK, FlowInv, JobInv, WorkflowPc, Moving, Between, NoJob,
                        WorkOf, OnTask
    <3> QED BY <2>1, <3>1, PerformMove
  <2> QED BY <1>1, <2>1, <2>2, <2>3 DEF FenceInv, RowAt, CourseInv, flow, Ended, Moving
<1>4. CASE (AttemptRaises \/ AnswerLost) /\ pc \in {"consuming", "working"}
  <2>1. UNCHANGED run
    BY <1>4 DEF AttemptRaises, AnswerLost, db
  <2>2. CASE UNCHANGED flow
    BY <1>1, <1>4, <2>1, <2>2 DEF FenceInv, RowAt, CourseInv, flow, Moving
  <2>3. CASE Failed
    <3>1. pc' = "recording" /\ version' = version /\ current' = current
      BY <1>4, <2>3 DEF Failed, Call
    <3> QED BY <1>1, <1>4, <2>1, <3>1 DEF FenceInv, RowAt, CourseInv, Moving
  <2> QED BY <1>4, <2>2, <2>3 DEF AttemptRaises, AnswerLost, Again
<1> QED BY <1>2, <1>3, <1>4, OnlyWorkFails

LEMMA FenceStep ==
  ASSUME MaxLost = 0, MaxAbandoned = 0, TypeOK, FlowInv, FenceInv, stale = {}, [Next]_vars
  PROVE  FenceInv'
<1>1. CASE DispatchRun
  <2>1. /\ started' = "full" /\ pc' = "starting" /\ version' = 2 /\ current' = "running"
        /\ job' = OnRun("queued", "running", 1) /\ run' = run
    BY <1>1 DEF DispatchRun, Begin, Call, db
  <2>2. pc = "idle"
    BY <1>1 DEF DispatchRun, FlowInv, PlaceInv
  <2> QED BY <2>1, <2>2 DEF FenceInv, RowAt, CourseInv, Moving
<1>2. ~RedispatchRun
  BY DEF RedispatchRun, TypeOK, BoundsTypeOK
<1>3. CASE People \/ SendSignal \/ SignalFails \/ Control \/ UNCHANGED vars
  <2>1. UNCHANGED <<flow, job, started>> /\ (cancelled => cancelled')
    BY <1>3 DEF People, SendSignal, Signal, SignalFails, Control, Pause, Resume, Cancel, vars,
                signals
  <2>2. run' = run
    BY <1>3 DEF People, Decide, Revoke, Claim, RequestClarification, SubmitForm, SubmitInBulk,
                Submit, AnswerAgain, SendSignal, Signal, SignalFails, Control, vars, db
  <2> QED BY <2>1, <2>2 DEF FenceInv, RowAt, CourseInv, flow, Ended
<1> QED BY <1>1, <1>2, <1>3, LocalFence, WorkerFence DEF Next

\* No run in which no answer is lost ever gets past the fence unnoticed.
LEMMA FenceKept ==
  ASSUME MaxLost = 0, MaxAbandoned = 0
  PROVE  Spec => []FenceInv
<1>1. Init => FenceInv
  BY DEF Init, FenceInv, RowAt, CourseInv, Moving
<1>2. TypeOK /\ FlowInv /\ stale = {} /\ FenceInv /\ [Next]_vars => FenceInv'
  BY FenceStep
<1> QED BY <1>1, <1>2, TypeCorrect, OneNodeInHand, OnlyAwaited, PTL DEF Spec

\* When the workflow function has returned the run has ended, as long as no answer was lost
\* on the way: its copy of the row's state and version is the row's at every request.
THEOREM ClosedEnded ==
  ASSUME MaxLost = 0, MaxAbandoned = 0
  PROVE  Spec => []ClosedMeansEnded
<1>1. FenceInv => ClosedMeansEnded
  BY DEF FenceInv, RowAt, ClosedMeansEnded
<1> QED BY <1>1, FenceKept, PTL

-----------------------------------------------------------------------------
(* ... and what has ended stays so. *)

\* The work in hand, and the failure that is being recorded, is of a task that has not ended.
UndoneInv ==
  pc \in {"working", "recording"} =>
    /\ Kind[active] # "human" /\ task[active] \in {"pending", "ready", "running"}
    /\ Final(job) \/ job.act \in {"agent", "connector"}

\* Where an attempt may change the task of the node in hand.
LEMMA TaskCases ==
  ASSUME TypeOK, FlowInv, FenceInv, EndlessInv, UndoneInv, Perform(job),
         NEW n \in Nodes, task'[n] # task[n]
  PROVE  /\ task[n] \in {"pending", "ready", "running", "waiting"}
         /\ pc = "working" => /\ n = active
                              /\ \/ Completes(job)
                                 \/ Starts(job) /\ task'[n] = "running"
<1>1. job \in Job /\ DatabaseTypeOK
  BY DEF TypeOK, ActivityTypeOK
<1>2. /\ job.node = n
      /\ \/ job.act = "activate" /\ task[n] = "pending" /\ task'[n] = "ready"
         \/ job.act = "skip" /\ task[n] \in {"pending", "ready"} /\ task'[n] = "skipped"
         \/ job.act = "fail" /\ task'[n] = "failed"
         \/ Completes(job) /\ task'[n] = "succeeded"
         \/ Starts(job) /\ task[n] # "succeeded" /\ task'[n] = "running"
         \/ job.act = "expire" /\ task[n] \in {"ready", "running"} /\ task'[n] = "failed"
  BY <1>1, PerformTask
<1>3. pc = "working" => n = active /\ job.act \in {"complete", "agent", "connector"}
  BY <1>2 DEF FlowInv, JobInv, WorkOf, OnTask
<1>4. CASE job.act = "fail"
  <2>1. pc \in {"refusing", "recording"} /\ n = active
    BY <1>2, <1>4 DEF FlowInv, JobInv, TypeOK, FlowTypeOK, WorkflowPc, Moving, Between, NoJob,
          WorkOf,
                      OnTask, FenceInv, CourseInv
  <2>2. CASE pc = "refusing"
    <3>1. started = "full" /\ active \in Waiting /\ Kind[active] = "approval"
      BY <2>2, PlanAssumption DEF FlowInv, JobInv, PlaceInv, InProgress, Waiting, TypeOK,
            SignalsTypeOK
    <3>2. PlainTask(active)
      BY <2>2, <3>1 DEF EndlessInv, Live, Closing
    <3> QED BY <1>2, <1>3, <1>4, <2>1, <2>2, <3>2 DEF PlainTask, Completes, Starts
  <2>3. CASE pc = "recording"
    BY <2>1, <2>3 DEF UndoneInv
  <2> QED BY <2>1, <2>2, <2>3
<1>5. CASE Completes(job) \/ Starts(job)
  <2>1. pc = "working"
    BY <1>5 DEF FlowInv, JobInv, TypeOK, FlowTypeOK, WorkflowPc, Moving, Between, NoJob,
          Completes,
                Starts, FenceInv, CourseInv
  <2> QED BY <1>2, <1>3, <2>1 DEF UndoneInv, Completes, Starts
<1> QED BY <1>2, <1>3, <1>4, <1>5

\* No step of a run without lost answers changes a task that has ended.
LEMMA FrozenStep ==
  ASSUME TypeOK, FlowInv, FenceInv, EndlessInv, UndoneInv, stale = {}, [Next]_vars,
         NEW n \in Nodes, task[n] \in TerminalTask
  PROVE  task'[n] = task[n]
<1>1. CASE People
  BY <1>1, PeopleTask DEF TypeOK, TerminalTask
<1>2. CASE Perform(job)
  BY <1>2, TaskCases DEF TerminalTask
<1> QED BY <1>1, <1>2, DatabaseSteps DEF db

\* Work is taken up for a task that has not ended.
LEMMA BeginsUndone ==
  ASSUME TypeOK, FlowInv, EndlessInv, pc \in {"activating", "consuming"},
         Kind[active] # "human", Perform(job)
  PROVE  task'[active] \in {"pending", "ready"}
<1>1. started = "full" /\ active \in Waiting
  BY PlanAssumption DEF FlowInv, PlaceInv, InProgress, Waiting, TypeOK, SignalsTypeOK
<1> QED BY <1>1, CourseKept DEF Live, Closing

LEMMA UndoneStep ==
  ASSUME MaxLost = 0, MaxAbandoned = 0, TypeOK, FlowInv, FenceInv, EndlessInv, UndoneInv,
         stale = {}, [Next]_vars
  PROVE  UndoneInv'
<1>1. CASE DispatchRun \/ RedispatchRun
  BY <1>1 DEF DispatchRun, RedispatchRun, Begin, Call, UndoneInv
<1>2. CASE WorkflowStep
  <2>1. ~Pass \/ pc' \notin {"working", "recording"}
    BY DEF Pass, Throw, RequestMove, Call, Goto
  <2>2. ~Finish \/ pc' \notin {"working", "recording"}
    BY DEF Finish, Throw, RequestMove, Call
  <2>3. pc' \notin {"working", "recording"}
    BY <1>2, <2>1, <2>2 DEF WorkflowStep, Loop, Await, Resumed, SkipNext, ActivateNext,
          AwaitHuman,
         AwaitApproval, Leave, Answer, RequestMove, Call, Goto
  <2> QED BY <2>3 DEF UndoneInv
<1>3. CASE People
  <2>1. UNCHANGED <<flow, job>>
    BY <1>3 DEF People
  <2>2. pc \in {"working", "recording"} => active \in Nodes
    BY DEF FlowInv, PlaceInv, InProgress, Waiting
  <2> QED BY <1>3, <2>1, <2>2, PeopleTask DEF UndoneInv, Final, flow, TypeOK
<1>4. CASE SendSignal \/ SignalFails \/ Control \/ UNCHANGED vars
  BY <1>4 DEF SendSignal, Signal, SignalFails, Control, vars, flow, db, UndoneInv
<1>5. CASE WorkerStep
  <2>1. CASE AttemptProgresses
    <3>1. UNCHANGED flow /\ Perform(job) /\ ~Final(job)
      BY <2>1 DEF AttemptProgresses
    <3>2. ASSUME pc \in {"working", "recording"}
          PROVE  task'[active] \in {"pending", "ready", "running"}
                 /\ job'.act \in {"agent", "connector"}
      <4>1. active \in Nodes
        BY <3>2 DEF FlowInv, PlaceInv, InProgress, Waiting
      <4>2. job.act \in {"agent", "connector"}
        BY <3>1, <3>2 DEF UndoneInv
      <4>3. job'.act = job.act
        BY <2>1, PhaseOnly DEF AttemptProgresses, TypeOK, ActivityTypeOK
      <4>4. CASE task'[active] = task[active]
        BY <3>2, <4>2, <4>3, <4>4 DEF UndoneInv
      <4>5. CASE task'[active] # task[active]
        <5>1. pc = "working"
          BY <3>1, <3>2, <4>2 DEF FlowInv, JobInv
        <5> QED BY <3>1, <4>1, <4>2, <4>3, <4>5, <5>1, TaskCases DEF Completes, Final
      <4> QED BY <4>2, <4>3, <4>4, <4>5
    <3> QED BY <3>1, <3>2 DEF UndoneInv, flow
  <2>2. CASE AttemptReturns
    <3>1. CASE pc \in {"activating", "consuming"}
      <4>1. Perform(job)
        BY <2>2, <3>1 DEF AttemptReturns, FlowInv, JobInv, StopsForReview
      <4>2. active' = active /\ (pc' \in {"working", "recording"} => Kind[active] # "human")
        BY <2>2, <3>1 DEF AttemptReturns, Returned, Goto, Call, FlowInv, JobInv
      <4>3. pc' \in {"working", "recording"} => Final(job)' \/ job'.act \in {"agent", "connector"}
        BY <2>2, <3>1 DEF AttemptReturns, Returned, Goto, Call, WorkOf, OnTask, Final
      <4> QED BY <3>1, <4>1, <4>2, <4>3, BeginsUndone DEF UndoneInv
    <3>2. CASE pc \notin {"activating", "consuming"}
      <4>1. pc' \notin {"working", "recording"}
        BY <2>2, <3>2 DEF AttemptReturns, Returned, Goto, Call, RequestMove
      <4> QED BY <4>1 DEF UndoneInv
    <3> QED BY <3>1, <3>2
  <2>3. CASE (AttemptRaises \/ AnswerLost) /\ pc \in {"consuming", "working"}
    <3>1. UNCHANGED <<task, active>>
      <4>1. UNCHANGED db /\ Again
        BY <2>3 DEF AttemptRaises, AnswerLost
      <4> QED BY <4>1, FailedPlaces DEF db, Again, flow
    <3>2. pc' \in {"consuming", "working", "recording"} /\ (pc' = "working" => pc = "working")
      BY <2>3, FailedPlaces DEF AttemptRaises, AnswerLost, Again, flow, Failed, Call
    <3>3. Kind[active] # "human" /\ task[active] \in {"pending", "ready", "running"}
      <4>1. CASE pc = "working"
        BY <4>1 DEF UndoneInv
      <4>2. CASE pc = "consuming"
        <5>1. started = "full" /\ active \in Waiting /\ Kind[active] = "approval"
          BY <4>2, PlanAssumption DEF FlowInv, JobInv, PlaceInv, InProgress, Waiting, TypeOK,
                SignalsTypeOK
        <5>2. PlainTask(active)
          BY <4>2, <5>1 DEF EndlessInv, Live, Closing
        <5> QED BY <4>2, <5>1, <5>2 DEF PlainTask
      <4> QED BY <2>3, <4>1, <4>2
    <3>4. job'.act \in {"agent", "connector"} \/ Final(job)'
      <4>1. CASE Failed
        BY <2>3, <4>1 DEF Failed, Call, OnTask, Final
      <4>2. CASE job' = [job EXCEPT !.phase = "start"]
        <5>1. job'.act = job.act /\ job'.phase = "start"
          BY <4>2 DEF TypeOK, ActivityTypeOK, Job
        <5> QED BY <5>1 DEF Final
      <4> QED BY <2>3, <4>1, <4>2 DEF AttemptRaises, AnswerLost, Again
    <3> QED BY <3>1, <3>2, <3>3, <3>4 DEF UndoneInv
  <2> QED BY <1>5, <2>1, <2>2, <2>3, OnlyWorkFails
<1> QED BY <1>1, <1>2, <1>3, <1>4, <1>5 DEF Next

LEMMA UndoneKept ==
  ASSUME MaxLost = 0, MaxAbandoned = 0
  PROVE  Spec => []UndoneInv
<1>1. Init => UndoneInv
  BY DEF Init, UndoneInv
<1>2. /\ TypeOK /\ FlowInv /\ FenceInv /\ TasksInv /\ stale = {}
      /\ UndoneInv /\ [Next]_vars
      => UndoneInv'
  BY UndoneStep DEF TasksInv
<1> QED BY <1>1, <1>2, TypeCorrect, OneNodeInHand, OnlyAwaited, TasksKept, FenceKept,
      PTL DEF Spec

-----------------------------------------------------------------------------
(* Attempts that outlive their timeout: what is done stays done. *)

\* A task is being failed, or has been: the workflow will not count it as done any more.
Failing(n) ==
  /\ n \in Nodes /\ routed[n] # "succeeded"
  /\ \/ routed[n] = "failed" \/ pc \in Closing
     \/ n = active /\ pc \in {"refusing", "recording"}

\* An abandoned attempt at failing a task is for a task that is being failed, as long as
\* the execution has a plan to route.
LateInv ==
  /\ started = "no" => stale = {}
  /\ started = "full" => \A j \in stale : j.act = "fail" => Failing(j.node)

\* From where the workflow has a task failed.
LEMMA FailPlaces ==
  ASSUME TypeOK, FlowInv, job.act = "fail"
  PROVE  /\ pc \in {"refusing", "recording", "closefail"}
         /\ job.node = active /\ active \in Waiting
<1>1. pc \in {"refusing", "recording", "closefail"}
  BY DEF FlowInv, JobInv, TypeOK, FlowTypeOK, WorkflowPc, Moving, Between, NoJob, WorkOf, OnTask
<1> QED BY <1>1 DEF FlowInv, JobInv, PlaceInv, InProgress

LEMMA FailFails ==
  ASSUME TypeOK, FlowInv, job.act = "fail"
  PROVE  Failing(job.node)
BY FailPlaces DEF Failing, Waiting, Closing

\* What an abandoned attempt was before the step.
LEMMA StaleFrom ==
  ASSUME TypeOK, [Next]_vars, NEW i \in stale'
  PROVE  \/ \E j \in stale : i.act = j.act /\ i.node = j.node
         \/ i = job /\ job # NoJob
<1>1. CASE WorkerStep
  <2>1. CASE StaleStep
    <3>1. PICK j \in stale : \/ stale' = (stale \ {j}) \cup (IF Final(j) THEN {} ELSE {Following(j)})
                            \/ stale' = stale \ {j}
      BY <2>1 DEF StaleStep
    <3>2. Following(j).act = j.act /\ Following(j).node = j.node
      BY PhaseOnly DEF TypeOK, ActivityTypeOK
    <3> QED BY <3>1, <3>2
  <2> QED BY <1>1, <2>1 DEF WorkerStep, AttemptProgresses, AttemptReturns, AttemptRaises,
       AnswerLost, AttemptLosesAnswer, AttemptDies, AttemptAbandoned, Working
<1>2. CASE ~WorkerStep
  BY <1>2 DEF Next, vars, DispatchRun, RedispatchRun, Begin, WorkflowStep, People, SendSignal,
       Signal, SignalFails, Control
<1> QED BY <1>1, <1>2

\* How one step moves the workflow on.
LEMMA FlowSteps ==
  ASSUME [Next]_vars
  PROVE  \/ DispatchRun \/ RedispatchRun
         \/ started' = started /\ (UNCHANGED flow \/ Returned \/ Failed \/ WorkflowStep)
<1>1. Again => UNCHANGED flow \/ Failed
  BY DEF Again
<1>2. WorkerStep => started' = started /\ (UNCHANGED flow \/ Returned \/ Failed)
  BY <1>1 DEF WorkerStep, AttemptProgresses, AttemptReturns, AttemptRaises, AnswerLost,
       AttemptLosesAnswer, AttemptDies, AttemptAbandoned, StaleStep
<1> QED BY <1>2 DEF Next, vars, flow, WorkflowStep, People, SendSignal, Signal, SignalFails,
       Control

\* A task that is being failed, or was, is never counted as done.
LEMMA FailingStays ==
  ASSUME TypeOK, FlowInv, [Next]_vars, started = "full", started' = "full",
         NEW n, Failing(n)
  PROVE  Failing(n)'
<1>1. ~DispatchRun /\ ~RedispatchRun
  BY DEF DispatchRun, RedispatchRun, Begin
<1>2. CASE UNCHANGED flow
  BY <1>2 DEF flow, Failing
<1>3. pc \in Closing => pc' \in Closing
  BY <1>1, ClosingStays
<1>4. CASE Failed
  <2>1. UNCHANGED <<routed, active>> /\ (pc' \in Closing \/ pc' = "recording")
    BY <1>4, FailedPlaces
  <2> QED BY <1>3, <2>1 DEF Failing
<1>5. CASE WorkflowStep
  <2>1. routed' = routed /\ pc \notin {"refusing", "recording"}
    BY <1>5 DEF WorkflowStep, Loop, Await, Resumed, SkipNext, ActivateNext, AwaitHuman,
              AwaitApproval, Leave, Answer
  <2> QED BY <1>3, <2>1 DEF Failing
<1>6. CASE Returned
  <2>1. CASE pc \in Closing
    <3>1. routed' = routed
      BY <1>6, <2>1 DEF Returned, Closing
    <3> QED BY <1>3, <2>1, <3>1 DEF Failing
  <2>2. CASE n = active /\ pc \in {"refusing", "recording"}
    <3>1. Route(n, "failed")
      BY <1>6, <2>2 DEF Returned
    <3> QED BY <3>1 DEF Route, Failing, TypeOK, FlowTypeOK
  <2>3. CASE routed[n] = "failed"
    <3>1. \A m \in Waiting : \A r : Route(m, r) => routed'[n] = routed[n]
      BY <2>3 DEF Route, Waiting, TypeOK, FlowTypeOK
    <3>2. pc = "skipping" => job.node \in Waiting
      BY DEF FlowInv, JobInv, QueueInv
    <3>3. pc \in InProgress => active \in Waiting
      BY DEF FlowInv, PlaceInv
    <3>4. routed'[n] = routed[n]
      BY <1>6, <3>1, <3>2, <3>3 DEF Returned, InProgress
    <3> QED BY <2>3, <3>4 DEF Failing
  <2> QED BY <2>1, <2>2, <2>3 DEF Failing
<1> QED BY <1>1, <1>2, <1>4, <1>5, <1>6, FlowSteps

LEMMA LateStep ==
  ASSUME TypeOK, FlowInv, LateInv, [Next]_vars
  PROVE  LateInv'
<1>1. CASE DispatchRun \/ RedispatchRun
  <2>1. /\ stale' = stale /\ started' \in {"full", "empty"}
        /\ started' = "full" => started = "no"
    BY <1>1 DEF DispatchRun, RedispatchRun, Begin
  <2> QED BY <2>1 DEF LateInv
<1>2. CASE started' = started
  <2>1. ASSUME started = "no" PROVE stale' = {}
    <3>1. job = NoJob /\ stale = {}
      BY <2>1 DEF LateInv, FlowInv, PlaceInv, JobInv, Between
    <3> QED BY <3>1, StaleFrom
  <2>2. ASSUME started = "full", NEW i \in stale', i.act = "fail" PROVE Failing(i.node)'
    <3>1. CASE i = job
      <4>1. Failing(i.node)
        BY <2>2, <3>1, FailFails
      <4> QED BY <1>2, <2>2, <4>1, FailingStays
    <3>2. ASSUME NEW j \in stale, i.act = j.act, i.node = j.node PROVE Failing(i.node)'
      <4>1. Failing(i.node)
        BY <2>2, <3>2 DEF LateInv
      <4> QED BY <1>2, <2>2, <4>1, FailingStays
    <3> QED BY <3>1, <3>2, StaleFrom
  <2> QED BY <1>2, <2>1, <2>2 DEF LateInv
<1> QED BY <1>1, <1>2, FlowSteps

\* Nothing takes back that a task is done but failTask, and never once the workflow has
\* counted it, whatever answers are lost and attempts outlive their timeout.
THEOREM DoneKept == Spec => DoneStaysDone
<1>1. Init => LateInv
  BY DEF Init, LateInv
<1>2. TypeOK /\ FlowInv /\ LateInv /\ [Next]_vars => LateInv'
  BY LateStep
<1>3. TypeOK /\ FlowInv /\ LateInv /\ [Next]_vars =>
        [\A n \in Nodes : task[n] = "succeeded" /\ task'[n] # "succeeded" =>
           task'[n] = "failed" /\ routed[n] # "succeeded"]_vars
  <2> SUFFICES ASSUME TypeOK, FlowInv, LateInv, [Next]_vars, NEW n \in Nodes,
                      task[n] = "succeeded", task'[n] # "succeeded"
               PROVE  task'[n] = "failed" /\ routed[n] # "succeeded"
    OBVIOUS
  <2>1. DatabaseTypeOK /\ \A j \in stale \cup {job} : j \in Job
    BY DEF TypeOK, ActivityTypeOK
  <2>2. ~People
    BY <2>1, PeopleTask
  <2>3. PICK j \in stale \cup {job} : Perform(j)
    BY <2>2, DatabaseSteps DEF db
  <2>4. j.act = "fail" /\ j.node = n /\ task'[n] = "failed"
    BY <2>1, <2>3, PerformTask
  <2>5. CASE started = "full"
    BY <2>4, <2>5, FailFails DEF LateInv, Failing
  <2>6. CASE started # "full"
    BY <2>4, <2>6 DEF FlowInv, PlaceInv, Waiting
  <2> QED BY <2>4, <2>5, <2>6
<1> QED BY <1>1, <1>2, <1>3, TypeCorrect, OneNodeInHand, PTL DEF Spec, DoneStaysDone

-----------------------------------------------------------------------------
(* An approval that was spent. *)

\* Either the work behind it is done, or it is in hand.
ConsumedInv ==
  \A n \in Nodes : approval[n] = "CONSUMED" =>
    task[n] = "succeeded" \/ (pc = "working" /\ n = active)

\* An approval is spent by the workflow only, when it is the node in hand.
LEMMA SpentInHand ==
  ASSUME TypeOK, FlowInv, stale = {}, [Next]_vars,
         NEW n \in Nodes, approval[n] # "CONSUMED", approval'[n] = "CONSUMED"
  PROVE  pc = "consuming" /\ n = active /\ job.act = "consume" /\ WorkerStep
<1>1. ~People
  BY DEF People, Decide, Revoke, Claim, RequestClarification, SubmitForm, SubmitInBulk, Submit,
         AnswerAgain, db, Decisive, TypeOK, DatabaseTypeOK
<1>2. WorkerStep /\ Perform(job)
  BY <1>1, DatabaseSteps DEF db
<1>3. ConsumeApproval(job.node) /\ job.act = "consume"
  <2>1. ~SkipTask(job.node)
    BY DEF SkipTask, TypeOK, DatabaseTypeOK
  <2>2. ~ExpireApproval(job.node)
    BY PlanAssumption DEF ExpireApproval, TypeOK, DatabaseTypeOK
  <2> QED BY <1>2, <2>1, <2>2 DEF Perform, Commit, db, TransitionRun, ActivateTask, FailTask,
        CompleteTask,
             StartTask
<1>4. job.node = n
  BY <1>3 DEF ConsumeApproval, TypeOK, DatabaseTypeOK
<1>5. pc = "consuming"
  BY <1>3 DEF FlowInv, JobInv, TypeOK, FlowTypeOK, WorkflowPc, Moving, Between, NoJob, WorkOf,
        OnTask
<1> QED BY <1>2, <1>3, <1>4, <1>5 DEF FlowInv, JobInv

\* Approved work that is in hand is not dropped.
LEMMA WorkKept ==
  ASSUME MaxLost = 0, MaxAbandoned = 0, TypeOK, FlowInv, FenceInv, stale = {}, [Next]_vars,
         pc = "working", active \notin Fallible, ~Blocked(active),
         Kind[active] = "approval"
  PROVE  \/ pc' = "working" /\ active' = active
         \/ task'[active] = "succeeded"
<1>1. job.act = "complete" /\ job.node = active /\ active \in Nodes /\ job \in Job
  BY DEF FlowInv, JobInv, PlaceInv, InProgress, Waiting, WorkOf, OnTask, TypeOK, ActivityTypeOK
<1>2. CASE WorkerStep
  <2>1. ~AttemptRaises /\ ~AnswerLost
    BY <1>1 DEF AttemptRaises, AnswerLost, Refused, WorkRaises, IsSend, Starts
  <2>2. CASE AttemptReturns
    <3>1. Perform(job)
      BY <1>1, <2>2 DEF AttemptReturns, StopsForReview
    <3> QED BY <1>1, <3>1, PerformDone DEF Completes, TypeOK
  <2>3. CASE AttemptProgresses
    BY <2>3 DEF AttemptProgresses, flow
  <2> QED BY <1>2, <2>1, <2>2, <2>3, OnlyWorkFails
<1>3. CASE DispatchRun \/ RedispatchRun
  BY <1>3 DEF DispatchRun, RedispatchRun, FlowInv, PlaceInv
<1>4. CASE WorkflowStep
  BY <1>4 DEF WorkflowStep, Loop, Await, Resumed, SkipNext, ActivateNext, AwaitHuman,
        AwaitApproval
<1>5. CASE People \/ SendSignal \/ SignalFails \/ Control \/ UNCHANGED vars
  BY <1>5 DEF People, SendSignal, Signal, SignalFails, Control, vars, flow
<1> QED BY <1>2, <1>3, <1>4, <1>5 DEF Next

\* An approved node can be done once it is in hand: its own work raises no error, and what
\* it depends on has been told to it.
Executable ==
  /\ \A n \in Fallible : Kind[n] # "approval"
  /\ \A e \in Edges : Kind[e.target] = "approval" => TrueTo(e.source)

\* Spending an approval and doing the work are two transactions, with nothing in between.
LEMMA ConsumedStep ==
  ASSUME MaxLost = 0, MaxAbandoned = 0, Executable,
         TypeOK, ApprovalInv, FlowInv, DepsInv, FenceInv, TasksInv, UntoldInv, UndoneInv,
         ConsumedInv, stale = {}, [Next]_vars
  PROVE  ConsumedInv'
<1> SUFFICES ASSUME NEW n \in Nodes, approval'[n] = "CONSUMED"
             PROVE  task'[n] = "succeeded" \/ (pc' = "working" /\ n = active')
  BY DEF ConsumedInv
<1>1. CASE approval[n] # "CONSUMED"
  <2>1. pc = "consuming" /\ n = active /\ job.act = "consume" /\ WorkerStep
    BY <1>1, SpentInHand
  <2>2. ~UNCHANGED db
    BY <1>1 DEF db
  <2>3. AttemptReturns
    <3>1. ~AttemptProgresses
      BY <2>1 DEF AttemptProgresses, ApprovalInv, OnTask, Final
    <3> QED BY <2>1, <2>2, <3>1, OnlyWorkFails DEF AttemptRaises, AnswerLost, db
  <2> QED BY <2>1, <2>3 DEF AttemptReturns, Returned, Call
<1>2. CASE approval[n] = "CONSUMED" /\ task[n] = "succeeded"
  BY <1>2, FrozenStep DEF TasksInv, TerminalTask
<1>3. CASE approval[n] = "CONSUMED" /\ pc = "working" /\ n = active
  <2>1. Kind[active] = "approval" /\ active \notin Fallible
    BY <1>3 DEF TasksInv, ApprovalKinds, Executable
  <2>2. \A e \in Into(active) : TrueTo(e.source)
    BY <2>1 DEF Into, Executable
  <2>3. ~Blocked(active)
    BY <1>3, <2>2, ToldInWork DEF TasksInv
  <2> QED BY <1>3, <2>1, <2>3, WorkKept
<1> QED BY <1>1, <1>2, <1>3 DEF ConsumedInv

\* When the workflow function has returned, every approval that was spent was spent on work
\* that was done, if approved work cannot fail and no answer is lost: cancelling, pausing
\* and revoking at any moment between the two transactions undo neither.
THEOREM ConsumedExecuted ==
  ASSUME MaxLost = 0, MaxAbandoned = 0, Executable
  PROVE  Spec => []ConsumedMeansExecuted
<1>1. Init => ConsumedInv
  BY DEF Init, ConsumedInv
<1>2. /\ TypeOK /\ ApprovalInv /\ FlowInv /\ DepsInv /\ FenceInv /\ TasksInv
      /\ UntoldInv /\ UndoneInv /\ stale = {} /\ ConsumedInv /\ [Next]_vars
      => ConsumedInv'
  BY ConsumedStep
<1>3. ConsumedInv => ConsumedMeansExecuted
  BY DEF ConsumedInv, ConsumedMeansExecuted
<1> QED BY <1>1, <1>2, <1>3, TypeCorrect, ApprovalKept, OneNodeInHand, OnlyAwaited,
      DependantsTold, TasksKept,
        FenceKept, UntoldKept, UndoneKept, PTL DEF Spec

=============================================================================
