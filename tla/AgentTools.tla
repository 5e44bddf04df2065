----------------------------- MODULE AgentTools -----------------------------
(***************************************************************************)
(* The attempts of one agent task in the worker, each an execution of its  *)
(* own with the loop of packages/agent-runtime/src/runtime.ts, and the tool*)
(* broker they call over HTTP (packages/tool-broker/src/broker.ts).  The   *)
(* broker's records are in its memory: a restart loses them.  Neither the  *)
(* end of the worker's request nor the timeout of its activity reaches the *)
(* broker.  The model and the tools' adapters are free: what they answer   *)
(* is a choice of the actions.                                             *)
(***************************************************************************)
EXTENDS Integers

CONSTANTS
  MaxAttempts,    \* maximumAttempts of the activity
  Tools,
  Inputs,         \* of tool calls, as their hashes
  NoInput,
  MaxTurns, MaxToolCalls,
  Reviewed,       \* the tools whose calls wait for an approval
  MaxRestarts     \* bound on the restarts of the broker

ASSUME AgentAssumption ==
  /\ MaxAttempts \in Nat \ {0} /\ MaxTurns \in Nat /\ MaxToolCalls \in Nat
  /\ MaxRestarts \in Nat /\ NoInput \notin Inputs /\ Reviewed \subseteq Tools

Executions == 1..MaxAttempts   \* executionId = randomUUID() in every attempt
Receipts == {"none", "confirmed", "failed", "uncertain"}

VARIABLES
  pc,         \* of the loop
  turns, toolCalls,
  row,        \* agent_executions.state
  task,       \* the state of the task's row
  request,    \* the tool call of an execution under way at the broker: the tool, or none
  reply,      \* what the broker has answered
  hash,       \* of #operations, whose ids name the execution and the tool: the input
  receipt,    \* of #operations: what is on record of the call
  sent,       \* how often an operation was sent to its adapter since the broker started
  effects,    \* how often the provider accepted it since then
  restarts

loop == <<pc, turns, toolCalls>>
broker == <<hash, receipt, sent, effects>>
vars == <<loop, row, task, request, reply, broker, restarts>>

NoRequest == [tool |-> "none", input |-> NoInput, at |-> "none"]
Requests == {NoRequest} \cup [tool : Tools, input : Inputs, at : {"wire", "adapter"}]
PerOperation(x) == [e \in Executions |-> [t \in Tools |-> x]]

Init ==
  /\ pc = [e \in Executions |-> "none"]
  /\ turns = [e \in Executions |-> 0] /\ toolCalls = [e \in Executions |-> 0]
  /\ row = [e \in Executions |-> "none"]
  /\ task = "running"
  /\ request = [e \in Executions |-> NoRequest]
  /\ reply = [e \in Executions |-> "none"]
  /\ hash = PerOperation(NoInput) /\ receipt = PerOperation("none")
  /\ sent = PerOperation(0) /\ effects = PerOperation(0)
  /\ restarts = 0

Go(e, p) == pc' = [pc EXCEPT ![e] = p]
Journal(e, s) == row' = [row EXCEPT ![e] = s]

-----------------------------------------------------------------------------
(* The worker. *)

\* The first attempt, or one that Temporal starts as the last has failed or timed out.
Begin(e) ==
  /\ pc[e] = "none"
  /\ e > 1 => pc[e - 1] \notin {"none", "done", "approval"}
  /\ Go(e, "thinking") /\ Journal(e, "running")
  /\ UNCHANGED <<turns, toolCalls, task, request, reply, broker, restarts>>

\* Any error: a limit, the clock, the model gateway, stale context, a cancelled activity.
Fail(e) ==
  /\ Go(e, "failed")
  /\ \E s \in {"failed", "cancelled"} : Journal(e, s)

Stop(e) ==
  /\ pc[e] \in {"thinking", "calling", "completing"}
  /\ Fail(e)
  /\ UNCHANGED <<turns, toolCalls, task, request, reply, broker, restarts>>

\* The worker process dies: nothing is journaled.
Die(e) ==
  /\ pc[e] \in {"thinking", "calling", "completing"}
  /\ Go(e, "failed")
  /\ UNCHANGED <<turns, toolCalls, row, task, request, reply, broker, restarts>>

Turn(e) ==
  /\ pc[e] = "thinking" /\ turns[e] < MaxTurns
  /\ turns' = [turns EXCEPT ![e] = @ + 1]

\* The model writes to memory.
Remember(e) ==
  /\ Turn(e)
  /\ UNCHANGED <<pc, toolCalls, row, task, request, reply, broker, restarts>>

\* The model calls a tool.
CallTool(e, t, i) ==
  /\ Turn(e) /\ toolCalls[e] < MaxToolCalls
  /\ IF t \in Reviewed
       THEN Go(e, "approval") /\ Journal(e, "approval_wait") /\ UNCHANGED request
       ELSE /\ Go(e, "calling")
            /\ request' = [request EXCEPT ![e] = [tool |-> t, input |-> i, at |-> "wire"]]
            /\ UNCHANGED row
  /\ UNCHANGED <<toolCalls, task, reply, broker, restarts>>

\* The model's answer is final, and journaled before the task is completed.
Finish(e) ==
  /\ Turn(e)
  /\ Go(e, "completing") /\ Journal(e, "succeeded")
  /\ UNCHANGED <<toolCalls, task, request, reply, broker, restarts>>

\* completeSyntheticTask, which finds it completed or completes it.
Complete(e) ==
  /\ pc[e] = "completing"
  /\ Go(e, "done") /\ task' = "succeeded"
  /\ UNCHANGED <<turns, toolCalls, row, request, reply, broker, restarts>>

\* TURN_LIMIT_EXCEEDED.
OutOfTurns(e) ==
  /\ pc[e] = "thinking" /\ turns[e] = MaxTurns
  /\ Fail(e)
  /\ UNCHANGED <<turns, toolCalls, task, request, reply, broker, restarts>>

\* The broker's answer: a receipt is a tool result, whatever it says, and any error ends
\* the execution.
TellModel(e) ==   \* variant: an error is told to the model like a result
  /\ pc[e] = "calling" /\ reply[e] # "none"
  /\ Go(e, "thinking") /\ toolCalls' = [toolCalls EXCEPT ![e] = @ + 1]
  /\ reply' = [reply EXCEPT ![e] = "none"]
  /\ UNCHANGED <<turns, row, task, request, broker, restarts>>
HearRefunding(e) ==   \* variant: a call with a receipt costs neither a turn nor a call
  /\ pc[e] = "calling" /\ reply[e] # "none"
  /\ IF reply[e] = "receipt"
       THEN Go(e, "thinking") /\ turns' = [turns EXCEPT ![e] = @ - 1] /\ UNCHANGED row
       ELSE Fail(e) /\ UNCHANGED turns
  /\ reply' = [reply EXCEPT ![e] = "none"]
  /\ UNCHANGED <<toolCalls, task, request, broker, restarts>>
Hear(e) ==
  /\ pc[e] = "calling" /\ reply[e] # "none"
  /\ IF reply[e] = "receipt"
       THEN /\ Go(e, "thinking") /\ toolCalls' = [toolCalls EXCEPT ![e] = @ + 1]
            /\ UNCHANGED row
       ELSE Fail(e) /\ UNCHANGED toolCalls
  /\ reply' = [reply EXCEPT ![e] = "none"]
  /\ UNCHANGED <<turns, task, request, broker, restarts>>

-----------------------------------------------------------------------------
(* The broker: execute, up to the adapter's call and from its answer. *)

Reply(e, answer) ==
  /\ reply' = [reply EXCEPT ![e] = answer]
  /\ request' = [request EXCEPT ![e] = NoRequest]

Receive(e) ==
  LET t == request[e].tool
      i == request[e].input
  IN
  /\ request[e].at = "wire"
  /\ \/ \* IDEMPOTENCY_HASH_CONFLICT, or EXTERNAL_OUTCOME_UNCERTAIN once more.
        /\ \/ hash[e][t] \notin {NoInput, i}
           \/ hash[e][t] = i /\ receipt[e][t] = "uncertain"
        /\ Reply(e, "error")
        /\ UNCHANGED broker
     \/ \* The receipt there is.
        /\ hash[e][t] = i /\ receipt[e][t] \in {"confirmed", "failed"}
        /\ Reply(e, "receipt")
        /\ UNCHANGED broker
     \/ \* A policy, a limit or a credential refuses, or the call goes out.
        /\ hash[e][t] \in {NoInput, i} /\ receipt[e][t] = "none"
        /\ hash' = [hash EXCEPT ![e][t] = i]
        /\ \/ Reply(e, "error") /\ UNCHANGED sent
           \/ /\ request' = [request EXCEPT ![e] = [tool |-> t, input |-> i, at |-> "adapter"]]
              /\ sent' = [sent EXCEPT ![e][t] = @ + 1]
              /\ UNCHANGED reply
        /\ UNCHANGED <<receipt, effects>>
  /\ UNCHANGED <<loop, row, task, restarts>>

RecordConfirmed(e, t, r) ==   \* variant: only what was accepted is remembered
  receipt' = IF r = "failed" THEN receipt ELSE [receipt EXCEPT ![e][t] = r]
Record(e, t, r) == receipt' = [receipt EXCEPT ![e][t] = r]
Accepted(e, t) == effects' = [effects EXCEPT ![e][t] = @ + 1]

\* What an error that is no ToolBrokerFailure leaves on record.
ErrorIsFailure == "failed"   \* variant: an error means that nothing happened
ErrorMeans == "uncertain"

AdapterAnswers(e) ==
  LET t == request[e].tool IN
  /\ request[e].at = "adapter"
  /\ \/ Accepted(e, t) /\ Record(e, t, "confirmed") /\ Reply(e, "receipt")
     \/ \* TOOL_OUTPUT_TOO_LARGE, and no receipt.
        Accepted(e, t) /\ Reply(e, "error") /\ UNCHANGED receipt
     \/ \* The provider did not accept, or the adapter says that the call failed.
        /\ Record(e, t, "failed") /\ UNCHANGED effects
        /\ Reply(e, "receipt") \/ Reply(e, "error")
     \/ \* The adapter throws: a timeout, a connection reset, a server error.
        /\ Accepted(e, t) \/ UNCHANGED effects
        /\ Record(e, t, ErrorMeans) /\ Reply(e, "error")
  /\ UNCHANGED <<loop, row, task, hash, sent, restarts>>

\* The broker process is replaced: requests under way are cut off, records are gone.
Restart ==
  /\ restarts < MaxRestarts /\ restarts' = restarts + 1
  /\ hash' = PerOperation(NoInput) /\ receipt' = PerOperation("none")
  /\ sent' = PerOperation(0) /\ effects' = PerOperation(0)
  /\ reply' = [e \in Executions |-> IF request[e] # NoRequest THEN "error" ELSE reply[e]]
  /\ request' = [e \in Executions |-> NoRequest]
  /\ UNCHANGED <<loop, row, task>>

Next ==
  \/ \E e \in Executions :
       \/ Begin(e) \/ Stop(e) \/ Die(e) \/ Remember(e) \/ Finish(e) \/ Complete(e)
       \/ OutOfTurns(e) \/ Hear(e) \/ Receive(e) \/ AdapterAnswers(e)
       \/ \E t \in Tools, i \in Inputs : CallTool(e, t, i)
  \/ Restart

\* The model answers with something, the loop goes on, and so does the broker, whose
\* adapters have a timeout.  Nobody has to cancel, die or restart.
Proceed(e) ==
  \/ Remember(e) \/ Finish(e) \/ Complete(e) \/ OutOfTurns(e) \/ Hear(e)
  \/ Receive(e) \/ AdapterAnswers(e)
  \/ \E t \in Tools, i \in Inputs : CallTool(e, t, i)
Fairness == \A e \in Executions : WF_vars(Proceed(e))

Spec == Init /\ [][Next]_vars /\ Fairness

-----------------------------------------------------------------------------
TypeOK ==
  /\ pc \in [Executions -> {"none", "thinking", "calling", "approval", "completing", "done", "failed"}]
  /\ turns \in [Executions -> 0..MaxTurns] /\ toolCalls \in [Executions -> 0..MaxToolCalls]
  /\ row \in [Executions -> {"none", "running", "approval_wait", "succeeded", "failed", "cancelled"}]
  /\ task \in {"running", "succeeded"}
  /\ request \in [Executions -> Requests]
  /\ reply \in [Executions -> {"none", "receipt", "error"}]
  /\ hash \in [Executions -> [Tools -> Inputs \cup {NoInput}]]
  /\ receipt \in [Executions -> [Tools -> Receipts]]
  /\ sent \in [Executions -> [Tools -> Nat]] /\ effects \in [Executions -> [Tools -> Nat]]
  /\ restarts \in 0..MaxRestarts

\* An operation is sent to its adapter at most once while the broker lives.  The broker
\* alone does not see to it, since a refused or oversized call leaves no receipt: it
\* holds because the loop ends at an error and a receipt is kept whatever it says.
SentOnce == \A e \in Executions, t \in Tools : sent[e][t] <= 1

\* What the broker has on record is what happened: confirmed is accepted, failed is not,
\* and what it cannot know it does not claim (execute's catch).
ReceiptsTruthful ==
  \A e \in Executions, t \in Tools :
    /\ receipt[e][t] = "confirmed" => effects[e][t] = 1
    /\ receipt[e][t] = "failed" => effects[e][t] = 0
    /\ effects[e][t] = 1 =>
         \/ receipt[e][t] \in {"confirmed", "uncertain"}
         \/ pc[e] # "thinking"

\* An execution that succeeded left nothing open behind: no call of its own under way,
\* and none whose outcome is uncertain.
SucceededIsSettled ==
  \A e \in Executions : row[e] = "succeeded" =>
    /\ request[e] = NoRequest
    /\ \A t \in Tools : receipt[e][t] # "uncertain"

\* Every execution ends: with turns and tool calls limited, no model keeps one going.
ExecutionEnds ==
  \A e \in Executions : pc[e] = "thinking" ~> pc[e] \in {"done", "approval", "failed"}

=============================================================================
