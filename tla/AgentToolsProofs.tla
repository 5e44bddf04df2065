--------------------------- MODULE AgentToolsProofs ---------------------------
(***************************************************************************)
(* What holds of an agent task's attempts and the broker's records, for any*)
(* number of attempts, tools, inputs, turns, tool calls and restarts.      *)
(***************************************************************************)
EXTENDS AgentTools, TLAPS

-----------------------------------------------------------------------------
(* The invariant. *)

\* An execution that calls no tool any more.
Ended(e) ==
  /\ request[e] = NoRequest
  /\ pc[e] = "failed" \/ (pc[e] = "calling" /\ reply[e] = "error")

AtAdapter(e, t) == request[e].at = "adapter" /\ request[e].tool = t

\* The loop awaits an answer only while it calls a tool, and then exactly one; one that
\* succeeded has none to come.
LoopOK(e) ==
  /\ pc[e] \in {"none", "thinking", "approval", "completing", "done"} =>
       request[e] = NoRequest /\ reply[e] = "none"
  /\ pc[e] = "calling" => (request[e] = NoRequest <=> reply[e] # "none")
  /\ row[e] = "succeeded" =>
       pc[e] \in {"completing", "done", "failed"} /\ request[e] = NoRequest
  /\ row[e] = "succeeded" => \A t \in Tools : receipt[e][t] # "uncertain"

\* An operation that was sent has a receipt, is at its adapter, or belongs to an execution
\* that ended; so does one whose outcome is uncertain.
OperationOK(e, t) ==
  /\ sent[e][t] \in 0..1 /\ effects[e][t] \in 0..1
  /\ effects[e][t] = 1 => sent[e][t] = 1
  /\ AtAdapter(e, t) => sent[e][t] = 1 /\ effects[e][t] = 0 /\ receipt[e][t] = "none"
  /\ sent[e][t] = 1 /\ receipt[e][t] = "none" => AtAdapter(e, t) \/ Ended(e)
  /\ receipt[e][t] = "confirmed" => effects[e][t] = 1
  /\ receipt[e][t] = "failed" => effects[e][t] = 0
  /\ effects[e][t] = 1 => receipt[e][t] \in {"confirmed", "uncertain"} \/ Ended(e)
  /\ receipt[e][t] = "uncertain" => Ended(e)

ExecutionOK(e) == LoopOK(e) /\ \A t \in Tools : OperationOK(e, t)

AgentInv == TypeOK /\ \A e \in Executions : ExecutionOK(e)

-----------------------------------------------------------------------------
(* Tables by execution and tool, and requests. *)

LEMMA SetAt ==
  ASSUME NEW S, NEW f \in [Executions -> [Tools -> S]], NEW e \in Executions,
         NEW t \in Tools, NEW v \in S, NEW g, g = [f EXCEPT ![e][t] = v]
  PROVE  /\ g \in [Executions -> [Tools -> S]]
         /\ g[e][t] = v
         /\ \A u \in Tools \ {t} : g[e][u] = f[e][u]
         /\ \A d \in Executions \ {e} : g[d] = f[d]
OBVIOUS

LEMMA Requested ==
  ASSUME AgentInv, NEW e \in Executions, request[e].at \in {"wire", "adapter"}
  PROVE  /\ request[e].tool \in Tools /\ request[e].input \in Inputs
         /\ pc[e] \in {"calling", "failed"} /\ row[e] # "succeeded" /\ ~Ended(e)
<1>1. request[e] # NoRequest
  BY DEF NoRequest
<1>2. request[e] \in [tool : Tools, input : Inputs, at : {"wire", "adapter"}]
  BY <1>1 DEF AgentInv, TypeOK, Requests
<1>3. pc[e] \in {"calling", "failed"} /\ row[e] # "succeeded"
  BY <1>1 DEF AgentInv, TypeOK, ExecutionOK, LoopOK
<1> QED BY <1>1, <1>2, <1>3 DEF Ended

\* What another execution does leaves this one as it is.
LEMMA OneExecution ==
  ASSUME AgentInv, TypeOK', NEW e \in Executions, ExecutionOK(e)',
         \A d \in Executions \ {e} :
           /\ pc'[d] = pc[d] /\ row'[d] = row[d] /\ request'[d] = request[d]
           /\ reply'[d] = reply[d] /\ receipt'[d] = receipt[d]
           /\ sent'[d] = sent[d] /\ effects'[d] = effects[d]
  PROVE  AgentInv'
<1>1. ASSUME NEW d \in Executions \ {e} PROVE ExecutionOK(d)'
  BY <1>1 DEF AgentInv, ExecutionOK, LoopOK, OperationOK, AtAdapter, Ended
<1> QED BY <1>1 DEF AgentInv

-----------------------------------------------------------------------------
(* The worker's steps. *)

\* The broker's records are left alone: what they say still holds if no call comes to
\* its adapter or leaves it and an execution that ended is still ended.
LEMMA RecordsStay ==
  ASSUME AgentInv, TypeOK', NEW e \in Executions, UNCHANGED <<receipt, sent, effects>>,
         LoopOK(e)',
         \A t \in Tools : AtAdapter(e, t)' <=> AtAdapter(e, t),
         Ended(e) => Ended(e)',
         \A d \in Executions \ {e} :
           /\ pc'[d] = pc[d] /\ row'[d] = row[d] /\ request'[d] = request[d]
           /\ reply'[d] = reply[d]
  PROVE  AgentInv'
<1>1. ASSUME NEW t \in Tools PROVE OperationOK(e, t)'
  <2>1. OperationOK(e, t)
    BY DEF AgentInv, ExecutionOK
  <2> QED BY <2>1 DEF OperationOK
<1> QED BY <1>1, OneExecution DEF ExecutionOK

LEMMA WorkerStep ==
  ASSUME AgentInv, TypeOK', NEW e \in Executions, UNCHANGED broker, LoopOK(e)',
         \A t \in Tools : AtAdapter(e, t)' <=> AtAdapter(e, t),
         Ended(e) => Ended(e)',
         \A d \in Executions \ {e} :
           /\ pc'[d] = pc[d] /\ row'[d] = row[d] /\ request'[d] = request[d]
           /\ reply'[d] = reply[d]
  PROVE  AgentInv'
<1>1. UNCHANGED <<receipt, sent, effects>>
  BY DEF broker
<1> QED BY <1>1, RecordsStay

\* While the loop runs, no call of it is at its adapter, and it has not ended.
LEMMA Idle ==
  ASSUME AgentInv, NEW e \in Executions,
         pc[e] \in {"none", "thinking", "approval", "completing", "done"}
  PROVE  /\ request[e] = NoRequest /\ reply[e] = "none"
         /\ ~Ended(e) /\ \A t \in Tools : ~AtAdapter(e, t)
         /\ \A t \in Tools : receipt[e][t] # "uncertain"
<1>1. request[e] = NoRequest /\ reply[e] = "none"
  BY DEF AgentInv, ExecutionOK, LoopOK
<1>2. ~Ended(e) /\ \A t \in Tools : ~AtAdapter(e, t)
  BY <1>1 DEF Ended, AtAdapter, NoRequest
<1> QED BY <1>1, <1>2 DEF AgentInv, ExecutionOK, OperationOK

LEMMA BeginStep ==
  ASSUME AgentInv, NEW e \in Executions, Begin(e)
  PROVE  AgentInv'
<1>1. /\ pc[e] = "none" /\ pc' = [pc EXCEPT ![e] = "thinking"]
      /\ row' = [row EXCEPT ![e] = "running"]
      /\ UNCHANGED <<turns, toolCalls, task, request, reply, broker, restarts>>
  BY DEF Begin, Go, Journal
<1>2. TypeOK'
  BY <1>1 DEF AgentInv, TypeOK, broker
<1>3. /\ pc'[e] = "thinking" /\ row'[e] = "running"
      /\ \A d \in Executions \ {e} : pc'[d] = pc[d] /\ row'[d] = row[d]
  BY <1>1 DEF AgentInv, TypeOK
<1>4. LoopOK(e)'
  BY <1>1, <1>3, Idle DEF LoopOK
<1>5. \A t \in Tools : AtAdapter(e, t)' <=> AtAdapter(e, t)
  BY <1>1 DEF AtAdapter
<1>6. Ended(e) => Ended(e)'
  BY <1>1, Idle
<1> QED BY <1>1, <1>2, <1>3, <1>4, <1>5, <1>6, WorkerStep

\* An execution fails, with its row written or not; a request may still be at the broker.
LEMMA FailStep ==
  ASSUME AgentInv, NEW e \in Executions, pc[e] \in {"thinking", "calling", "completing"},
         pc' = [pc EXCEPT ![e] = "failed"],
         \/ row' = row
         \/ \E s \in {"failed", "cancelled"} : row' = [row EXCEPT ![e] = s],
         UNCHANGED <<turns, toolCalls, task, request, broker, restarts>>,
         reply' = reply \/ reply' = [reply EXCEPT ![e] = "none"]
  PROVE  AgentInv'
<1>1. TypeOK'
  <2>1. pc' \in [Executions -> {"none", "thinking", "calling", "approval", "completing", "done", "failed"}]
    BY DEF AgentInv, TypeOK
  <2>2. row' \in [Executions -> {"none", "running", "approval_wait", "succeeded", "failed", "cancelled"}]
    BY DEF AgentInv, TypeOK
  <2>3. reply' \in [Executions -> {"none", "receipt", "error"}]
    BY DEF AgentInv, TypeOK
  <2> QED BY <2>1, <2>2, <2>3 DEF AgentInv, TypeOK, broker
<1>2. /\ pc'[e] = "failed"
      /\ row'[e] = row[e] \/ row'[e] # "succeeded"
      /\ \A d \in Executions \ {e} : pc'[d] = pc[d] /\ row'[d] = row[d] /\ reply'[d] = reply[d]
  BY DEF AgentInv, TypeOK
<1>3. LoopOK(e)'
  BY <1>2 DEF AgentInv, ExecutionOK, LoopOK, broker
<1>4. \A t \in Tools : AtAdapter(e, t)' <=> AtAdapter(e, t)
  BY DEF AtAdapter
<1>5. Ended(e) => Ended(e)'
  BY <1>2 DEF Ended, NoRequest
<1> QED BY <1>1, <1>2, <1>3, <1>4, <1>5, WorkerStep

LEMMA RememberStep ==
  ASSUME AgentInv, NEW e \in Executions, Remember(e)
  PROVE  AgentInv'
<1>1. /\ turns[e] < MaxTurns /\ turns' = [turns EXCEPT ![e] = @ + 1]
      /\ UNCHANGED <<pc, toolCalls, row, task, request, reply, broker, restarts>>
  BY DEF Remember, Turn
<1>2. turns' \in [Executions -> 0..MaxTurns]
  BY <1>1, AgentAssumption DEF AgentInv, TypeOK
<1>3. TypeOK'
  BY <1>1, <1>2 DEF AgentInv, TypeOK, broker
<1>4. ASSUME NEW d \in Executions PROVE ExecutionOK(d)'
  BY <1>1 DEF AgentInv, ExecutionOK, LoopOK, OperationOK, AtAdapter, Ended, broker
<1> QED BY <1>3, <1>4 DEF AgentInv

LEMMA CallToolStep ==
  ASSUME AgentInv, NEW e \in Executions, NEW t \in Tools, NEW i \in Inputs, CallTool(e, t, i)
  PROVE  AgentInv'
<1> DEFINE call == [tool |-> t, input |-> i, at |-> "wire"]
<1>1. /\ pc[e] = "thinking" /\ turns[e] < MaxTurns /\ turns' = [turns EXCEPT ![e] = @ + 1]
      /\ UNCHANGED <<toolCalls, task, reply, broker, restarts>>
  BY DEF CallTool, Turn
<1>2. turns' \in [Executions -> 0..MaxTurns]
  BY <1>1, AgentAssumption DEF AgentInv, TypeOK
<1>3. \/ /\ pc' = [pc EXCEPT ![e] = "approval"] /\ row' = [row EXCEPT ![e] = "approval_wait"]
         /\ UNCHANGED request
      \/ /\ pc' = [pc EXCEPT ![e] = "calling"] /\ request' = [request EXCEPT ![e] = call]
         /\ UNCHANGED row
  BY DEF CallTool, Go, Journal
<1>4. call \in Requests /\ call # NoRequest /\ call.at = "wire"
  BY DEF Requests, NoRequest
<1> HIDE DEF call
<1>5. TypeOK'
  <2>1. CASE UNCHANGED request
    BY <1>1, <1>2, <1>3, <1>4, <2>1 DEF AgentInv, TypeOK, broker
  <2>2. CASE request' = [request EXCEPT ![e] = call]
    <3>1. request' \in [Executions -> Requests]
      BY <1>4, <2>2 DEF AgentInv, TypeOK
    <3>2. pc' \in [Executions -> {"none", "thinking", "calling", "approval", "completing", "done", "failed"}]
      BY <1>3 DEF AgentInv, TypeOK
    <3>3. row' \in [Executions -> {"none", "running", "approval_wait", "succeeded", "failed", "cancelled"}]
      BY <1>3 DEF AgentInv, TypeOK
    <3> QED BY <1>1, <1>2, <3>1, <3>2, <3>3 DEF AgentInv, TypeOK, broker
  <2> QED BY <1>3, <2>1, <2>2
<1>6. \/ pc'[e] = "approval" /\ row'[e] = "approval_wait" /\ request'[e] = request[e]
      \/ pc'[e] = "calling" /\ row'[e] = row[e] /\ request'[e] = call
  BY <1>3 DEF AgentInv, TypeOK
<1>7. \A d \in Executions \ {e} :
        pc'[d] = pc[d] /\ row'[d] = row[d] /\ request'[d] = request[d]
  BY <1>3 DEF AgentInv, TypeOK
<1>8. row[e] # "succeeded"
  BY <1>1 DEF AgentInv, ExecutionOK, LoopOK
<1>9. LoopOK(e)'
  BY <1>1, <1>4, <1>6, <1>8, Idle DEF LoopOK
<1>10. \A u \in Tools : AtAdapter(e, u)' <=> AtAdapter(e, u)
  BY <1>1, <1>4, <1>6, Idle DEF AtAdapter
<1>11. ~Ended(e)
  BY <1>1, Idle
<1> QED BY <1>1, <1>5, <1>7, <1>9, <1>10, <1>11, WorkerStep

LEMMA FinishStep ==
  ASSUME AgentInv, NEW e \in Executions, Finish(e)
  PROVE  AgentInv'
<1>1. /\ pc[e] = "thinking" /\ pc' = [pc EXCEPT ![e] = "completing"]
      /\ row' = [row EXCEPT ![e] = "succeeded"]
      /\ turns[e] < MaxTurns /\ turns' = [turns EXCEPT ![e] = @ + 1]
      /\ UNCHANGED <<toolCalls, task, request, reply, broker, restarts>>
  BY DEF Finish, Turn, Go, Journal
<1>2. turns' \in [Executions -> 0..MaxTurns]
  BY <1>1, AgentAssumption DEF AgentInv, TypeOK
<1>3. TypeOK'
  BY <1>1, <1>2 DEF AgentInv, TypeOK, broker
<1>4. /\ pc'[e] = "completing"
      /\ \A d \in Executions \ {e} : pc'[d] = pc[d] /\ row'[d] = row[d]
  BY <1>1 DEF AgentInv, TypeOK
<1>5. LoopOK(e)'
  BY <1>1, <1>4, Idle DEF LoopOK, broker
<1>6. \A t \in Tools : AtAdapter(e, t)' <=> AtAdapter(e, t)
  BY <1>1 DEF AtAdapter
<1>7. ~Ended(e)
  BY <1>1, Idle
<1> QED BY <1>1, <1>3, <1>4, <1>5, <1>6, <1>7, WorkerStep

LEMMA CompleteStep ==
  ASSUME AgentInv, NEW e \in Executions, Complete(e)
  PROVE  AgentInv'
<1>1. /\ pc[e] = "completing" /\ pc' = [pc EXCEPT ![e] = "done"] /\ task' = "succeeded"
      /\ UNCHANGED <<turns, toolCalls, row, request, reply, broker, restarts>>
  BY DEF Complete, Go
<1>2. TypeOK'
  BY <1>1 DEF AgentInv, TypeOK, broker
<1>3. pc'[e] = "done" /\ \A d \in Executions \ {e} : pc'[d] = pc[d]
  BY <1>1 DEF AgentInv, TypeOK
<1>4. LoopOK(e)'
  BY <1>1, <1>3, Idle DEF LoopOK, broker
<1>5. \A t \in Tools : AtAdapter(e, t)' <=> AtAdapter(e, t)
  BY <1>1 DEF AtAdapter
<1>6. ~Ended(e)
  BY <1>1, Idle
<1> QED BY <1>1, <1>2, <1>3, <1>4, <1>5, <1>6, WorkerStep

\* A receipt lets the loop go on; an error ends it.
LEMMA HearStep ==
  ASSUME AgentInv, NEW e \in Executions, Hear(e), toolCalls' \in [Executions -> 0..MaxToolCalls]
  PROVE  AgentInv'
<1>1. CASE reply[e] = "receipt"
  <2>1. /\ pc[e] = "calling" /\ pc' = [pc EXCEPT ![e] = "thinking"]
        /\ reply' = [reply EXCEPT ![e] = "none"]
        /\ UNCHANGED <<turns, row, task, request, broker, restarts>>
    BY <1>1 DEF Hear, Go
  <2>2. TypeOK'
    BY <2>1 DEF AgentInv, TypeOK, broker
  <2>3. /\ pc'[e] = "thinking" /\ reply'[e] = "none"
        /\ \A d \in Executions \ {e} : pc'[d] = pc[d] /\ reply'[d] = reply[d]
    BY <2>1 DEF AgentInv, TypeOK
  <2>4. request[e] = NoRequest /\ row[e] # "succeeded" /\ ~Ended(e)
    BY <1>1, <2>1 DEF AgentInv, ExecutionOK, LoopOK, Ended
  <2>5. LoopOK(e)'
    BY <2>1, <2>3, <2>4 DEF LoopOK
  <2>6. \A t \in Tools : AtAdapter(e, t)' <=> AtAdapter(e, t)
    BY <2>1 DEF AtAdapter
  <2> QED BY <2>1, <2>2, <2>3, <2>4, <2>5, <2>6, WorkerStep
<1>2. CASE reply[e] # "receipt"
  BY <1>2, FailStep DEF Hear, Fail, Go, Journal
<1> QED BY <1>1, <1>2

-----------------------------------------------------------------------------
(* The broker's steps. *)

LEMMA ReplyStep ==
  ASSUME AgentInv, NEW e \in Executions, request[e].at \in {"wire", "adapter"},
         NEW answer \in {"receipt", "error"}, Reply(e, answer)
  PROVE  /\ request' \in [Executions -> Requests] /\ request'[e] = NoRequest
         /\ reply' \in [Executions -> {"none", "receipt", "error"}] /\ reply'[e] = answer
         /\ \A d \in Executions \ {e} : request'[d] = request[d] /\ reply'[d] = reply[d]
         /\ \A t \in Tools : ~AtAdapter(e, t)'
<1>1. NoRequest \in Requests /\ NoRequest.at = "none"
  BY DEF NoRequest, Requests
<1>2. /\ request' = [request EXCEPT ![e] = NoRequest]
      /\ reply' = [reply EXCEPT ![e] = answer]
  BY DEF Reply
<1> QED BY <1>1, <1>2 DEF AgentInv, TypeOK, AtAdapter

LEMMA ReceiveStep ==
  ASSUME AgentInv, NEW e \in Executions, Receive(e)
  PROVE  AgentInv'
<1>1. request[e].at = "wire" /\ UNCHANGED <<pc, turns, toolCalls, row, task, restarts>>
  BY DEF Receive, loop
<1>a. PICK t \in Tools, i \in Inputs : t = request[e].tool /\ i = request[e].input
  BY <1>1, Requested
<1> DEFINE call == [tool |-> t, input |-> i, at |-> "adapter"]
<1>2. /\ pc[e] \in {"calling", "failed"} /\ row[e] # "succeeded"
      /\ ~Ended(e) /\ \A u \in Tools : ~AtAdapter(e, u)
  BY <1>1, Requested DEF AtAdapter
<1>3. \/ \E answer \in {"receipt", "error"} : Reply(e, answer) /\ UNCHANGED broker
      \/ /\ hash' = [hash EXCEPT ![e][t] = i] /\ Reply(e, "error")
         /\ UNCHANGED <<receipt, sent, effects>>
      \/ /\ receipt[e][t] = "none"
         /\ hash' = [hash EXCEPT ![e][t] = i]
         /\ request' = [request EXCEPT ![e] = call]
         /\ sent' = [sent EXCEPT ![e][t] = @ + 1]
         /\ UNCHANGED <<receipt, reply, effects>>
  BY <1>a DEF Receive
<1>4. call \in Requests /\ call.at = "adapter" /\ call.tool = t /\ call # NoRequest
  BY DEF Requests, NoRequest
<1> HIDE DEF call
<1>5. hash' \in [Executions -> [Tools -> Inputs \cup {NoInput}]]
  <2>1. CASE UNCHANGED broker
    BY <2>1 DEF broker, AgentInv, TypeOK
  <2>2. CASE hash' = [hash EXCEPT ![e][t] = i]
    <3>1. i \in Inputs \cup {NoInput} /\ hash \in [Executions -> [Tools -> Inputs \cup {NoInput}]]
      BY <1>2 DEF AgentInv, TypeOK
    <3> QED BY <1>2, <2>2, <3>1, SetAt
  <2> QED BY <1>3, <2>1, <2>2
<1>6. ASSUME NEW answer \in {"receipt", "error"}, Reply(e, answer),
             UNCHANGED <<receipt, sent, effects>>
      PROVE  AgentInv'
  <2>1. /\ request' \in [Executions -> Requests] /\ request'[e] = NoRequest
        /\ reply' \in [Executions -> {"none", "receipt", "error"}] /\ reply'[e] = answer
        /\ \A d \in Executions \ {e} : request'[d] = request[d] /\ reply'[d] = reply[d]
        /\ \A u \in Tools : ~AtAdapter(e, u)'
    BY <1>1, <1>6, ReplyStep
  <2>2. TypeOK'
    BY <1>1, <1>5, <1>6, <2>1 DEF AgentInv, TypeOK
  <2>3. LoopOK(e)'
    BY <1>1, <1>2, <2>1 DEF LoopOK
  <2> QED BY <1>1, <1>2, <1>6, <2>1, <2>2, <2>3, RecordsStay
<1>7. ASSUME receipt[e][t] = "none", request' = [request EXCEPT ![e] = call],
             sent' = [sent EXCEPT ![e][t] = @ + 1], UNCHANGED <<receipt, reply, effects>>
      PROVE  AgentInv'
  <2>1. sent[e][t] = 0 /\ effects[e][t] = 0
    BY <1>2, <1>7 DEF AgentInv, ExecutionOK, OperationOK
  <2>2. sent' = [sent EXCEPT ![e][t] = 1]
    BY <1>7, <2>1
  <2>3. /\ sent' \in [Executions -> [Tools -> Nat]] /\ sent'[e][t] = 1
        /\ \A u \in Tools \ {t} : sent'[e][u] = sent[e][u]
        /\ \A d \in Executions \ {e} : sent'[d] = sent[d]
    <3>1. 1 \in Nat /\ sent \in [Executions -> [Tools -> Nat]]
      BY DEF AgentInv, TypeOK
    <3> QED BY <1>2, <2>2, <3>1, SetAt
  <2>4. /\ request' \in [Executions -> Requests] /\ request'[e] = call
        /\ \A d \in Executions \ {e} : request'[d] = request[d]
    BY <1>4, <1>7 DEF AgentInv, TypeOK
  <2>5. TypeOK'
    BY <1>1, <1>5, <1>7, <2>3, <2>4 DEF AgentInv, TypeOK
  <2>6. LoopOK(e)'
    <3>1. LoopOK(e) /\ request[e] # NoRequest
      BY <1>1 DEF AgentInv, ExecutionOK, NoRequest
    <3> QED BY <1>1, <1>2, <1>4, <1>7, <2>4, <3>1 DEF LoopOK
  <2>7. OperationOK(e, t)'
    BY <1>2, <1>4, <1>7, <2>1, <2>3, <2>4 DEF OperationOK, AtAdapter
  <2>8. ASSUME NEW u \in Tools \ {t} PROVE OperationOK(e, u)'
    <3>1. OperationOK(e, u) /\ ~AtAdapter(e, u) /\ ~AtAdapter(e, u)'
      BY <1>2, <1>4, <2>4 DEF AgentInv, ExecutionOK, AtAdapter
    <3> QED BY <1>2, <1>7, <2>3, <3>1 DEF OperationOK
  <2>9. ExecutionOK(e)'
    BY <2>6, <2>7, <2>8 DEF ExecutionOK
  <2> QED BY <1>1, <1>7, <2>3, <2>4, <2>5, <2>9, OneExecution
<1> QED BY <1>3, <1>6, <1>7 DEF broker

LEMMA AdapterStep ==
  ASSUME AgentInv, NEW e \in Executions, AdapterAnswers(e)
  PROVE  AgentInv'
<1>1. /\ request[e].at = "adapter"
      /\ UNCHANGED <<pc, turns, toolCalls, row, task, hash, sent, restarts>>
  BY DEF AdapterAnswers, loop
<1>2. PICK t \in Tools : t = request[e].tool
  BY <1>1, Requested
<1>3. /\ pc[e] \in {"calling", "failed"} /\ row[e] # "succeeded" /\ ~Ended(e)
      /\ AtAdapter(e, t) /\ \A u \in Tools \ {t} : ~AtAdapter(e, u)
  BY <1>1, <1>2, Requested DEF AtAdapter
<1>4. sent[e][t] = 1 /\ effects[e][t] = 0 /\ receipt[e][t] = "none"
  BY <1>3 DEF AgentInv, ExecutionOK, OperationOK
<1>5. PICK answer \in {"receipt", "error"}, r \in Receipts, n \in 0..1 :
        /\ Reply(e, answer)
        /\ (receipt' = receipt /\ r = "none") \/ receipt' = [receipt EXCEPT ![e][t] = r]
        /\ (effects' = effects /\ n = 0) \/ (effects' = [effects EXCEPT ![e][t] = @ + 1] /\ n = 1)
        /\ r = "confirmed" => n = 1
        /\ r = "failed" => n = 0
        /\ r \in {"none", "uncertain"} => answer = "error"
  <2>1. CASE Accepted(e, t) /\ Record(e, t, "confirmed") /\ Reply(e, "receipt")
    BY <2>1 DEF Accepted, Record, Receipts
  <2>2. CASE Accepted(e, t) /\ Reply(e, "error") /\ UNCHANGED receipt
    BY <2>2 DEF Accepted, Receipts
  <2>3. CASE Record(e, t, "failed") /\ UNCHANGED effects /\ (Reply(e, "receipt") \/ Reply(e, "error"))
    BY <2>3 DEF Record, Receipts
  <2>4. CASE /\ Accepted(e, t) \/ UNCHANGED effects
             /\ Record(e, t, "uncertain") /\ Reply(e, "error")
    BY <2>4 DEF Accepted, Record, Receipts
  <2> QED BY <1>2, <2>1, <2>2, <2>3, <2>4 DEF AdapterAnswers, ErrorMeans
<1>6. /\ request' \in [Executions -> Requests] /\ request'[e] = NoRequest
      /\ reply' \in [Executions -> {"none", "receipt", "error"}] /\ reply'[e] = answer
      /\ \A d \in Executions \ {e} : request'[d] = request[d] /\ reply'[d] = reply[d]
      /\ \A u \in Tools : ~AtAdapter(e, u)'
  BY <1>1, <1>5, ReplyStep
<1>7. /\ receipt' \in [Executions -> [Tools -> Receipts]] /\ receipt'[e][t] = r
      /\ \A u \in Tools \ {t} : receipt'[e][u] = receipt[e][u]
      /\ \A d \in Executions \ {e} : receipt'[d] = receipt[d]
  <2>1. receipt \in [Executions -> [Tools -> Receipts]]
    BY DEF AgentInv, TypeOK
  <2>2. CASE receipt' = receipt /\ r = "none"
    BY <1>4, <2>1, <2>2
  <2>3. CASE receipt' = [receipt EXCEPT ![e][t] = r]
    BY <2>1, <2>3, SetAt
  <2> QED BY <1>5, <2>2, <2>3
<1>8. /\ effects' \in [Executions -> [Tools -> Nat]] /\ effects'[e][t] = n
      /\ \A u \in Tools \ {t} : effects'[e][u] = effects[e][u]
      /\ \A d \in Executions \ {e} : effects'[d] = effects[d]
  <2>1. effects \in [Executions -> [Tools -> Nat]] /\ 1 \in Nat
    BY DEF AgentInv, TypeOK
  <2>2. CASE effects' = effects /\ n = 0
    BY <1>4, <2>1, <2>2
  <2>3. CASE effects' = [effects EXCEPT ![e][t] = @ + 1] /\ n = 1
    <3>1. effects' = [effects EXCEPT ![e][t] = 1]
      BY <1>4, <2>3
    <3> QED BY <2>1, <2>3, <3>1, SetAt
  <2> QED BY <1>5, <2>2, <2>3
<1>9. TypeOK'
  BY <1>1, <1>6, <1>7, <1>8 DEF AgentInv, TypeOK
<1>10. LoopOK(e)'
  BY <1>1, <1>3, <1>6 DEF LoopOK
<1>11. answer = "error" => Ended(e)'
  BY <1>1, <1>3, <1>6 DEF Ended
<1>12. OperationOK(e, t)'
  BY <1>1, <1>4, <1>5, <1>6, <1>7, <1>8, <1>11 DEF OperationOK, Receipts
<1>13. ASSUME NEW u \in Tools \ {t} PROVE OperationOK(e, u)'
  <2>1. OperationOK(e, u) /\ ~AtAdapter(e, u) /\ ~AtAdapter(e, u)'
    BY <1>3, <1>6 DEF AgentInv, ExecutionOK
  <2> QED BY <1>1, <1>3, <1>7, <1>8, <2>1 DEF OperationOK
<1>14. ExecutionOK(e)'
  BY <1>10, <1>12, <1>13 DEF ExecutionOK
<1> QED BY <1>1, <1>6, <1>7, <1>8, <1>9, <1>14, OneExecution

\* A restart cuts off the requests under way and forgets every operation.
LEMMA RestartStep ==
  ASSUME AgentInv, Restart
  PROVE  AgentInv'
<1>1. /\ restarts < MaxRestarts /\ restarts' = restarts + 1
      /\ hash' = PerOperation(NoInput) /\ receipt' = PerOperation("none")
      /\ sent' = PerOperation(0) /\ effects' = PerOperation(0)
      /\ reply' = [e \in Executions |-> IF request[e] # NoRequest THEN "error" ELSE reply[e]]
      /\ request' = [e \in Executions |-> NoRequest]
      /\ UNCHANGED <<pc, turns, toolCalls, row, task>>
  BY DEF Restart, loop
<1>2. TypeOK'
  <2>1. restarts' \in 0..MaxRestarts
    BY <1>1, AgentAssumption DEF AgentInv, TypeOK
  <2>2. /\ hash' \in [Executions -> [Tools -> Inputs \cup {NoInput}]]
        /\ receipt' \in [Executions -> [Tools -> Receipts]]
        /\ sent' \in [Executions -> [Tools -> Nat]] /\ effects' \in [Executions -> [Tools -> Nat]]
    BY <1>1 DEF PerOperation, Receipts
  <2>3. /\ request' \in [Executions -> Requests]
        /\ reply' \in [Executions -> {"none", "receipt", "error"}]
    BY <1>1 DEF AgentInv, TypeOK, Requests
  <2> QED BY <1>1, <2>1, <2>2, <2>3 DEF AgentInv, TypeOK
<1>3. ASSUME NEW e \in Executions PROVE ExecutionOK(e)'
  <2>1. \A t \in Tools : receipt'[e][t] = "none" /\ sent'[e][t] = 0 /\ effects'[e][t] = 0
    BY <1>1 DEF PerOperation
  <2>2. /\ request'[e] = NoRequest
        /\ reply'[e] = IF request[e] # NoRequest THEN "error" ELSE reply[e]
    BY <1>1
  <2>3. LoopOK(e)'
    BY <1>1, <2>1, <2>2 DEF AgentInv, ExecutionOK, LoopOK
  <2>4. ASSUME NEW t \in Tools PROVE OperationOK(e, t)'
    BY <2>1, <2>2 DEF OperationOK, AtAdapter, NoRequest
  <2> QED BY <2>3, <2>4 DEF ExecutionOK
<1> QED BY <1>2, <1>3 DEF AgentInv

-----------------------------------------------------------------------------
(* The specification. *)

\* A call that is under way has its place among the calls of its execution.
CallsCounted == \A e \in Executions : pc[e] = "calling" => toolCalls[e] < MaxToolCalls

LEMMA CallsNext == AgentInv /\ CallsCounted /\ [Next]_vars => CallsCounted'
<1> SUFFICES ASSUME AgentInv, CallsCounted, [Next]_vars PROVE CallsCounted'
  OBVIOUS
<1> USE DEF CallsCounted
<1>0. pc \in [Executions -> {"none", "thinking", "calling", "approval", "completing", "done", "failed"}]
  BY DEF AgentInv, TypeOK
<1>1. ASSUME NEW e \in Executions, UNCHANGED toolCalls,
             NEW p \in {"thinking", "approval", "completing", "done", "failed"}, Go(e, p)
      PROVE  CallsCounted'
  BY <1>0, <1>1 DEF Go
<1>2. ASSUME NEW e \in Executions,
             Begin(e) \/ Stop(e) \/ Die(e) \/ Finish(e) \/ Complete(e) \/ OutOfTurns(e)
      PROVE  CallsCounted'
  BY <1>1, <1>2 DEF Begin, Stop, Die, Finish, Turn, Complete, OutOfTurns, Fail
<1>3. ASSUME NEW e \in Executions, NEW t \in Tools, NEW i \in Inputs, CallTool(e, t, i)
      PROVE  CallsCounted'
  <2>1. CASE Go(e, "calling")
    BY <1>0, <1>3, <2>1 DEF CallTool, Go
  <2> QED BY <1>1, <1>3, <2>1 DEF CallTool
<1>4. ASSUME NEW e \in Executions, Hear(e) PROVE CallsCounted'
  <2>1. CASE Go(e, "thinking") /\ toolCalls' = [toolCalls EXCEPT ![e] = @ + 1]
    BY <1>0, <2>1 DEF Go, AgentInv, TypeOK
  <2> QED BY <1>1, <1>4, <2>1 DEF Hear, Fail
<1>5. ASSUME UNCHANGED <<pc, toolCalls>> PROVE CallsCounted'
  BY <1>5
<1>6. ASSUME NEW e \in Executions, Remember(e) \/ Receive(e) \/ AdapterAnswers(e)
      PROVE  CallsCounted'
  BY <1>5, <1>6 DEF Remember, Receive, AdapterAnswers, loop
<1>7. CASE Restart \/ UNCHANGED vars
  BY <1>5, <1>7 DEF Restart, vars, loop
<1> QED BY <1>2, <1>3, <1>4, <1>6, <1>7 DEF Next

LEMMA AgentInit == Init => AgentInv /\ CallsCounted
<1> SUFFICES ASSUME Init PROVE AgentInv /\ CallsCounted
  OBVIOUS
<1>1. TypeOK
  BY AgentAssumption DEF Init, TypeOK, PerOperation, Requests, Receipts
<1>2. ASSUME NEW e \in Executions PROVE ExecutionOK(e) /\ pc[e] = "none"
  <2>1. \A t \in Tools : receipt[e][t] = "none" /\ sent[e][t] = 0 /\ effects[e][t] = 0
    BY DEF Init, PerOperation
  <2>2. pc[e] = "none" /\ request[e] = NoRequest /\ reply[e] = "none" /\ row[e] = "none"
    BY DEF Init
  <2>3. ASSUME NEW t \in Tools PROVE OperationOK(e, t)
    BY <2>1, <2>2 DEF OperationOK, AtAdapter, NoRequest
  <2> QED BY <2>2, <2>3 DEF ExecutionOK, LoopOK
<1> QED BY <1>1, <1>2 DEF AgentInv, CallsCounted

LEMMA AgentNext == AgentInv /\ CallsCounted /\ [Next]_vars => AgentInv'
<1> SUFFICES ASSUME AgentInv, CallsCounted, [Next]_vars PROVE AgentInv'
  OBVIOUS
<1>1. ASSUME NEW e \in Executions, Stop(e) \/ Die(e) \/ OutOfTurns(e) PROVE AgentInv'
  BY <1>1, FailStep DEF Stop, Die, OutOfTurns, Fail, Go, Journal
<1>2. ASSUME NEW e \in Executions, Hear(e) PROVE AgentInv'
  <2>1. toolCalls[e] \in 0..MaxToolCalls /\ toolCalls[e] < MaxToolCalls
    BY <1>2 DEF Hear, CallsCounted, AgentInv, TypeOK
  <2>2. toolCalls[e] + 1 \in 0..MaxToolCalls
    BY <2>1, AgentAssumption
  <2>3. toolCalls' \in [Executions -> 0..MaxToolCalls]
    BY <1>2, <2>2 DEF Hear, AgentInv, TypeOK
  <2> QED BY <1>2, <2>3, HearStep
<1>3. CASE UNCHANGED vars
  <2>1. TypeOK'
    BY <1>3 DEF AgentInv, TypeOK, vars, loop, broker
  <2>2. ASSUME NEW e \in Executions PROVE ExecutionOK(e)'
    BY <1>3 DEF AgentInv, ExecutionOK, LoopOK, OperationOK, AtAdapter, Ended, vars, loop, broker
  <2> QED BY <2>1, <2>2 DEF AgentInv
<1>4. ASSUME NEW e \in Executions,
             \/ Begin(e) \/ Remember(e) \/ Finish(e) \/ Complete(e)
             \/ Receive(e) \/ AdapterAnswers(e)
             \/ \E t \in Tools, i \in Inputs : CallTool(e, t, i)
      PROVE  AgentInv'
  BY <1>4, BeginStep, RememberStep, FinishStep, CompleteStep, ReceiveStep, AdapterStep,
     CallToolStep
<1> QED BY <1>1, <1>2, <1>3, <1>4, RestartStep DEF Next

LEMMA AgentAlways == Spec => []AgentInv
<1>1. AgentInv /\ CallsCounted /\ [Next]_vars => (AgentInv /\ CallsCounted)'
  BY AgentNext, CallsNext
<1> QED BY <1>1, AgentInit, PTL DEF Spec

\* The state of the loop and of the broker is of the types the code gives it; above all,
\* turns and tool calls stay within their limits (runtime.ts, execute).
THEOREM AgentTypes == Spec => []TypeOK
BY AgentAlways, PTL DEF AgentInv

LEMMA InvSentOnce == AgentInv => SentOnce
<1> SUFFICES ASSUME AgentInv, NEW e \in Executions, NEW t \in Tools PROVE sent[e][t] <= 1
  BY DEF SentOnce
<1> QED BY DEF AgentInv, ExecutionOK, OperationOK

\* While the broker lives it sends no operation to an adapter twice, for any attempts,
\* tools and inputs and whatever the model asks for (broker.ts, runtime.ts).
THEOREM OperationsSentOnce == Spec => []SentOnce
BY AgentAlways, InvSentOnce, PTL

LEMMA InvReceipts == AgentInv => ReceiptsTruthful
<1> SUFFICES ASSUME AgentInv, NEW e \in Executions, NEW t \in Tools
             PROVE  /\ receipt[e][t] = "confirmed" => effects[e][t] = 1
                    /\ receipt[e][t] = "failed" => effects[e][t] = 0
                    /\ effects[e][t] = 1 =>
                         receipt[e][t] \in {"confirmed", "uncertain"} \/ pc[e] # "thinking"
  BY DEF ReceiptsTruthful
<1> QED BY DEF AgentInv, ExecutionOK, OperationOK, Ended

\* A confirmed receipt is of a call the provider accepted, a failed one of a call it did
\* not, and an accepted call without a receipt lets no loop go on (execute's catch).
THEOREM ReceiptsTell == Spec => []ReceiptsTruthful
BY AgentAlways, InvReceipts, PTL

LEMMA InvSettled == AgentInv => SucceededIsSettled
BY DEF AgentInv, ExecutionOK, LoopOK, SucceededIsSettled

\* What succeeded has no call under way and none of an uncertain outcome (the loop ends
\* at an error of the broker).
THEOREM SucceededSettled == Spec => []SucceededIsSettled
BY AgentAlways, InvSettled, PTL

=============================================================================
