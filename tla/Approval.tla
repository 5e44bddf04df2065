------------------------------ MODULE Approval ------------------------------
(***************************************************************************)
(* One approval of a run (packages/db/src/approval-repository.ts), with    *)
(* its steps, its approvers and its packet.  It exists, and can be         *)
(* decided, from the moment the run is inserted; the runtime refreshes its *)
(* packet when the guarded node is reached, and later expires, cancels or  *)
(* consumes it.  Approvers work from a page they loaded some time ago:     *)
(* between reading and deciding anything may happen.                       *)
(* Each operation is one transaction.  Reasons, events and notifications   *)
(* are left out, and so are delegations and reminders: no other operation  *)
(* reads what they write.  What becomes of the task after consumption is   *)
(* told in DurableRun.                                                     *)
(***************************************************************************)
EXTENDS Naturals, FiniteSets, RunStates

CONSTANTS
  Users,          \* the active members of the workspace
  Requester,      \* the member who started the run
  Steps,          \* the keys of the policy's steps
  Alphabet,       \* Alphabet[s]: the place of key s in alphabetical order
  Policies,       \* the policies a published node may carry
  None,           \* no packet
  MaxRefreshes    \* bound on refreshes of the packet

Step == [mode : {"single", "any", "all", "quorum"}, quorum : Nat, order : Nat,
         selected : SUBSET Users]
Policy == [strategy : {"parallel", "sequential"}, allowSelfApproval : BOOLEAN,
           autoOutcome : {"none", "reject", "cancel"}, step : [Steps -> Step]]

ASSUME ApprovalAssumption ==
  /\ Requester \in Users /\ Policies \subseteq Policy
  /\ IsFiniteSet(Users) /\ IsFiniteSet(Steps) /\ Steps # {}
  /\ Alphabet \in [Steps -> Nat] /\ \A s, t \in Steps : Alphabet[s] = Alphabet[t] => s = t
  /\ MaxRefreshes \in Nat /\ None \notin Nat

Outcome == {"approve", "reject", "request_changes", "abstain", "cancel"}
StepState == {"pending", "active", "approved", "rejected", "revision_requested"}

VARIABLES
  policy,       \* approvals.policy_snapshot
  state,        \* approvals.state
  version,      \* approvals.state_version
  packet,       \* approvals.packet and packet_hash: the number of its refreshes
  deadline,     \* expires_at lies "ahead", or is "past"
  stepState,    \* approval_steps.state, per step
  decisions,    \* approval_decisions
  receipt,      \* approval_consumptions.packet_hash, or None
  task,         \* task_runs.state of the guarded node
  page,         \* per user: the version and decisions on the page last loaded
  claim         \* the packet hash read by a consumption under way, or None

record == <<state, version, packet, deadline, stepState, decisions, receipt>>
vars == <<policy, record, task, page, claim>>

Decision == [step : Steps, actor : Users, outcome : Outcome, packet : Nat]
Unread == [version |-> 0, decisions |-> {}]
Page == [version : Nat, decisions : SUBSET Decision]

-----------------------------------------------------------------------------
(* evaluateApproval, and what depends on it. *)

\* resolveApprovalSteps: who may decide a step.
Eligible(p, s) ==
  IF p.allowSelfApproval THEN p.step[s].selected ELSE p.step[s].selected \ {Requester}

\* resolveApprovalSteps raises for a policy nobody can satisfy.
Resolvable(p) ==
  \A s \in Steps :
    /\ Eligible(p, s) # {}
    /\ p.step[s].mode = "quorum" => p.step[s].quorum \in 1 .. Cardinality(Eligible(p, s))

Required(p, s) ==
  CASE p.step[s].mode = "all" -> Cardinality(Eligible(p, s))
    [] p.step[s].mode = "quorum" -> p.step[s].quorum
    [] p.step[s].mode \in {"single", "any"} -> 1

Has(ds, s, outcome) == \E d \in ds : d.step = s /\ d.outcome = outcome
Approvers(ds, s) == {u \in Users : \E d \in ds : d.step = s /\ d.actor = u /\ d.outcome = "approve"}

\* The evaluation of one step on the decisions ds.
StepVerdict(p, ds, s) ==
  IF Has(ds, s, "reject") THEN "rejected"
  ELSE IF Has(ds, s, "request_changes") THEN "revision_requested"
  ELSE IF Cardinality(Approvers(ds, s)) >= Required(p, s) THEN "approved"
  ELSE "pending"

\* ORDER BY step_order, step_key.
Precedes(p, s, t) ==
  \/ p.step[s].order < p.step[t].order
  \/ p.step[s].order = p.step[t].order /\ Alphabet[s] < Alphabet[t]
OutOfOrder(p, ds) ==
  \E s, t \in Steps : /\ Precedes(p, s, t)
                      /\ StepVerdict(p, ds, s) = "pending"
                      /\ StepVerdict(p, ds, t) = "approved"

Some(p, ds, verdict) == \E s \in Steps : StepVerdict(p, ds, s) = verdict
EvaluateFirstStep(p, ds) ==   \* variant: one approved step is enough
  IF Some(p, ds, "rejected") THEN "rejected"
  ELSE IF Some(p, ds, "revision_requested") THEN "revision_requested"
  ELSE IF p.strategy = "sequential" /\ OutOfOrder(p, ds) THEN "invalid_sequence"
  ELSE IF Some(p, ds, "approved") THEN "approved"
  ELSE "pending"
Evaluate(p, ds) ==
  IF Some(p, ds, "rejected") THEN "rejected"
  ELSE IF Some(p, ds, "revision_requested") THEN "revision_requested"
  ELSE IF p.strategy = "sequential" /\ OutOfOrder(p, ds) THEN "invalid_sequence"
  ELSE IF Some(p, ds, "pending") THEN "pending"
  ELSE "approved"

\* The approval's state after a decision.
Resolution(verdict) ==
  IF verdict = "approved" THEN "APPROVED_PENDING_EXECUTION"
  ELSE IF verdict = "rejected" THEN "REJECTED"
  ELSE IF verdict = "revision_requested" THEN "REVISION_REQUESTED"
  ELSE IF verdict = "cancelled" THEN "CANCELLED"
  ELSE "IN_REVIEW"

\* updateStepStates evaluates every step on its own, and whatever is still pending
\* becomes active; its last statement, for sequential policies, then finds no
\* pending step.
StepStates(p, ds) ==
  [s \in Steps |-> IF StepVerdict(p, ds, s) = "pending" THEN "active" ELSE StepVerdict(p, ds, s)]

-----------------------------------------------------------------------------
First(p) == {s \in Steps : \A t \in Steps : p.step[s].order <= p.step[t].order}

Init ==
  /\ policy \in {p \in Policies : Resolvable(p)}
  /\ state = "PENDING" /\ version = 1
  /\ packet = 0 /\ deadline = "ahead"
  /\ stepState = [s \in Steps |-> IF s \in First(policy) THEN "active" ELSE "pending"]
  /\ decisions = {} /\ receipt = None
  /\ task \in {"pending", "ready"}
  /\ page = [u \in Users |-> Unread]
  /\ claim = None

Load(u) ==
  /\ page' = [page EXCEPT ![u] = [version |-> version, decisions |-> decisions]]
  /\ UNCHANGED <<policy, record, task, claim>>

\* decide, past its checks.  The answer to a repeated idempotency key changes nothing.
DecidableUnfenced(u) == state \in OpenApproval /\ deadline = "ahead"   \* variant: expectedVersion is ignored
Decidable(u) == state \in OpenApproval /\ page[u].version = version /\ deadline = "ahead"
Entitled(u, s, outcome) ==
  /\ IF outcome = "cancel" THEN u = Requester ELSE policy.allowSelfApproval \/ u # Requester
  /\ stepState[s] = "active" /\ u \in Eligible(policy, s)
  /\ \A d \in decisions : d.step = s => d.actor # u

Decide(u, s, outcome) ==
  /\ Decidable(u) /\ Entitled(u, s, outcome)
  /\ decisions' = decisions \cup
       {[step |-> s, actor |-> u, outcome |-> outcome, packet |-> packet]}
  /\ stepState' = StepStates(policy, decisions')
  /\ state' = Resolution(IF outcome = "cancel" THEN "cancelled" ELSE Evaluate(policy, decisions'))
  /\ version' = version + 1
  /\ UNCHANGED <<policy, packet, deadline, receipt, task, page, claim>>

Revoke ==
  /\ state = "APPROVED_PENDING_EXECUTION" /\ page[Requester].version = version
  /\ state' = "REVOKED" /\ version' = version + 1
  /\ UNCHANGED <<policy, packet, deadline, stepState, decisions, receipt, task, page, claim>>

PassDeadline ==
  /\ deadline = "ahead" /\ deadline' = "past"
  /\ UNCHANGED <<policy, state, version, packet, stepState, decisions, receipt, task, page, claim>>

-----------------------------------------------------------------------------
(* The runtime.  Its activities may run again, also after their effect. *)

\* activateTask replaces packet, hash and deadline, but not the version.
RefreshAlways ==   \* variant: the approval's state is not looked at
  IF packet < MaxRefreshes THEN packet' = packet + 1 /\ deadline' = "ahead"
  ELSE UNCHANGED <<packet, deadline>>
Refresh ==
  IF state \in OpenApproval THEN packet' = packet + 1 /\ deadline' = "ahead"
  ELSE UNCHANGED <<packet, deadline>>
Activate ==
  /\ task \in {"pending", "ready"} /\ packet < MaxRefreshes
  /\ task' = "ready"
  /\ Refresh
  /\ UNCHANGED <<policy, state, version, stepState, decisions, receipt, page, claim>>

Skip ==
  /\ task \in {"pending", "ready"}
  /\ task' = "skipped"
  /\ state' = IF state \in OpenApproval THEN "CANCELLED" ELSE state
  /\ UNCHANGED <<policy, version, packet, deadline, stepState, decisions, receipt, page, claim>>

\* expire, called when the workflow's timer for the activated node has fired; it does
\* not look at the deadline, which a late attempt to activate may have moved ahead.
Expirable == OpenApproval \cup {"APPROVED_PENDING_EXECUTION"}
Expire ==
  /\ task = "ready" /\ state \in Expirable
  /\ state' = IF policy.autoOutcome = "cancel" THEN "CANCELLED"
              ELSE IF policy.autoOutcome = "reject" THEN "REJECTED" ELSE "EXPIRED"
  /\ version' = version + 1
  /\ task' = "failed"
  /\ UNCHANGED <<policy, packet, deadline, stepState, decisions, receipt, page, claim>>

\* consumeForNode reads the packet's hash, then updates the approval under it; it is
\* called once the workflow has been told of the grant.
BeginConsumption ==
  /\ claim = None /\ Evaluate(policy, decisions) = "approved" /\ task = "ready"
  /\ claim' = packet
  /\ UNCHANGED <<policy, record, task, page>>
ConsumableUnlessUsed == receipt = None   \* variant: only a second consumption is refused
Consumable == state = "APPROVED_PENDING_EXECUTION" /\ packet = claim
Consume ==
  /\ claim # None /\ Consumable
  /\ state' = "CONSUMED" /\ version' = version + 1
  /\ receipt' = claim /\ claim' = None
  /\ UNCHANGED <<policy, packet, deadline, stepState, decisions, task, page>>
LoseConsumption ==
  /\ claim # None /\ ~Consumable
  /\ claim' = None
  /\ UNCHANGED <<policy, record, task, page>>

Next ==
  \/ \E u \in Users : Load(u)
  \/ \E u \in Users, s \in Steps, outcome \in Outcome : Decide(u, s, outcome)
  \/ Revoke
  \/ PassDeadline
  \/ Activate \/ Skip \/ Expire
  \/ BeginConsumption \/ Consume \/ LoseConsumption

Spec == Init /\ [][Next]_vars

-----------------------------------------------------------------------------
(* Properties. *)

\* Every column and local holds a value of its type.
TypeOK ==
  /\ policy \in Policies
  /\ state \in ApprovalState \ {"none"} /\ version \in Nat \ {0}
  /\ packet \in Nat /\ deadline \in {"ahead", "past"}
  /\ stepState \in [Steps -> StepState]
  /\ decisions \subseteq Decision
  /\ receipt \in Nat \cup {None} /\ claim \in Nat \cup {None}
  /\ task \in TaskState
  /\ page \in [Users -> Page]

Granted == {"APPROVED_PENDING_EXECUTION", "CONSUMED", "REVOKED"}

\* An approval that was granted has, on every step, the signatures its policy asks
\* for, of people the policy lets decide, and nobody's refusal, however the
\* approvers raced each other, the refreshes and the deadline (decide).
GrantedUnderPolicy ==
  state \in Granted =>
    \A s \in Steps :
      /\ Approvers(decisions, s) \subseteq
           (IF policy.allowSelfApproval THEN Users ELSE Users \ {Requester})
      /\ Cardinality(Approvers(decisions, s)) >= Required(policy, s)
      /\ ~Has(decisions, s, "reject") /\ ~Has(decisions, s, "request_changes")

\* What is consumed is what is stored, and at least the signature that granted it was
\* given on that very packet: a refresh never slips in after the grant.
ConsumedAsGranted ==
  receipt # None =>
    /\ state = "CONSUMED" /\ receipt = packet
    /\ \E d \in decisions : d.outcome = "approve" /\ d.packet = receipt

\* Nobody decides without having seen every decision made before theirs: the version
\* a decision carries is the version of exactly these decisions.
DecidesKnowingly ==
  [][\A d \in decisions' \ decisions : page[d.actor].decisions = decisions]_vars

\* Seen from the guarded work the approval is an authorization: granted once, used at
\* most once, and never used after it was revoked or expired.
Status ==
  IF state \in OpenApproval THEN "asked"
  ELSE IF state = "APPROVED_PENDING_EXECUTION" THEN "granted"
  ELSE IF state = "CONSUMED" THEN "used"
  ELSE "refused"
Promise == INSTANCE Authorization WITH
  status <- Status, uses <- IF receipt = None THEN 0 ELSE 1
ImplementsAuthorization == Promise!Spec

\* The payload consumed is the payload every approver approved.
PayloadApproved ==
  receipt # None =>
    \A d \in decisions : d.outcome = "approve" => d.packet = receipt

=============================================================================
