--------------------------- MODULE ApprovalProofs ---------------------------
(***************************************************************************)
(* What holds of an approval for every set of members, steps and policies. *)
(***************************************************************************)
EXTENDS Approval, TLAPS, FiniteSetTheorems

-----------------------------------------------------------------------------
(* Types. *)

LEMMA ResolutionStates ==
  ASSUME NEW verdict
  PROVE  Resolution(verdict) \in ApprovalState \ {"none"}
  BY DEF Resolution, ApprovalState

LEMMA StepVerdictStates ==
  ASSUME NEW p, NEW ds, NEW s
  PROVE  StepVerdict(p, ds, s) \in {"rejected", "revision_requested", "approved", "pending"}
  BY DEF StepVerdict

LEMMA StepStatesType ==
  ASSUME NEW p, NEW ds
  PROVE  StepStates(p, ds) \in [Steps -> StepState]
  BY StepVerdictStates DEF StepStates, StepState

\* Every reachable state of an approval is well formed (approvals, approval_steps,
\* approval_decisions, approval_consumptions).
THEOREM ApprovalTypes == Spec => []TypeOK
<1>1. Init => TypeOK
  <2> SUFFICES ASSUME Init PROVE TypeOK
    OBVIOUS
  <2>1. Unread \in Page
    BY DEF Unread, Page
  <2>2. deadline \in {"ahead", "past"}
    BY DEF Init
  <2>3. stepState \in [Steps -> StepState]
    BY DEF Init, StepState
  <2> QED BY <2>1, <2>2, <2>3 DEF Init, TypeOK, ApprovalState, TaskState
<1>2. TypeOK /\ [Next]_vars => TypeOK'
  <2> SUFFICES ASSUME TypeOK, [Next]_vars PROVE TypeOK'
    OBVIOUS
  <2> USE DEF TypeOK
  <2>1. ASSUME NEW u \in Users, Load(u) PROVE TypeOK'
    <3>1. [version |-> version, decisions |-> decisions] \in Page
      BY DEF Page
    <3> QED BY <2>1, <3>1 DEF Load, record
  <2>2. ASSUME NEW u \in Users, NEW s \in Steps, NEW outcome \in Outcome, Decide(u, s, outcome)
        PROVE  TypeOK'
    <3>1. decisions' \subseteq Decision
      BY <2>2 DEF Decide, Decision
    <3>2. stepState' \in [Steps -> StepState] /\ state' \in ApprovalState \ {"none"}
      BY <2>2, StepStatesType, ResolutionStates DEF Decide
    <3>3. /\ version' = version + 1
          /\ UNCHANGED <<policy, packet, deadline, receipt, task, page, claim>>
      BY <2>2 DEF Decide
    <3> QED BY <3>1, <3>2, <3>3
  <2>3. CASE Revoke
    BY <2>3 DEF Revoke, ApprovalState
  <2>4. CASE PassDeadline
    BY <2>4 DEF PassDeadline
  <2>5. CASE Activate
    <3>1. packet' \in Nat /\ deadline' \in {"ahead", "past"}
      <4>1. CASE state \in OpenApproval
        BY <2>5, <4>1 DEF Activate, Refresh
      <4>2. CASE state \notin OpenApproval
        BY <2>5, <4>2 DEF Activate, Refresh
      <4> QED BY <4>1, <4>2
    <3> QED BY <2>5, <3>1 DEF Activate, TaskState
  <2>6. CASE Skip
    BY <2>6 DEF Skip, TaskState, ApprovalState
  <2>7. CASE Expire
    BY <2>7 DEF Expire, TaskState, ApprovalState
  <2>8. CASE BeginConsumption \/ LoseConsumption
    BY <2>8 DEF BeginConsumption, LoseConsumption, record
  <2>9. CASE Consume
    BY <2>9 DEF Consume, ApprovalState
  <2>10. CASE UNCHANGED vars
    BY <2>10 DEF vars, record
  <2> QED BY <2>1, <2>2, <2>3, <2>4, <2>5, <2>6, <2>7, <2>8, <2>9, <2>10 DEF Next
<1> QED BY <1>1, <1>2, PTL DEF Spec

-----------------------------------------------------------------------------
(* The policy. *)

\* An approved evaluation has every step signed as required and nobody's refusal.
LEMMA ApprovedMeansSigned ==
  ASSUME NEW p, NEW ds, Evaluate(p, ds) = "approved", NEW s \in Steps
  PROVE  /\ Cardinality(Approvers(ds, s)) >= Required(p, s)
         /\ ~Has(ds, s, "reject") /\ ~Has(ds, s, "request_changes")
<1>1. ~Some(p, ds, "rejected") /\ ~Some(p, ds, "revision_requested") /\ ~Some(p, ds, "pending")
  BY DEF Evaluate
<1>2. StepVerdict(p, ds, s) = "approved"
  BY <1>1, StepVerdictStates DEF Some
<1> QED BY <1>2 DEF StepVerdict

\* A grant is an approved evaluation.
LEMMA GrantIsEvaluation ==
  ASSUME NEW verdict, Resolution(verdict) \in Granted
  PROVE  verdict = "approved" /\ Resolution(verdict) = "APPROVED_PENDING_EXECUTION"
  BY DEF Resolution, Granted

\* The decisions behind a grant are an approved evaluation, and nobody decided whom
\* the policy excludes.
GrantInv ==
  /\ state \in Granted => Evaluate(policy, decisions) = "approved"
  /\ \A d \in decisions : d.outcome = "approve" => policy.allowSelfApproval \/ d.actor # Requester

LEMMA GrantInvHolds == Spec => []GrantInv
<1>1. Init => GrantInv
  BY DEF Init, GrantInv, Granted
<1>2. GrantInv /\ [Next]_vars => GrantInv'
  <2> SUFFICES ASSUME GrantInv, [Next]_vars PROVE GrantInv'
    OBVIOUS
  <2> USE DEF GrantInv
  <2>1. ASSUME NEW u \in Users, NEW s \in Steps, NEW outcome \in Outcome, Decide(u, s, outcome)
        PROVE  GrantInv'
    <3>1. policy' = policy /\ decisions' = decisions \cup
            {[step |-> s, actor |-> u, outcome |-> outcome, packet |-> packet]}
      BY <2>1 DEF Decide
    <3>2. outcome = "approve" => policy.allowSelfApproval \/ u # Requester
      BY <2>1 DEF Decide, Entitled
    <3>3. ASSUME state' \in Granted PROVE Evaluate(policy, decisions') = "approved"
      <4>1. CASE outcome = "cancel"
        BY <2>1, <3>3, <4>1 DEF Decide, Resolution, Granted
      <4>2. CASE outcome # "cancel"
        <5>1. state' = Resolution(Evaluate(policy, decisions'))
          BY <2>1, <4>2 DEF Decide
        <5> QED BY <3>3, <5>1, GrantIsEvaluation
      <4> QED BY <4>1, <4>2
    <3> QED BY <3>1, <3>2, <3>3
  <2>2. CASE Revoke
    BY <2>2 DEF Revoke, Granted
  <2>3. CASE Skip
    BY <2>3 DEF Skip, Granted
  <2>4. CASE Expire
    <3>1. state' \notin Granted \/ state' = state
      BY <2>4 DEF Expire, Granted
    <3> QED BY <2>4, <3>1 DEF Expire
  <2>5. CASE Consume
    BY <2>5 DEF Consume, Consumable, Granted
  <2>6. CASE UNCHANGED <<policy, state, decisions>>
    BY <2>6
  <2>7. ASSUME NEW u \in Users, Load(u) PROVE UNCHANGED <<policy, state, decisions>>
    BY <2>7 DEF Load, record
  <2>8. PassDeadline \/ Activate \/ BeginConsumption \/ LoseConsumption \/ UNCHANGED vars
          => UNCHANGED <<policy, state, decisions>>
    BY DEF PassDeadline, Activate, BeginConsumption, LoseConsumption, vars, record
  <2> QED BY <2>1, <2>2, <2>3, <2>4, <2>5, <2>6, <2>7, <2>8 DEF Next
<1> QED BY <1>1, <1>2, PTL DEF Spec

\* A granted approval carries the signatures its policy requires, whoever raced whom
\* (decide, evaluateApproval).
THEOREM GrantsSigned == Spec => []GrantedUnderPolicy
<1>1. GrantInv => GrantedUnderPolicy
  <2> SUFFICES ASSUME GrantInv, state \in Granted, NEW s \in Steps
               PROVE  /\ Approvers(decisions, s) \subseteq
                           (IF policy.allowSelfApproval THEN Users ELSE Users \ {Requester})
                      /\ Cardinality(Approvers(decisions, s)) >= Required(policy, s)
                      /\ ~Has(decisions, s, "reject") /\ ~Has(decisions, s, "request_changes")
    BY DEF GrantedUnderPolicy
  <2>1. Approvers(decisions, s) \subseteq
          (IF policy.allowSelfApproval THEN Users ELSE Users \ {Requester})
    BY DEF GrantInv, Approvers
  <2> QED BY <2>1, ApprovedMeansSigned DEF GrantInv
<1> QED BY <1>1, GrantInvHolds, PTL

-----------------------------------------------------------------------------
(* Versions. *)

\* A page as new as the approval shows the decisions stored.
PageInv ==
  \A u \in Users :
    /\ page[u].version <= version
    /\ page[u].version = version => page[u].decisions = decisions

LEMMA PageInvHolds == Spec => []PageInv
<1>1. Init => PageInv
  BY DEF Init, PageInv, Unread
<1>2. TypeOK /\ PageInv /\ [Next]_vars => PageInv'
  <2> SUFFICES ASSUME TypeOK, PageInv, [Next]_vars PROVE PageInv'
    OBVIOUS
  <2>0. version \in Nat /\ \A u \in Users : page[u].version \in Nat
    BY DEF TypeOK, Page
  <2>1. ASSUME NEW u \in Users, Load(u) PROVE PageInv'
    <3>1. version' = version /\ decisions' = decisions
      BY <2>1 DEF Load, record
    <3>2. \A w \in Users : page'[w] = IF w = u THEN [version |-> version, decisions |-> decisions]
                                      ELSE page[w]
      BY <2>1 DEF Load, TypeOK
    <3> QED BY <2>0, <3>1, <3>2 DEF PageInv
  <2>2. CASE version' = version + 1 /\ page' = page
    BY <2>0, <2>2 DEF PageInv
  <2>3. CASE UNCHANGED <<version, decisions, page>>
    BY <2>3 DEF PageInv
  <2>4. ASSUME NEW u \in Users, NEW s \in Steps, NEW outcome \in Outcome, Decide(u, s, outcome)
        PROVE  version' = version + 1 /\ page' = page
    BY <2>4 DEF Decide
  <2>5. Revoke \/ Expire \/ Consume => version' = version + 1 /\ page' = page
    BY DEF Revoke, Expire, Consume
  <2>6. PassDeadline \/ Activate \/ Skip \/ BeginConsumption \/ LoseConsumption \/ UNCHANGED vars
          => UNCHANGED <<version, decisions, page>>
    BY DEF PassDeadline, Activate, Skip, BeginConsumption, LoseConsumption, vars, record
  <2> QED BY <2>1, <2>2, <2>3, <2>4, <2>5, <2>6 DEF Next
<1> QED BY <1>1, <1>2, ApprovalTypes, PTL DEF Spec

\* Everybody decides on the decisions they have seen (the compare with expectedVersion
\* in decide).
THEOREM DecisionsInformed == Spec => DecidesKnowingly
<1>1. PageInv /\ [Next]_vars
        => [\A d \in decisions' \ decisions : page[d.actor].decisions = decisions]_vars
  <2> SUFFICES ASSUME PageInv, [Next]_vars, NEW d \in decisions' \ decisions
               PROVE  page[d.actor].decisions = decisions
    OBVIOUS
  <2>1. ASSUME NEW u \in Users, NEW s \in Steps, NEW outcome \in Outcome, Decide(u, s, outcome)
        PROVE  page[d.actor].decisions = decisions
    <3>1. d.actor = u
      BY <2>1 DEF Decide
    <3> QED BY <2>1, <3>1 DEF Decide, Decidable, PageInv
  <2>2. ASSUME NEW u \in Users, Load(u) PROVE decisions' = decisions
    BY <2>2 DEF Load, record
  <2>3. Revoke \/ PassDeadline \/ Activate \/ Skip \/ Expire \/ BeginConsumption \/ Consume
          \/ LoseConsumption \/ UNCHANGED vars => decisions' = decisions
    BY DEF Revoke, PassDeadline, Activate, Skip, Expire, BeginConsumption, Consume,
           LoseConsumption, vars, record
  <2> QED BY <2>1, <2>2, <2>3 DEF Next
<1> QED BY <1>1, PageInvHolds, PTL DEF Spec, DecidesKnowingly

-----------------------------------------------------------------------------
(* The authorization. *)

\* A receipt is only written with the state CONSUMED.
ReceiptInv == receipt # None => state = "CONSUMED"

LEMMA ReceiptInvHolds == Spec => []ReceiptInv
<1>1. Init => ReceiptInv
  BY DEF Init, ReceiptInv
<1>2. ReceiptInv /\ [Next]_vars => ReceiptInv'
  <2> SUFFICES ASSUME ReceiptInv, [Next]_vars PROVE ReceiptInv'
    OBVIOUS
  <2>1. ASSUME NEW u \in Users, NEW s \in Steps, NEW outcome \in Outcome, Decide(u, s, outcome)
        PROVE  ReceiptInv'
    <3>1. state \in OpenApproval /\ receipt' = receipt
      BY <2>1 DEF Decide, Decidable
    <3> QED BY <3>1 DEF ReceiptInv, OpenApproval
  <2>2. Revoke \/ Skip \/ Expire \/ Consume => ReceiptInv'
    BY DEF Revoke, Skip, Expire, Consume, Expirable, OpenApproval, ReceiptInv
  <2>3. ASSUME NEW u \in Users, Load(u) PROVE ReceiptInv'
    BY <2>3 DEF Load, record, ReceiptInv
  <2>4. PassDeadline \/ Activate \/ BeginConsumption \/ LoseConsumption \/ UNCHANGED vars
          => ReceiptInv'
    BY DEF PassDeadline, Activate, BeginConsumption, LoseConsumption, vars, record, ReceiptInv
  <2> QED BY <2>1, <2>2, <2>3, <2>4 DEF Next
<1> QED BY <1>1, <1>2, PTL DEF Spec

\* Where a decision may take an open approval.
LEMMA DecisionStatus ==
  ASSUME NEW u, NEW s, NEW outcome, Decide(u, s, outcome)
  PROVE  /\ state \in OpenApproval
         /\ state' \in OpenApproval \cup {"APPROVED_PENDING_EXECUTION", "REJECTED",
                                        "REVISION_REQUESTED", "CANCELLED"}
         /\ receipt' = receipt
<1>1. state \in OpenApproval /\ receipt' = receipt
  BY DEF Decide, Decidable
<1>2. \E verdict : state' = Resolution(verdict)
  BY DEF Decide
<1> QED BY <1>1, <1>2 DEF Resolution, OpenApproval

\* The operations of an approval keep the promise of Authorization: one grant, one use,
\* and no use after a revocation, an expiry or a refusal.
THEOREM AuthorizationImplemented == Spec => ImplementsAuthorization
<1>1. Init => Promise!Init
  BY DEF Init, Promise!Init, Status, OpenApproval
<1>2. ReceiptInv /\ TypeOK /\ [Next]_vars => [Promise!Next]_(Promise!vars)
  <2> SUFFICES ASSUME ReceiptInv, TypeOK, [Next]_vars PROVE [Promise!Next]_(Promise!vars)
    OBVIOUS
  <2> USE DEF Promise!Next, Promise!Grant, Promise!Use, Promise!Refuse, Promise!vars
  <2>1. CASE state' = state /\ receipt' = receipt
    BY <2>1 DEF Status
  <2>2. ASSUME NEW u \in Users, NEW s \in Steps, NEW outcome \in Outcome, Decide(u, s, outcome)
        PROVE  [Promise!Next]_(Promise!vars)
    BY <2>2, DecisionStatus DEF Status, OpenApproval
  <2>3. CASE Revoke
    BY <2>3 DEF Revoke, Status, OpenApproval
  <2>4. CASE Skip
    BY <2>4 DEF Skip, Status, OpenApproval
  <2>5. CASE Expire
    <3>1. state' \in {"CANCELLED", "REJECTED", "EXPIRED"} /\ receipt' = receipt
      BY <2>5 DEF Expire
    <3> QED BY <2>5, <3>1 DEF Expire, Expirable, Status, OpenApproval
  <2>6. CASE Consume
    <3>1. state = "APPROVED_PENDING_EXECUTION" /\ state' = "CONSUMED"
      BY <2>6 DEF Consume, Consumable
    <3>2. receipt = None /\ receipt' # None
      BY <2>6, <3>1 DEF Consume, ReceiptInv
    <3> QED BY <3>1, <3>2 DEF Status, OpenApproval
  <2>7. ASSUME NEW u \in Users, Load(u) PROVE state' = state /\ receipt' = receipt
    BY <2>7 DEF Load, record
  <2>8. PassDeadline \/ Activate \/ BeginConsumption \/ LoseConsumption \/ UNCHANGED vars
          => state' = state /\ receipt' = receipt
    BY DEF PassDeadline, Activate, BeginConsumption, LoseConsumption, vars, record
  <2> QED BY <2>1, <2>2, <2>3, <2>4, <2>5, <2>6, <2>7, <2>8 DEF Next
<1> QED BY <1>1, <1>2, ReceiptInvHolds, ApprovalTypes, PTL
        DEF Spec, ImplementsAuthorization, Promise!Spec

-----------------------------------------------------------------------------
(* The packet. *)

\* Only an approve decision can complete the signatures of a policy.
LEMMA OnlyApprovalsCount ==
  ASSUME NEW p, NEW ds, NEW d, d.outcome # "approve", Evaluate(p, ds \cup {d}) = "approved"
  PROVE  Evaluate(p, ds) = "approved"
<1> DEFINE es == ds \cup {d}
<1>1. ASSUME NEW s \in Steps PROVE StepVerdict(p, ds, s) = "approved"
  <2>1. /\ Cardinality(Approvers(es, s)) >= Required(p, s)
        /\ ~Has(es, s, "reject") /\ ~Has(es, s, "request_changes")
    BY ApprovedMeansSigned
  <2>2. Approvers(es, s) = Approvers(ds, s)
    BY DEF Approvers
  <2>3. ~Has(ds, s, "reject") /\ ~Has(ds, s, "request_changes")
    BY <2>1 DEF Has
  <2> QED BY <2>1, <2>2, <2>3 DEF StepVerdict
<1>2. ~Some(p, ds, "rejected") /\ ~Some(p, ds, "revision_requested") /\ ~Some(p, ds, "pending")
  BY <1>1 DEF Some
<1>3. ~OutOfOrder(p, ds)
  BY <1>1 DEF OutOfOrder
<1> QED BY <1>2, <1>3 DEF Evaluate

\* Nobody's silence satisfies a policy.
LEMMA SignaturesNeeded ==
  ASSUME NEW p \in Policies, Resolvable(p)
  PROVE  Evaluate(p, {}) # "approved"
<1> SUFFICES ASSUME Evaluate(p, {}) = "approved" PROVE FALSE
  OBVIOUS
<1>1. PICK s \in Steps : TRUE
  BY ApprovalAssumption
<1>2. p.step[s] \in Step /\ p.step[s].selected \subseteq Users
  BY ApprovalAssumption DEF Policy, Step
<1>3. IsFiniteSet(Eligible(p, s)) /\ Eligible(p, s) # {}
  <2>1. Eligible(p, s) \subseteq Users
    BY <1>2 DEF Eligible
  <2> QED BY <2>1, FS_Subset, ApprovalAssumption DEF Resolvable
<1>4. Cardinality(Eligible(p, s)) \in Nat /\ Cardinality(Eligible(p, s)) # 0
  BY <1>3, FS_CardinalityType, FS_EmptySet
<1>5. Required(p, s) \in Nat /\ Required(p, s) >= 1
  <2>1. CASE p.step[s].mode = "all"
    BY <1>4, <2>1 DEF Required
  <2>2. CASE p.step[s].mode = "quorum"
    BY <1>4, <2>2 DEF Required, Resolvable
  <2>3. CASE p.step[s].mode \in {"single", "any"}
    BY <2>3 DEF Required
  <2> QED BY <1>2, <2>1, <2>2, <2>3 DEF Step
<1>6. Approvers({}, s) = {}
  BY DEF Approvers
<1>7. Cardinality(Approvers({}, s)) = 0
  BY <1>6, FS_EmptySet
<1> QED BY <1>5, <1>7, ApprovedMeansSigned

\* While an approval is open its signatures are incomplete; once it is granted, the
\* packet is the one its last signature was given on.
PacketInv ==
  /\ Resolvable(policy)
  /\ state \in OpenApproval => Evaluate(policy, decisions) # "approved"
  /\ state \in {"APPROVED_PENDING_EXECUTION", "CONSUMED"} =>
       \E d \in decisions : d.outcome = "approve" /\ d.packet = packet
  /\ receipt # None => receipt = packet

LEMMA PacketInvHolds == Spec => []PacketInv
<1>1. Init => PacketInv
  BY SignaturesNeeded DEF Init, PacketInv, OpenApproval
<1>2. TypeOK /\ ReceiptInv /\ PacketInv /\ [Next]_vars => PacketInv'
  <2> SUFFICES ASSUME TypeOK, ReceiptInv, PacketInv, [Next]_vars PROVE PacketInv'
    OBVIOUS
  <2> USE DEF PacketInv
  <2>1. ASSUME NEW u \in Users, NEW s \in Steps, NEW outcome \in Outcome, Decide(u, s, outcome)
        PROVE  PacketInv'
    <3> DEFINE d == [step |-> s, actor |-> u, outcome |-> outcome, packet |-> packet]
    <3>1. /\ decisions' = decisions \cup {d}
          /\ policy' = policy /\ packet' = packet /\ receipt' = receipt
          /\ state' = Resolution(IF outcome = "cancel" THEN "cancelled"
                                ELSE Evaluate(policy, decisions'))
      BY <2>1 DEF Decide
    <3>2. Resolvable(policy)'
      BY <3>1 DEF Resolvable, Eligible
    <3>3. ASSUME state' \in OpenApproval PROVE Evaluate(policy', decisions') # "approved"
      BY <3>1, <3>3 DEF Resolution, OpenApproval
    <3>4. ASSUME state' \in {"APPROVED_PENDING_EXECUTION", "CONSUMED"}
          PROVE  \E e \in decisions' : e.outcome = "approve" /\ e.packet = packet'
      <4>1. Evaluate(policy, decisions') = "approved"
        BY <3>1, <3>4 DEF Resolution
      <4>2. Evaluate(policy, decisions) # "approved"
        BY <2>1 DEF Decide, Decidable
      <4>3. d.outcome = "approve"
        BY <3>1, <4>1, <4>2, OnlyApprovalsCount
      <4>4. d \in decisions' /\ d.packet = packet'
        BY <3>1
      <4> HIDE DEF d
      <4> QED BY <4>3, <4>4
    <3> QED BY <3>1, <3>2, <3>3, <3>4
  <2>2. CASE Activate
    <3>1. UNCHANGED <<policy, state, decisions, receipt>>
      BY <2>2 DEF Activate
    <3>2. state \notin OpenApproval => packet' = packet
      BY <2>2 DEF Activate, Refresh
    <3>3. state \in OpenApproval => receipt = None
      BY DEF ReceiptInv, OpenApproval
    <3>4. Resolvable(policy)'
      BY <3>1 DEF Resolvable, Eligible
    <3> QED BY <3>1, <3>2, <3>3, <3>4 DEF OpenApproval
  <2>3. ASSUME UNCHANGED <<policy, packet, decisions>>,
               state' \in OpenApproval => state \in OpenApproval,
               state' \in {"APPROVED_PENDING_EXECUTION", "CONSUMED"} =>
                 state \in {"APPROVED_PENDING_EXECUTION", "CONSUMED"},
               receipt' # None => receipt' = packet
        PROVE  PacketInv'
    <3>1. Resolvable(policy)'
      BY <2>3 DEF Resolvable, Eligible
    <3> QED BY <2>3, <3>1
  <2>4. CASE Revoke
    BY <2>3, <2>4 DEF Revoke, OpenApproval
  <2>5. CASE Skip
    BY <2>3, <2>5 DEF Skip, OpenApproval
  <2>6. CASE Expire
    <3>1. state' \in {"CANCELLED", "REJECTED", "EXPIRED"}
          /\ UNCHANGED <<policy, packet, decisions, receipt>>
      BY <2>6 DEF Expire
    <3> QED BY <2>3, <3>1 DEF OpenApproval
  <2>7. CASE Consume
    BY <2>3, <2>7 DEF Consume, Consumable, OpenApproval
  <2>8. ASSUME NEW u \in Users, Load(u) PROVE UNCHANGED <<policy, packet, decisions, state, receipt>>
    BY <2>8 DEF Load, record
  <2>9. PassDeadline \/ BeginConsumption \/ LoseConsumption \/ UNCHANGED vars
          => UNCHANGED <<policy, packet, decisions, state, receipt>>
    BY DEF PassDeadline, BeginConsumption, LoseConsumption, vars, record
  <2> QED BY <2>1, <2>2, <2>3, <2>4, <2>5, <2>6, <2>7, <2>8, <2>9 DEF Next
<1> QED BY <1>1, <1>2, ReceiptInvHolds, ApprovalTypes, PTL DEF Spec

\* What consumption records is the stored packet, and the decision that completed the
\* signatures was made on it (activateTask refreshes open approvals only).
THEOREM ConsumptionMatches == Spec => []ConsumedAsGranted
<1>1. ReceiptInv /\ PacketInv => ConsumedAsGranted
  BY DEF ReceiptInv, PacketInv, ConsumedAsGranted
<1> QED BY <1>1, ReceiptInvHolds, PacketInvHolds, PTL

=============================================================================
