-------------------------- MODULE ModelGatewayProofs --------------------------
(***************************************************************************)
(* What holds of a gateway process for any finite number of invocations,   *)
(* any operations, and any limits on concurrency, retries and failures.    *)
(***************************************************************************)
EXTENDS ModelGateway, FiniteSetTheorems, TLAPS

-----------------------------------------------------------------------------
(* The invariant. *)

\* Of a new invocation nothing was asked yet, and one that pauses has an attempt left.
CallsOK ==
  \A c \in Invocations :
    /\ phase[c] = "new" => accepted[c] = 0 /\ c \notin repaired
    /\ phase[c] = "pausing" => attempt[c] < Attempts

\* What is answered is cached; and of two invocations of one operation that are under way
\* or answered, the later saw the earlier under way when it was admitted.
Counted(c) == phase[c] \in {"calling", "pausing", "answered"}

AnswersKept == \A c \in Invocations : phase[c] = "answered" => Cached(Operation[c])

RivalsMet ==
  \A c, d \in Invocations :
    c # d /\ Operation[c] = Operation[d] /\ Counted(c) /\ Counted(d) => Overlapped(c, d)

GatewayInv == TypeOK /\ CallsOK /\ SlotsBalance /\ NeverReplayed /\ AnswersKept /\ RivalsMet

\* The parts of it that a step on one invocation can change, for that invocation.
CallOK(c) ==
  /\ attempt[c] \in 0..Attempts /\ accepted[c] \in Nat
  /\ phase[c] = "new" => accepted[c] = 0 /\ c \notin repaired
  /\ phase[c] = "pausing" => attempt[c] < Attempts
  /\ accepted[c] <= (IF c \in repaired THEN 2 ELSE 1)
  /\ phase[c] \in {"calling", "pausing"} => accepted[c] = (IF c \in repaired THEN 1 ELSE 0)

LEMMA Calls ==
  ASSUME GatewayInv, NEW c \in Invocations
  PROVE  CallOK(c)
BY DEF GatewayInv, TypeOK, CallsOK, NeverReplayed, CallOK

-----------------------------------------------------------------------------
(* The count of calls in flight. *)

LEMMA InFlightFinite == IsFiniteSet(InFlight)
BY GatewayAssumption, FS_Subset DEF InFlight

\* An invocation that ends gives its place back.
LEMMA Leaves ==
  ASSUME GatewayInv, NEW c \in Invocations, phase[c] \in {"calling", "pausing"},
         NEW p \in {"answered", "failed"}, Go(c, p), Release(c)
  PROVE  SlotsBalance' /\ active' \in Nat
<1>1. InFlight' = InFlight \ {c} /\ c \in InFlight
  BY DEF GatewayInv, TypeOK, Go, InFlight
<1>2. Cardinality(InFlight) = active /\ active \in Nat /\ active <= MaxConcurrency
  BY DEF GatewayInv, TypeOK, SlotsBalance
<1>3. Cardinality(InFlight \ {c}) = active - 1
  BY <1>1, <1>2, InFlightFinite, FS_RemoveElement
<1>4. active - 1 \in Nat
  BY <1>3, InFlightFinite, FS_RemoveElement, FS_CardinalityType
<1> QED BY <1>1, <1>2, <1>3, <1>4, GatewayAssumption DEF SlotsBalance, Release

\* One that stays keeps its place.
LEMMA Stays ==
  ASSUME GatewayInv,
         \A d \in Invocations : d \in InFlight <=> phase'[d] \in {"calling", "pausing"},
         UNCHANGED active
  PROVE  SlotsBalance' /\ active' \in Nat
<1>1. InFlight' = InFlight
  BY DEF InFlight
<1> QED BY <1>1 DEF GatewayInv, TypeOK, SlotsBalance

-----------------------------------------------------------------------------
(* A step on one invocation. *)

\* The invariant, from what the step does to its invocation and to the shared state.
LEMMA OneCall ==
  ASSUME GatewayInv, NEW c \in Invocations,
         TypeOK', SlotsBalance', CallOK(c)',
         \A d \in Invocations \ {c} :
           /\ phase'[d] = phase[d] /\ attempt'[d] = attempt[d] /\ accepted'[d] = accepted[d]
           /\ d \in repaired' <=> d \in repaired,
         \A o \in Operations : Cached(o) => Cached(o)',
         phase'[c] = "answered" => Cached(Operation[c])',
         Counted(c)' => Counted(c), UNCHANGED rivals
  PROVE  GatewayInv'
<1>1. CallsOK' /\ NeverReplayed'
  <2> SUFFICES ASSUME NEW d \in Invocations
               PROVE  /\ phase'[d] = "new" => accepted'[d] = 0 /\ d \notin repaired'
                      /\ phase'[d] = "pausing" => attempt'[d] < Attempts
                      /\ accepted'[d] <= (IF d \in repaired' THEN 2 ELSE 1)
                      /\ phase'[d] \in {"calling", "pausing"} =>
                           accepted'[d] = (IF d \in repaired' THEN 1 ELSE 0)
    BY DEF CallsOK, NeverReplayed, Attempts
  <2>1. CASE d = c
    BY <2>1 DEF CallOK, Attempts
  <2>2. CASE d # c
    BY <2>2, Calls DEF CallOK
  <2> QED BY <2>1, <2>2
<1>2. AnswersKept'
  <2> SUFFICES ASSUME NEW d \in Invocations, phase'[d] = "answered"
               PROVE  Cached(Operation[d])'
    BY DEF AnswersKept, Cached
  <2>1. Operation[d] \in Operations
    BY GatewayAssumption
  <2> QED BY <2>1 DEF GatewayInv, AnswersKept
<1>3. RivalsMet'
  <2>1. \A d \in Invocations : Counted(d)' => Counted(d)
    BY DEF Counted
  <2> QED BY <2>1 DEF GatewayInv, RivalsMet, Overlapped
<1> QED BY <1>1, <1>2, <1>3 DEF GatewayInv

LEMMA FromCacheStep ==
  ASSUME GatewayInv, NEW c \in Invocations, FromCache(c)
  PROVE  GatewayInv'
<1> USE DEF FromCache, Go, circuit
<1>1. TypeOK'
  BY DEF GatewayInv, TypeOK
<1>2. SlotsBalance'
  BY <1>1, Stays DEF GatewayInv, TypeOK, InFlight
<1>3. CallOK(c)' /\ phase'[c] = "cached"
  BY Calls DEF CallOK, GatewayInv, TypeOK, Attempts
<1> QED BY <1>1, <1>2, <1>3, OneCall DEF GatewayInv, TypeOK, Cached, Counted

LEMMA AdmitStep ==
  ASSUME GatewayInv, NEW c \in Invocations, Admit(c)
  PROVE  GatewayInv'
<1>1. /\ phase[c] = "new" /\ ~Cached(Operation[c]) /\ active < MaxConcurrency
      /\ phase' = [phase EXCEPT ![c] = "calling"] /\ attempt' = [attempt EXCEPT ![c] = 1]
      /\ active' = active + 1
      /\ rivals' = [rivals EXCEPT ![c] = {d \in InFlight : Operation[d] = Operation[c]}]
      /\ UNCHANGED <<repaired, results, failures, breaker, accepted>>
  BY DEF Admit, Go, circuit
<1>2. TypeOK'
  <2>1. 1 \in 0..Attempts
    BY GatewayAssumption DEF Attempts
  <2> QED BY <1>1, <2>1 DEF GatewayInv, TypeOK, InFlight
<1>3. SlotsBalance'
  <2>1. InFlight' = InFlight \cup {c} /\ c \notin InFlight
    BY <1>1 DEF GatewayInv, TypeOK, InFlight
  <2>2. Cardinality(InFlight \cup {c}) = active + 1
    BY <2>1, InFlightFinite, FS_AddElement DEF GatewayInv, SlotsBalance
  <2> QED BY <1>1, <2>1, <2>2, GatewayAssumption DEF GatewayInv, TypeOK, SlotsBalance
<1>4. CallsOK' /\ NeverReplayed'
  <2> SUFFICES ASSUME NEW d \in Invocations
               PROVE  /\ phase'[d] = "new" => accepted'[d] = 0 /\ d \notin repaired'
                      /\ phase'[d] = "pausing" => attempt'[d] < Attempts
                      /\ accepted'[d] <= (IF d \in repaired' THEN 2 ELSE 1)
                      /\ phase'[d] \in {"calling", "pausing"} =>
                           accepted'[d] = (IF d \in repaired' THEN 1 ELSE 0)
    BY DEF CallsOK, NeverReplayed, Attempts
  <2>1. CallOK(d)
    BY Calls
  <2>2. CASE d = c
    BY <1>1, <2>1, <2>2 DEF GatewayInv, TypeOK, CallOK
  <2>3. CASE d # c
    BY <1>1, <2>1, <2>3 DEF GatewayInv, TypeOK, CallOK
  <2> QED BY <2>2, <2>3
<1>5. AnswersKept'
  BY <1>1 DEF GatewayInv, TypeOK, AnswersKept, Cached
<1>6. RivalsMet'
  <2>1. \A d \in Invocations \ {c} : Counted(d)' <=> Counted(d)
    BY <1>1 DEF GatewayInv, TypeOK, Counted
  <2>2. \A d \in Invocations \ {c} : rivals'[d] = rivals[d]
    BY <1>1 DEF GatewayInv, TypeOK
  <2>3. ASSUME NEW d \in Invocations \ {c}, Operation[d] = Operation[c], Counted(d)'
        PROVE  d \in rivals'[c]
    <3>1. phase[d] # "answered"
      BY <1>1, <2>3 DEF GatewayInv, AnswersKept
    <3>2. d \in InFlight
      BY <2>1, <2>3, <3>1 DEF InFlight, Counted
    <3> QED BY <1>1, <2>3, <3>2 DEF GatewayInv, TypeOK
  <2> SUFFICES ASSUME NEW a \in Invocations, NEW b \in Invocations, a # b,
                      Operation[a] = Operation[b], Counted(a)', Counted(b)'
               PROVE  a \in rivals'[b] \/ b \in rivals'[a]
    BY DEF RivalsMet, Overlapped, Counted
  <2>4. CASE a = c
    BY <2>3, <2>4
  <2>5. CASE b = c
    BY <2>3, <2>5
  <2>6. CASE a # c /\ b # c
    BY <2>1, <2>2, <2>6 DEF GatewayInv, RivalsMet, Overlapped
  <2> QED BY <2>4, <2>5, <2>6
<1> QED BY <1>2, <1>3, <1>4, <1>5, <1>6 DEF GatewayInv

LEMMA SucceedStep ==
  ASSUME GatewayInv, NEW c \in Invocations, Succeed(c)
  PROVE  GatewayInv'
<1>1. SlotsBalance' /\ active' \in Nat
  BY Leaves DEF Succeed
<1>2. /\ phase[c] = "calling" /\ phase' = [phase EXCEPT ![c] = "answered"]
      /\ accepted' = [accepted EXCEPT ![c] = @ + 1]
      /\ results' = [results EXCEPT ![Operation[c]] = {c}]
      /\ failures' = 0 /\ breaker' = "closed" /\ UNCHANGED <<attempt, repaired, rivals>>
  BY DEF Succeed, Go, Accept, Store
<1>3. TypeOK'
  <2>1. accepted' \in [Invocations -> Nat]
    BY <1>2 DEF GatewayInv, TypeOK
  <2>2. results' \in [Operations -> SUBSET Invocations]
    BY <1>2 DEF GatewayInv, TypeOK
  <2>3. 0 \in 0..Threshold
    BY GatewayAssumption
  <2> QED BY <1>1, <1>2, <2>1, <2>2, <2>3 DEF GatewayInv, TypeOK
<1>4. CallOK(c)' /\ phase'[c] = "answered" /\ Counted(c)
  BY <1>2, Calls DEF CallOK, GatewayInv, TypeOK, Counted, Attempts
<1>5. /\ \A o \in Operations : Cached(o) => Cached(o)'
      /\ Cached(Operation[c])'
  <2>1. Operation[c] \in Operations
    BY GatewayAssumption
  <2> QED BY <1>2, <2>1 DEF GatewayInv, TypeOK, Cached
<1>6. \A d \in Invocations \ {c} :
        /\ phase'[d] = phase[d] /\ attempt'[d] = attempt[d] /\ accepted'[d] = accepted[d]
        /\ d \in repaired' <=> d \in repaired
  BY <1>2 DEF GatewayInv, TypeOK
<1> QED BY <1>1, <1>2, <1>3, <1>4, <1>5, <1>6, OneCall

LEMMA RefuseStep ==
  ASSUME GatewayInv, NEW c \in Invocations, RefuseResult(c)
  PROVE  GatewayInv'
<1>1. SlotsBalance' /\ active' \in Nat
  BY Leaves DEF RefuseResult
<1>2. /\ phase[c] = "calling" /\ phase' = [phase EXCEPT ![c] = "failed"]
      /\ accepted' = [accepted EXCEPT ![c] = @ + 1]
      /\ UNCHANGED <<attempt, repaired, results, failures, breaker, rivals>>
  BY DEF RefuseResult, Go, Accept, circuit
<1>3. TypeOK'
  BY <1>1, <1>2 DEF GatewayInv, TypeOK
<1>4. CallOK(c)' /\ phase'[c] = "failed"
  BY <1>2, Calls DEF CallOK, GatewayInv, TypeOK, Attempts
<1>5. \A d \in Invocations \ {c} :
        /\ phase'[d] = phase[d] /\ attempt'[d] = attempt[d] /\ accepted'[d] = accepted[d]
        /\ d \in repaired' <=> d \in repaired
  BY <1>2 DEF GatewayInv, TypeOK
<1> QED BY <1>1, <1>2, <1>3, <1>4, <1>5, OneCall DEF Cached, Counted

LEMMA RepairStep ==
  ASSUME GatewayInv, NEW c \in Invocations, Repair(c)
  PROVE  GatewayInv'
<1>1. /\ phase[c] = "calling" /\ c \notin repaired /\ repaired' = repaired \cup {c}
      /\ accepted' = [accepted EXCEPT ![c] = @ + 1]
      /\ UNCHANGED <<results, failures, breaker, rivals>>
  BY DEF Repair, Repairable, Accept, circuit
<1>2. \/ /\ attempt[c] < Attempts /\ attempt' = [attempt EXCEPT ![c] = @ + 1]
         /\ UNCHANGED <<phase, active>>
      \/ Go(c, "failed") /\ Release(c) /\ UNCHANGED attempt
  BY DEF Repair
<1>3. /\ attempt' \in [Invocations -> 0..Attempts]
      /\ \A d \in Invocations \ {c} : attempt'[d] = attempt[d]
  <2>1. Attempts \in Nat
    BY GatewayAssumption DEF Attempts
  <2>2. attempt[c] < Attempts => attempt[c] + 1 \in 0..Attempts
    BY <2>1 DEF GatewayInv, TypeOK
  <2> QED BY <1>2, <2>2 DEF GatewayInv, TypeOK
<1>4. SlotsBalance' /\ active' \in Nat
  <2>1. CASE UNCHANGED <<phase, active>>
    BY <2>1 DEF GatewayInv, TypeOK, SlotsBalance, InFlight
  <2>2. CASE Go(c, "failed") /\ Release(c)
    BY <1>1, <2>2, Leaves
  <2> QED BY <1>2, <2>1, <2>2
<1>5. /\ phase' \in [Invocations -> {"new", "calling", "pausing", "answered", "cached", "failed"}]
      /\ phase'[c] \in {"calling", "failed"}
      /\ \A d \in Invocations \ {c} : phase'[d] = phase[d]
  BY <1>1, <1>2 DEF Go, GatewayInv, TypeOK
<1>6. TypeOK'
  <2>1. accepted' \in [Invocations -> Nat] /\ repaired' \subseteq Invocations
    BY <1>1 DEF GatewayInv, TypeOK
  <2> QED BY <1>1, <1>3, <1>4, <1>5, <2>1 DEF GatewayInv, TypeOK
<1>7. CallOK(c)'
  <2>1. accepted[c] = 0 /\ accepted'[c] = 1 /\ c \in repaired'
    BY <1>1, Calls DEF CallOK, GatewayInv, TypeOK
  <2>2. attempt'[c] \in 0..Attempts
    BY <1>3
  <2> QED BY <1>5, <2>1, <2>2 DEF CallOK, Attempts
<1>8. \A d \in Invocations \ {c} :
        /\ phase'[d] = phase[d] /\ attempt'[d] = attempt[d] /\ accepted'[d] = accepted[d]
        /\ d \in repaired' <=> d \in repaired
  BY <1>1, <1>3, <1>5 DEF GatewayInv, TypeOK
<1> QED BY <1>1, <1>4, <1>5, <1>6, <1>7, <1>8, OneCall DEF Cached, Counted

LEMMA FailStep ==
  ASSUME GatewayInv, NEW c \in Invocations, NEW acc \in BOOLEAN, NEW retryable \in BOOLEAN,
         Fail(c, acc, retryable)
  PROVE  GatewayInv'
<1>1. /\ phase[c] = "calling" /\ UNCHANGED <<attempt, repaired, results, rivals>>
      /\ accepted' = [accepted EXCEPT ![c] = @ + 1] \/ accepted' = accepted
  BY DEF Fail, Accept
<1>2. \/ Go(c, "failed") /\ RecordFailure /\ Release(c)
      \/ /\ attempt[c] # Attempts /\ accepted' = accepted
         /\ Go(c, "pausing") /\ UNCHANGED <<failures, breaker, active>>
  BY DEF Fail, Final, circuit
<1>3. SlotsBalance' /\ active' \in Nat
  <2>1. CASE Go(c, "failed") /\ Release(c)
    BY <1>1, <2>1, Leaves
  <2>2. CASE Go(c, "pausing") /\ UNCHANGED active
    BY <1>1, <2>2, Stays DEF Go, GatewayInv, TypeOK, InFlight
  <2> QED BY <1>2, <2>1, <2>2
<1>4. /\ phase' \in [Invocations -> {"new", "calling", "pausing", "answered", "cached", "failed"}]
      /\ phase'[c] \in {"pausing", "failed"}
      /\ \A d \in Invocations \ {c} : phase'[d] = phase[d]
  BY <1>2 DEF Go, GatewayInv, TypeOK
<1>5. failures' \in 0..Threshold /\ breaker' \in {"open", "closed"}
  <2>1. CASE RecordFailure
    BY <2>1, GatewayAssumption DEF RecordFailure, GatewayInv, TypeOK
  <2> QED BY <1>2, <2>1 DEF GatewayInv, TypeOK
<1>6. TypeOK'
  BY <1>1, <1>3, <1>4, <1>5 DEF GatewayInv, TypeOK
<1>7. CallOK(c)'
  <2>1. CallOK(c) /\ Attempts \in Nat /\ accepted \in [Invocations -> Nat]
    BY Calls, GatewayAssumption DEF Attempts, GatewayInv, TypeOK
  <2>2. CASE phase'[c] = "failed"
    BY <1>1, <2>1, <2>2 DEF CallOK, Attempts
  <2>3. CASE phase'[c] = "pausing"
    <3>1. attempt[c] # Attempts /\ accepted' = accepted
      BY <1>2, <2>3 DEF Go, GatewayInv, TypeOK
    <3> QED BY <1>1, <2>1, <2>3, <3>1 DEF CallOK, Attempts
  <2> QED BY <1>4, <2>2, <2>3
<1>8. \A d \in Invocations \ {c} :
        /\ phase'[d] = phase[d] /\ attempt'[d] = attempt[d] /\ accepted'[d] = accepted[d]
        /\ d \in repaired' <=> d \in repaired
  BY <1>1, <1>4 DEF GatewayInv, TypeOK
<1> QED BY <1>1, <1>3, <1>4, <1>6, <1>7, <1>8, OneCall DEF Cached, Counted

LEMMA RetryStep ==
  ASSUME GatewayInv, NEW c \in Invocations, Retry(c)
  PROVE  GatewayInv'
<1>1. /\ phase[c] = "pausing" /\ phase' = [phase EXCEPT ![c] = "calling"]
      /\ attempt' = [attempt EXCEPT ![c] = @ + 1]
      /\ UNCHANGED <<repaired, active, results, failures, breaker, accepted, rivals>>
  BY DEF Retry, Go, circuit
<1>2. attempt[c] + 1 \in 0..Attempts /\ attempt[c] < Attempts
  BY <1>1, Calls, GatewayAssumption DEF CallOK, Attempts
<1>3. TypeOK'
  BY <1>1, <1>2 DEF GatewayInv, TypeOK
<1>4. SlotsBalance'
  BY <1>1, <1>3, Stays DEF GatewayInv, TypeOK, InFlight
<1>5. CallOK(c)' /\ phase'[c] = "calling"
  BY <1>1, <1>2, Calls DEF CallOK, GatewayInv, TypeOK, Attempts
<1>6. \A d \in Invocations \ {c} :
        /\ phase'[d] = phase[d] /\ attempt'[d] = attempt[d] /\ accepted'[d] = accepted[d]
        /\ d \in repaired' <=> d \in repaired
  BY <1>1 DEF GatewayInv, TypeOK
<1> QED BY <1>1, <1>3, <1>4, <1>5, <1>6, OneCall DEF Cached, Counted

LEMMA AbortStep ==
  ASSUME GatewayInv, NEW c \in Invocations, Abort(c)
  PROVE  GatewayInv'
<1>1. SlotsBalance' /\ active' \in Nat
  BY Leaves DEF Abort
<1>2. /\ phase[c] = "pausing" /\ phase' = [phase EXCEPT ![c] = "failed"]
      /\ UNCHANGED <<attempt, repaired, results, failures, breaker, accepted, rivals>>
  BY DEF Abort, Go, circuit
<1>3. TypeOK'
  BY <1>1, <1>2 DEF GatewayInv, TypeOK
<1>4. CallOK(c)' /\ phase'[c] = "failed"
  BY <1>2, Calls DEF CallOK, GatewayInv, TypeOK, Attempts
<1>5. \A d \in Invocations \ {c} :
        /\ phase'[d] = phase[d] /\ attempt'[d] = attempt[d] /\ accepted'[d] = accepted[d]
        /\ d \in repaired' <=> d \in repaired
  BY <1>2 DEF GatewayInv, TypeOK
<1> QED BY <1>1, <1>2, <1>3, <1>4, <1>5, OneCall DEF Cached, Counted

-----------------------------------------------------------------------------
(* The specification. *)

\* What no step touches but the circuit leaves everything else as it holds.
LEMMA CircuitStep ==
  ASSUME GatewayInv,
         UNCHANGED <<phase, attempt, repaired, active, results, failures, accepted, rivals>>,
         breaker' \in {"open", "closed"}
  PROVE  GatewayInv'
<1>1. TypeOK'
  BY DEF GatewayInv, TypeOK
<1>2. CallsOK' /\ NeverReplayed'
  BY DEF GatewayInv, CallsOK, NeverReplayed
<1>3. SlotsBalance' /\ AnswersKept' /\ RivalsMet'
  BY DEF GatewayInv, SlotsBalance, InFlight, AnswersKept, Cached, RivalsMet, Counted, Overlapped
<1> QED BY <1>1, <1>2, <1>3 DEF GatewayInv

LEMMA GatewayInit == Init => GatewayInv
<1> SUFFICES ASSUME Init PROVE GatewayInv
  OBVIOUS
<1>1. TypeOK
  BY GatewayAssumption DEF Init, TypeOK, Attempts
<1>2. CallsOK /\ NeverReplayed /\ AnswersKept /\ RivalsMet
  BY DEF Init, CallsOK, NeverReplayed, AnswersKept, RivalsMet, Counted
<1>3. SlotsBalance
  <2>1. InFlight = {}
    BY DEF Init, InFlight
  <2> QED BY <2>1, FS_EmptySet, GatewayAssumption DEF Init, SlotsBalance
<1> QED BY <1>1, <1>2, <1>3 DEF GatewayInv

LEMMA GatewayNext == GatewayInv /\ [Next]_vars => GatewayInv'
<1> SUFFICES ASSUME GatewayInv, [Next]_vars PROVE GatewayInv'
  OBVIOUS
<1>1. CASE UNCHANGED vars
  BY <1>1, CircuitStep DEF vars, flow, circuit, GatewayInv, TypeOK
<1>2. CASE ResetElapses
  BY <1>2, CircuitStep DEF ResetElapses, flow, circuit
<1>3. ASSUME NEW c \in Invocations,
             FromCache(c) \/ Admit(c) \/ Answer(c) \/ Retry(c) \/ Abort(c)
      PROVE  GatewayInv'
  <2>1. CASE Answer(c)
    BY <2>1, SucceedStep, RefuseStep, RepairStep, FailStep DEF Answer
  <2> QED BY <1>3, <2>1, FromCacheStep, AdmitStep, RetryStep, AbortStep
<1> QED BY <1>1, <1>2, <1>3 DEF Next

LEMMA GatewayAlways == Spec => []GatewayInv
BY GatewayInit, GatewayNext, PTL DEF Spec

\* The state of a gateway process is of the types the code gives it; above all, no count
\* goes below zero and no attempt past the limit (invoke, #invokeWithRetry).
THEOREM GatewayTypes == Spec => []TypeOK
BY GatewayAlways, PTL DEF GatewayInv

\* Whatever way invocations end, and however they interleave, #active counts those in
\* flight, and they are no more than maxConcurrency (invoke's finally).
THEOREM SlotsBalanced == Spec => []SlotsBalance
BY GatewayAlways, PTL DEF GatewayInv

\* A request that was accepted is not sent again, but for one correction of a structured
\* result, with any number of retries configured (#invokeWithRetry).
THEOREM AcceptedOnce == Spec => []NeverReplayed
BY GatewayAlways, PTL DEF GatewayInv

LEMMA RivalsAnswer == GatewayInv => AnsweredOnce
BY DEF GatewayInv, RivalsMet, Counted, AnsweredOnce

\* The provider answers an operation a second time only for an invocation that was under
\* way together with the first (#results).
THEOREM OneAnswerPerOperation == Spec => []AnsweredOnce
BY GatewayAlways, RivalsAnswer, PTL

=============================================================================
