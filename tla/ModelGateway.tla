---------------------------- MODULE ModelGateway ----------------------------
(***************************************************************************)
(* One process of the model gateway (packages/model-gateway/src/gateway.ts,*)
(* apps/model-gateway) in front of one provider model.  Invocations share  *)
(* the process's results, its circuit and its count of calls in flight;    *)
(* between two awaits an invocation runs alone, so that each action goes   *)
(* from one await to the next.  Several invocations may carry the same     *)
(* operation: the worker's activity is retried, and its first request is   *)
(* not cancelled here.  A refusal (policy, limit, open circuit, deadline)  *)
(* throws before anything is changed, and is no action.                    *)
(***************************************************************************)
EXTENDS Integers, FiniteSets

CONSTANTS
  Invocations,      \* requests that reach the gateway
  Operations,       \* operation ids, within one workspace
  Operation,        \* the operation of each invocation
  Structured,       \* the operations with an output schema, whose result may be repaired
  MaxConcurrency,
  RetryLimit,
  Threshold         \* circuitFailureThreshold

ASSUME GatewayAssumption ==
  /\ IsFiniteSet(Invocations)
  /\ Operation \in [Invocations -> Operations] /\ Structured \subseteq Operations
  /\ MaxConcurrency \in Nat \ {0} /\ RetryLimit \in Nat /\ Threshold \in Nat \ {0}

Attempts == RetryLimit + 1

VARIABLES
  phase,      \* where an invocation awaits: the adapter, the pause before a retry, or it ended
  attempt,    \* of #invokeWithRetry, 0 before the first
  repaired,   \* the invocations with repairAttempted
  active,     \* #active
  results,    \* #results: the operations answered, as the invocation answered last
  failures,   \* of the circuit, as far as Threshold
  breaker,    \* open while openUntil lies ahead
  accepted,   \* how often the provider accepted a request of the invocation
  rivals      \* the invocations of its operation under way as it was admitted

flow == <<phase, attempt, repaired>>
circuit == <<failures, breaker>>
vars == <<flow, active, results, circuit, accepted, rivals>>

InFlight == {c \in Invocations : phase[c] \in {"calling", "pausing"}}

Init ==
  /\ phase = [c \in Invocations |-> "new"]
  /\ attempt = [c \in Invocations |-> 0]
  /\ repaired = {}
  /\ active = 0
  /\ results = [o \in Operations |-> {}]
  /\ failures = 0 /\ breaker = "closed"
  /\ accepted = [c \in Invocations |-> 0]
  /\ rivals = [c \in Invocations |-> {}]

Go(c, p) == phase' = [phase EXCEPT ![c] = p]
Accept(c) == accepted' = [accepted EXCEPT ![c] = @ + 1]

\* The finally of invoke.
ReleaseAnswered(c) == active' = IF phase'[c] = "answered" THEN active - 1 ELSE active   \* variant: outside finally
Release(c) == active' = active - 1

\* #recordFailure.
RecordFailure ==
  /\ failures' = IF failures < Threshold THEN failures + 1 ELSE failures
  /\ breaker' = IF failures + 1 >= Threshold THEN "open" ELSE "closed"

-----------------------------------------------------------------------------
Cached(o) == results[o] # {}

FromCache(c) ==
  /\ phase[c] = "new" /\ Cached(Operation[c])
  /\ Go(c, "cached")
  /\ UNCHANGED <<attempt, repaired, active, results, circuit, accepted, rivals>>

Admit(c) ==
  /\ phase[c] = "new" /\ ~Cached(Operation[c])
  /\ active < MaxConcurrency /\ breaker = "closed"
  /\ Go(c, "calling") /\ attempt' = [attempt EXCEPT ![c] = 1]
  /\ active' = active + 1
  /\ rivals' = [rivals EXCEPT ![c] = {d \in InFlight : Operation[d] = Operation[c]}]
  /\ UNCHANGED <<repaired, results, circuit, accepted>>

\* A result that passes what invoke checks after the call; it closes the circuit.
StoreFirstTry(c) ==   \* variant: the result of a repair is not kept
  results' = [results EXCEPT ![Operation[c]] = IF c \in repaired THEN @ ELSE {c}]
Store(c) == results' = [results EXCEPT ![Operation[c]] = {c}]

Succeed(c) ==
  /\ phase[c] = "calling"
  /\ Go(c, "answered") /\ Accept(c) /\ Store(c) /\ Release(c)
  /\ failures' = 0 /\ breaker' = "closed"
  /\ UNCHANGED <<attempt, repaired, rivals>>

\* Its currency, its cost or its content is refused: paid for, and not kept.
RefuseResult(c) ==
  /\ phase[c] = "calling"
  /\ Go(c, "failed") /\ Accept(c) /\ Release(c)
  /\ UNCHANGED <<attempt, repaired, results, circuit, rivals>>

\* INVALID_OUTPUT of an accepted request: one correction, which is also an attempt.
Repairable(c) == Operation[c] \in Structured /\ c \notin repaired

Repair(c) ==
  /\ phase[c] = "calling" /\ Repairable(c) /\ Accept(c)
  /\ repaired' = repaired \cup {c}
  /\ IF attempt[c] < Attempts
       THEN /\ attempt' = [attempt EXCEPT ![c] = @ + 1]
            /\ UNCHANGED <<phase, active>>
       ELSE /\ Go(c, "failed") /\ Release(c)
            /\ UNCHANGED attempt
  /\ UNCHANGED <<results, circuit, rivals>>

\* Any other failure: of a request accepted or not, that says it is retryable or not.
FinalByRetryable(c, acc, retryable) ==   \* variant: what is retryable is retried, accepted or not
  ~retryable \/ attempt[c] = Attempts
Final(c, acc, retryable) == ~retryable \/ acc \/ attempt[c] = Attempts

Fail(c, acc, retryable) ==
  /\ phase[c] = "calling"
  /\ IF acc THEN Accept(c) ELSE UNCHANGED accepted
  /\ IF Final(c, acc, retryable)
       THEN Go(c, "failed") /\ RecordFailure /\ Release(c)
       ELSE Go(c, "pausing") /\ UNCHANGED <<circuit, active>>
  /\ UNCHANGED <<attempt, repaired, results, rivals>>

RetryUncounted(c) ==   \* variant: a retry is not an attempt
  /\ phase[c] = "pausing"
  /\ Go(c, "calling") /\ UNCHANGED attempt
  /\ UNCHANGED <<repaired, active, results, circuit, accepted, rivals>>
Retry(c) ==
  /\ phase[c] = "pausing"
  /\ Go(c, "calling") /\ attempt' = [attempt EXCEPT ![c] = @ + 1]
  /\ UNCHANGED <<repaired, active, results, circuit, accepted, rivals>>

\* The deadline passes (or the caller cancels) during a pause: TIMEOUT, which is no
\* failure of the provider's.  During a call the adapter is told, and ends it as it can.
Abort(c) ==
  /\ phase[c] = "pausing"
  /\ Go(c, "failed") /\ Release(c)
  /\ UNCHANGED <<attempt, repaired, results, circuit, accepted, rivals>>

\* circuitResetMs pass; the count of failures stays.
ResetElapses ==
  /\ breaker = "open" /\ breaker' = "closed"
  /\ UNCHANGED <<flow, active, results, failures, accepted, rivals>>

\* A call ends, one way or another.
Answer(c) ==
  \/ Succeed(c) \/ RefuseResult(c) \/ Repair(c)
  \/ \E acc, retryable \in BOOLEAN : Fail(c, acc, retryable)

Next ==
  \/ \E c \in Invocations : FromCache(c) \/ Admit(c) \/ Answer(c) \/ Retry(c) \/ Abort(c)
  \/ ResetElapses

\* Adapters answer (they are given the signal) and timers fire.  Nothing is assumed of
\* deadlines, of callers, or of the circuit.
Fairness == \A c \in Invocations : WF_vars(Answer(c)) /\ WF_vars(Retry(c))

Spec == Init /\ [][Next]_vars /\ Fairness

-----------------------------------------------------------------------------
TypeOK ==
  /\ phase \in [Invocations -> {"new", "calling", "pausing", "answered", "cached", "failed"}]
  /\ attempt \in [Invocations -> 0..Attempts]
  /\ repaired \subseteq Invocations
  /\ active \in Nat
  /\ results \in [Operations -> SUBSET Invocations]
  /\ failures \in 0..Threshold /\ breaker \in {"open", "closed"}
  /\ accepted \in [Invocations -> Nat]
  /\ rivals \in [Invocations -> SUBSET Invocations]

\* The count of calls in flight is given back on every way out of an invocation, and
\* the limit holds (invoke).
SlotsBalance == active = Cardinality(InFlight) /\ active <= MaxConcurrency

\* docs/operations/knotline/model-gateway.md: a request that the provider accepted, or
\* may have, is not sent again, but for one correction of a structured result.
NeverReplayed ==
  \A c \in Invocations :
    /\ accepted[c] <= (IF c \in repaired THEN 2 ELSE 1)
    /\ phase[c] \in {"calling", "pausing"} => accepted[c] = (IF c \in repaired THEN 1 ELSE 0)

\* Two invocations of one operation are both answered by the provider only if they were
\* under way together: whoever comes after the answer gets the answer (#results).
Overlapped(c, d) == c \in rivals[d] \/ d \in rivals[c]
AnsweredOnce ==
  \A c, d \in Invocations :
    c # d /\ Operation[c] = Operation[d] /\ phase[c] = "answered" /\ phase[d] = "answered" =>
      Overlapped(c, d)

\* Every invocation ends, though its deadline may never come and the circuit may open
\* and close: attempts are bounded, repairs included (#invokeWithRetry).
EveryCallEnds == \A c \in Invocations : phase[c] = "calling" ~> c \notin InFlight

=============================================================================
