------------------------------ MODULE RunStates ------------------------------
(***************************************************************************)
(* The state tables of packages/contracts/src/runtime.ts: the states of a  *)
(* run and of a task, and the transitions the contract allows.  Every      *)
(* module about the durable runtime EXTENDS this one.                      *)
(***************************************************************************)

RunState == {"queued", "running", "paused", "cancelling",
             "cancelled", "succeeded", "failed", "policy_stopped"}

TerminalRun == {"cancelled", "succeeded", "failed", "policy_stopped"}

\* runTransitions: the states each run state may move to.
RunTransition ==
  [s \in RunState |->
     IF s = "queued" THEN {"running", "cancelled", "policy_stopped", "failed"}
     ELSE IF s = "running" THEN {"paused", "cancelling", "succeeded", "failed", "policy_stopped"}
     ELSE IF s = "paused" THEN {"running", "cancelling", "failed", "policy_stopped"}
     ELSE IF s = "cancelling" THEN {"cancelled", "failed"}
     ELSE {}]

\* What becomes of the capacity reserved for a run that ends in the state final.
Settlement(final) == IF final = "succeeded" THEN "finalized" ELSE "released"

TaskState == {"pending", "ready", "running", "waiting", "retry_wait", "succeeded",
              "failed", "cancelled", "uncertain", "skipped"}

\* The task states taskTransitions gives no successor to.
TerminalTask == {"succeeded", "failed", "cancelled", "uncertain", "skipped"}

ApprovalState == {"none", "PENDING", "IN_REVIEW", "APPROVED_PENDING_EXECUTION", "REJECTED",
                  "REVISION_REQUESTED", "EXPIRED", "CANCELLED", "CONSUMED", "REVOKED"}

\* The approval states in which an approver may still decide.
OpenApproval == {"PENDING", "IN_REVIEW"}

=============================================================================
