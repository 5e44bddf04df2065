---------------------------- MODULE MCAdmission ----------------------------
(***************************************************************************)
(* Four calls for TLC: a call and its retry, and two under keys of their   *)
(* own, which may both find the period that the first one inserted.        *)
(***************************************************************************)
EXTENDS Admission

SmallCalls == {"first", "retry", "small", "large"}
SmallWorkflow == [c \in SmallCalls |-> IF c = "small" THEN "billing" ELSE "intake"]
SmallKey == [c \in SmallCalls |-> IF c \in {"first", "retry"} THEN "k1" ELSE c]
SmallUnits == [c \in SmallCalls |-> IF c = "large" THEN 2 ELSE 1]

=============================================================================
