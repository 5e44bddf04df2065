----------------------------- MODULE MCApproval -----------------------------
(***************************************************************************)
(* Small policies for TLC: two steps, three members.                       *)
(***************************************************************************)
EXTENDS Approval

StepOf(mode, quorum, order, selected) ==
  [mode |-> mode, quorum |-> quorum, order |-> order, selected |-> selected]
PolicyOf(strategy, self, auto, legal, finance) ==
  [strategy |-> strategy, allowSelfApproval |-> self, autoOutcome |-> auto,
   step |-> [s \in {"legal", "finance"} |-> IF s = "legal" THEN legal ELSE finance]]

SmallAlphabet == [s \in {"legal", "finance"} |-> IF s = "legal" THEN 1 ELSE 0]
People == {"ann", "bob", "req"}

\* Two signatures of two, and any one of the others; the requester is filtered out.
QuorumPolicy ==
  PolicyOf("parallel", FALSE, "none",
           StepOf("quorum", 2, 0, {"ann", "bob"}), StepOf("single", 0, 0, {"ann", "req"}))
\* One after the other.
SequentialPolicy ==
  PolicyOf("sequential", FALSE, "reject",
           StepOf("all", 0, 0, {"ann", "bob"}), StepOf("any", 0, 1, {"ann", "bob"}))
\* The requester may sign, and so may cancel.
SelfPolicy ==
  PolicyOf("parallel", TRUE, "cancel",
           StepOf("any", 0, 0, {"req", "ann"}), StepOf("all", 0, 1, {"req"}))
\* Nobody is left to sign the second step: never instantiated.
UnresolvablePolicy ==
  PolicyOf("parallel", FALSE, "none",
           StepOf("any", 0, 0, {"ann"}), StepOf("any", 0, 0, {"req"}))

SmallPolicies == {QuorumPolicy, SequentialPolicy, SelfPolicy, UnresolvablePolicy}

=============================================================================
