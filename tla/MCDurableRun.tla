---------------------------- MODULE MCDurableRun ----------------------------
(***************************************************************************)
(* Small plans for TLC.                                                    *)
(***************************************************************************)
EXTENDS DurableRun

Link(s, t) == [source |-> s, target |-> t, path |-> "default"]
OnFailure(s, t) == [source |-> s, target |-> t, path |-> "failure"]

\* An approval guards a connector call; a refused approval takes a fallback.
GuardedNodes == {"start", "review", "deliver", "fallback"}
GuardedKind == [n \in GuardedNodes |->
  CASE n = "start" -> "agent" [] n = "review" -> "approval" [] n = "deliver" -> "connector" [] OTHER -> "system"]
GuardedEdges == {Link("start", "review"), Link("review", "deliver"), OnFailure("review", "fallback")}
GuardedOutcome == [n \in GuardedNodes |-> "EXPIRED"]

\* An agent's draft, which a condition may turn away, is completed by a person.
DraftNodes == {"draft", "edit", "publish"}
DraftKind == [n \in DraftNodes |->
  CASE n = "draft" -> "agent" [] n = "edit" -> "human" [] OTHER -> "system"]
DraftEdges == {Link("draft", "edit"), Link("edit", "publish"), Link("draft", "publish")}
DraftConditional == {Link("draft", "edit")}
DraftOutcome == [n \in DraftNodes |-> "EXPIRED"]

\* Two branches, joined: the draft, which a person may have to edit, and a signature.
ForkNodes == {"draft", "edit", "sign", "join"}
ForkKind == [n \in ForkNodes |->
  CASE n = "draft" -> "agent" [] n = "edit" -> "human" [] n = "sign" -> "approval"
    [] OTHER -> "system"]
ForkEdges ==
  {Link("draft", "edit"), Link("edit", "join"), Link("draft", "join"), Link("sign", "join")}
ForkConditional == {Link("draft", "edit")}
ForkOutcome == [n \in ForkNodes |-> "CANCELLED"]

=============================================================================
