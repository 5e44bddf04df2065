------------------------- MODULE MCWorkflowVersions -------------------------
(***************************************************************************)
(* Two editors of one workflow for TLC, with a definition that validates   *)
(* and one that does not.                                                  *)
(***************************************************************************)
EXTENDS WorkflowVersions, TLC

SmallDefinitions == {"valid", "broken"}
SmallPublishable == {"valid"}
EditorSymmetry == Permutations(Editors)

=============================================================================
