---------------------------- MODULE MCHumanTasks ----------------------------
(***************************************************************************)
(* A manager and a member, who works in two tabs, for TLC.                 *)
(***************************************************************************)
EXTENDS HumanTasks

CONSTANTS mia, sam   \* a member, a manager

SmallTabs == {1, 2}
SmallUserOf == [c \in SmallTabs |-> mia]

=============================================================================
