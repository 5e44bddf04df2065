------------------------------ MODULE Releases ------------------------------
(***************************************************************************)
(* What publication promises to the runs that start from it: a version is  *)
(* released at most once, with a definition that has no error findings, is *)
(* announced as it is released, and is never altered or withdrawn; and a   *)
(* later release has a higher number, so that the newest version is the    *)
(* one released last.                                                      *)
(***************************************************************************)
EXTENDS Naturals, Sequences

CONSTANTS
  Versions,      \* the numbers of versions
  Publishable,   \* the definitions without error findings
  Unreleased     \* not a definition

VARIABLES
  released,      \* per version, its definition, or Unreleased
  announced      \* the announcements, in order

vars == <<released, announced>>

Init ==
  /\ released = [v \in Versions |-> Unreleased]
  /\ announced = <<>>

Release(v, d) ==
  /\ \A w \in Versions : w >= v => released[w] = Unreleased
  /\ released' = [released EXCEPT ![v] = d]
  /\ announced' = Append(announced, [version |-> v, definition |-> d])

Next == \E v \in Versions, d \in Publishable : Release(v, d)

Spec == Init /\ [][Next]_vars

=============================================================================
