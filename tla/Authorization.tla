---------------------------- MODULE Authorization ----------------------------
(***************************************************************************)
(* What an approval promises to the work it guards: it is granted or       *)
(* refused once, a grant is used at most once and only while nobody has    *)
(* withdrawn it, and nothing follows a use or a refusal.                   *)
(***************************************************************************)
EXTENDS Naturals

VARIABLES
  status,   \* "asked", "granted", "used" or "refused"
  uses      \* how often the authorization was consumed

vars == <<status, uses>>

Init == status = "asked" /\ uses = 0

Grant == status = "asked" /\ status' = "granted" /\ UNCHANGED uses
Use == status = "granted" /\ status' = "used" /\ uses' = uses + 1
Refuse == status \in {"asked", "granted"} /\ status' = "refused" /\ UNCHANGED uses

Next == Grant \/ Use \/ Refuse

Spec == Init /\ [][Next]_vars

=============================================================================
