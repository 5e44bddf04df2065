--------------------------- MODULE MCModelGateway ---------------------------
(***************************************************************************)
(* Two invocations of a structured operation and one of a plain one.       *)
(***************************************************************************)
EXTENDS ModelGateway

SmallInvocations == 1..3
SmallOperation == [c \in SmallInvocations |-> IF c = 3 THEN "plain" ELSE "structured"]

=============================================================================
