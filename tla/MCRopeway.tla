----------------------------- MODULE MCRopeway -----------------------------
(* Instances of Ropeway for TLC. *)
EXTENDS RopewayLift

CONSTANTS anna, bob, cleo      \* tourist processes

\* How many kids each of them brings.
SmallFamily == [t \in Tourists |-> IF t = anna THEN 1 ELSE 0]

BigFamily == [t \in Tourists |-> IF t = anna THEN 2 ELSE 0]
=============================================================================
