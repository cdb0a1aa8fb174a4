----------------------------- MODULE MCCashier -----------------------------
(* Instances of Cashier for TLC. *)
EXTENDS Cashier

CONSTANTS anna, bob, cleo      \* tourist processes

\* How many kids each of them brings.
OneFamily == [t \in Tourists |-> IF t = anna THEN 2 ELSE 0]
=============================================================================
