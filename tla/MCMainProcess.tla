--------------------------- MODULE MCMainProcess ---------------------------
(* Instances of MainProcess for TLC. *)
EXTENDS MainProcess

\* One worker that wakes by itself and one that does not.
TwoWorkers == <<"time_server", "lower">>

\* The worker test16_child_death.sh kills, and the one that ends the day.
CashierAndTime == <<"time_server", "cashier">>
=============================================================================
