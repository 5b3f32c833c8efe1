--------------------------- MODULE MCMonthlyBilling ---------------------------
(* Two months cut short: the billing day, of two ticks, and half a day of   *)
(* the first one, half the billing day of the second.                       *)
EXTENDS MonthlyBilling, TLC

MCMonthStart == [m \in 0..3 |-> CASE m = 0 -> -4 [] m = 1 -> 0 [] m = 2 -> 3 [] m = 3 -> 4]
=============================================================================
