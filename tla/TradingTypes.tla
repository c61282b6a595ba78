---------------------------- MODULE TradingTypes ----------------------------
(***************************************************************************)
(* The vocabulary of include/types.h that several components share.        *)
(* Enumerations are sets of strings with the names of the source; prices,  *)
(* quantities and timestamps are integers.                                 *)
(***************************************************************************)
EXTENDS Integers

Side == {"Buy", "Sell"}

ExecutionStyle == {"Aggressive", "Passive"}

side_sign(side) == IF side = "Buy" THEN 1 ELSE -1

abs_qty(qty) == IF qty >= 0 THEN qty ELSE -qty

Smaller(a, b) == IF a < b THEN a ELSE b

\* Fill: what the order manager hands to accounting.  quantity = 0 is the
\* value-initialised Fill{} that handle_fill ignores.
NoFill == [price |-> 0, quantity |-> 0, side |-> "Buy"]

Fill == [price : Int, quantity : Int, side : Side]
=============================================================================
