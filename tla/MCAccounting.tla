---------------------------- MODULE MCAccounting ----------------------------
(* Prices whose averages over 2 and 3 units are not whole, and quantities on *)
(* both sides of zero.                                                       *)
EXTENDS Accounting

MCFillQuantities == {-1, 0, 1, 2, 3}
=============================================================================
