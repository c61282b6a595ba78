---------------------------- MODULE TradingDesk -----------------------------
(***************************************************************************)
(* What the kernel promises about risk, without orders, events or time: a  *)
(* signed position, and the signed exposure of at most one order that may  *)
(* still execute.  An order is opened only when its complete execution     *)
(* stays within the limit; executions move quantity from the exposure to   *)
(* the position; what is left of the exposure may be given up at any time. *)
(***************************************************************************)
EXTENDS Integers

CONSTANT Limit

VARIABLES position, exposure

deskVars == <<position, exposure>>

Within(x) == -Limit <= x /\ x <= Limit

DeskInit == position = 0 /\ exposure = 0

Open(q) ==
  /\ exposure = 0
  /\ Within(position + q)
  /\ exposure' = q
  /\ UNCHANGED position

\* q has the sign of the exposure and is no larger.
Execute(q) ==
  /\ \/ 0 < q /\ q <= exposure
     \/ exposure <= q /\ q < 0
  /\ position' = position + q
  /\ exposure' = exposure - q

GiveUp == exposure' = 0 /\ UNCHANGED position

\* Between two positions within the limit there are at most 2 * Limit units.
Quantities == -(2 * Limit) .. 2 * Limit

DeskNext == (\E q \in Quantities : Open(q) \/ Execute(q)) \/ GiveUp

DeskSpec == DeskInit /\ [][DeskNext]_deskVars

\* Neither the position nor the position after every pending execution is
\* ever past the limit.
DeskWithinLimit == Within(position) /\ Within(position + exposure)
=============================================================================
