---------------------------- MODULE MCSettlement ----------------------------
(***************************************************************************)
(* Values for model checking Settlement: one series with three windows,    *)
(* and one whose requests are answered with an empty list.                 *)
(***************************************************************************)
EXTENDS Settlement

CONSTANTS btc, eth

TwoSeries    == <<eth, btc>>
ThreeAndNone == [a \in {btc, eth} |-> IF a = btc THEN 3 ELSE 0]
TwoEarlier   == [a \in {btc, eth} |-> IF a = btc THEN 2 ELSE 0]
OneUndated   == {<<btc, 2>>}

=============================================================================
