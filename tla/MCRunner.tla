------------------------------ MODULE MCRunner ------------------------------
(***************************************************************************)
(* Values for model checking Runner.                                       *)
(***************************************************************************)
EXTENDS Runner

CONSTANTS book, trade

BothCollectors == {book, trade}
TwoAndOne == [k \in BothCollectors |-> IF k = book THEN 2 ELSE 1]
OwnKeys == [c \in BothCollectors |-> c]

=============================================================================
