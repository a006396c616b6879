---------------------------- MODULE LaggingMirror ----------------------------
(***************************************************************************)
(* What the book collector promises about each market, and what it does    *)
(* not, whatever the network does.                                         *)
(*                                                                         *)
(* A book is what it was built from: the set of the exchange's changes it  *)
(* contains, which the exchange numbers from 1.  The exchange's own books  *)
(* are the sets without a hole, Book(v).  As long as no change failed to   *)
(* reach it, the mirror shows one of those.  After a loss it goes on       *)
(* taking changes, and then shows a set with a hole: levels the exchange   *)
(* need never have had.  Only a snapshot makes it whole again.  Whole or   *)
(* not, it contains no change the exchange has not made, takes each at     *)
(* most once and in order, and never gives one up, until the connection is *)
(* replaced and every mirrored book with it.                               *)
(***************************************************************************)
EXTENDS Naturals

CONSTANT Tickers

VARIABLES
    ver,      \* per ticker, how many changes the exchange made to its book
    shown,    \* the mirrored books: a function from the tickers that have one
    missing   \* the tickers with a loss since their last snapshot

vars == <<ver, shown, missing>>

\* The exchange's book after v changes.
Book(v) == 1 .. v

\* The books with that of t set to b; no book at all.
With(t, b) == [u \in DOMAIN shown \cup {t} |-> IF u = t THEN b ELSE shown[u]]
Empty == [t \in {} |-> {}]

Init ==
    /\ ver = [t \in Tickers |-> 0]
    /\ shown = Empty
    /\ missing = {}

\* The exchange's book of t changes.
Move(t) ==
    /\ ver' = [ver EXCEPT ![t] = @ + 1]
    /\ UNCHANGED <<shown, missing>>

\* The mirror of t is built anew: a book the exchange has or had, no older than
\* what was shown.
Rebuild(t) ==
    /\ \E v \in 0 .. ver[t] :
          /\ t \in DOMAIN shown => shown[t] \subseteq Book(v)
          /\ shown' = With(t, Book(v))
    /\ missing' = missing \ {t}
    /\ UNCHANGED ver

\* A change later than those it contains is added to the mirror of t: the very
\* next one, unless something was lost.
Add(t) ==
    /\ t \in DOMAIN shown
    /\ \E c \in 1 .. ver[t] :
          /\ shown[t] \subseteq Book(c - 1)
          /\ t \notin missing => shown[t] = Book(c - 1)
          /\ shown' = With(t, shown[t] \cup {c})
    /\ UNCHANGED <<ver, missing>>

\* Something about t does not reach the mirror.
Lose(t) ==
    /\ missing' = missing \cup {t}
    /\ UNCHANGED <<ver, shown>>

\* A new connection: every mirrored book is forgotten.
Forget ==
    /\ shown' = Empty
    /\ missing' = {}
    /\ UNCHANGED ver

Next == Forget \/ \E t \in Tickers : Move(t) \/ Rebuild(t) \/ Add(t) \/ Lose(t)

Spec == Init /\ [][Next]_vars

=============================================================================
