----------------------------- MODULE DurableLog -----------------------------
(***************************************************************************)
(* What a sink promises its callers: per key, a log that is only ever      *)
(* extended at its end, a growing prefix of which is durable.  A crash     *)
(* costs what is not durable and nothing else; no row is duplicated,       *)
(* reordered or altered.                                                   *)
(***************************************************************************)
EXTENDS Naturals, Sequences

CONSTANTS Keys, Rows

VARIABLES
    log,     \* per key, the rows accepted and not lost in a crash
    durable  \* per key, how many of them survive a crash

vars == <<log, durable>>

Init ==
    /\ log = [k \in Keys |-> <<>>]
    /\ durable = [k \in Keys |-> 0]

Accept(k) ==
    /\ \E row \in Rows : log' = [log EXCEPT ![k] = Append(@, row)]
    /\ UNCHANGED durable

Persist(k) ==
    /\ \E n \in durable[k] .. Len(log[k]) : durable' = [durable EXCEPT ![k] = n]
    /\ UNCHANGED log

Crash ==
    /\ log' = [k \in Keys |-> SubSeq(log[k], 1, durable[k])]
    /\ UNCHANGED durable

Next == Crash \/ \E k \in Keys : Accept(k) \/ Persist(k)

Spec == Init /\ [][Next]_vars

=============================================================================
