----------------------------- MODULE BookMirror -----------------------------
(***************************************************************************)
(* The local order book of one contract (orderbook.py, with coerce_price   *)
(* of parsing.py and the row built by KalshiBookCollector.parse), fed with *)
(* the snapshots and deltas of the exchange's book, some of which are lost.*)
(* When a frame is lost and how that is noticed is the subject of          *)
(* KalshiWS; here the question is what the price conversions and the       *)
(* updates of the stacks make of the frames that arrive.                   *)
(*                                                                         *)
(* Prices are integers in 1/10000 dollar, the resolution of the 4-decimal  *)
(* keys.  A stack is a function on all keys, 0 standing for a key the dict *)
(* does not have; a size is a whole number of contracts.                   *)
(***************************************************************************)
EXTENDS Integers, FiniteSets

CONSTANTS
    Cents,     \* the prices quoted, in cents
    Variants,  \* the forms in which the exchange writes a price
    MaxSize,   \* bound: contracts at one price
    MaxMissed, \* bound: changes lost between two snapshots
    None       \* Python's None

Sides  == {"yes", "no"}
Dollar == 10000
Other(side) == IF side = "yes" THEN "no" ELSE "yes"

ASSUME CentsAssumption == Cents \subseteq 1 .. 99
ASSUME VariantsAssumption == Variants \subseteq {"dollars", "cents"}
ASSUME BoundAssumption == MaxSize \in Nat /\ MaxMissed \in Nat
ASSUME NoneAssumption == None \notin Int

VARIABLES
    exchange,     \* the exchange's book: side -> cents -> contracts
    book,         \* the collector's: side -> key -> contracts
    snapshotted,  \* whether a snapshot has been received
    row,          \* the quotes of the last row emitted
    missed        \* history: changes lost since the last snapshot

vars == <<exchange, book, snapshotted, row, missed>>

-----------------------------------------------------------------------------
(***************************************************************************)
(* A price on the wire: a dollar string ("0.97"), or a number of cents (an *)
(* integer or a digit string, which are treated alike).                    *)
(***************************************************************************)
Wire(variant, c) ==
    [variant |-> variant, value |-> IF variant = "dollars" THEN 100 * c ELSE c]

\* Variant for the checks: the threshold lies above two cents.
CoercePriceHighThreshold(price) ==
    CASE price.variant = "dollars" -> price.value
      [] price.variant = "cents" /\ price.value > 2 -> 100 * price.value
      [] price.variant = "cents" /\ price.value <= 2 -> Dollar * price.value

\* coerce_price: a dollar string passes; a bare number greater than 1.5 is
\* cents, any other is already dollars.
CoercePrice(price) ==
    CASE price.variant = "dollars" -> price.value
      [] price.variant = "cents" /\ price.value > 1 -> 100 * price.value
      [] price.variant = "cents" /\ price.value <= 1 -> Dollar * price.value

Keys  == {CoercePrice(Wire(v, c)) : v \in {"dollars", "cents"}, c \in Cents}
Stack == [Keys -> Nat]
EmptyStack == [k \in Keys |-> 0]

\* ladder_from_snapshot: rows is a set of [price, size] pairs; a row whose size
\* is not positive is skipped.
LadderFromSnapshot(rows) ==
    [k \in Keys |->
        IF \E r \in rows : CoercePrice(r.price) = k /\ r.size > 0
          THEN (CHOOSE r \in rows : CoercePrice(r.price) = k /\ r.size > 0).size
          ELSE 0]

\* Variant: an emptied level is kept.
ApplyDeltaKeepsLevel(stack, price, delta) ==
    [stack EXCEPT ![CoercePrice(price)] = @ + delta]

\* apply_delta on one stack: a level whose size falls to zero or below goes.
ApplyDelta(stack, price, delta) ==
    LET size == stack[CoercePrice(price)] + delta
    IN  [stack EXCEPT ![CoercePrice(price)] = IF size <= 0 THEN 0 ELSE size]

Levels(stack) == {k \in DOMAIN stack : stack[k] > 0}
Highest(S)    == CHOOSE k \in S : \A j \in S : j <= k

\* Variant: the first entry of the stack.
TopBidFirst(stack) ==
    IF Levels(stack) = {} THEN None
    ELSE CHOOSE k \in Levels(stack) : \A j \in Levels(stack) : k <= j

\* top_bid
TopBid(stack) == IF Levels(stack) = {} THEN None ELSE Highest(Levels(stack))

Ask(bid) == IF bid = None THEN None ELSE Dollar - bid

\* Variant: each ask is taken from the bids of its own side.
RowAsksSwapped(b) ==
    [yes_bid |-> TopBid(b["yes"]), no_bid |-> TopBid(b["no"]),
     yes_ask |-> Ask(TopBid(b["yes"])), no_ask |-> Ask(TopBid(b["no"]))]

\* The quotes of the row that parse yields.
Row(b) ==
    [yes_bid |-> TopBid(b["yes"]), no_bid |-> TopBid(b["no"]),
     yes_ask |-> Ask(TopBid(b["no"])), no_ask |-> Ask(TopBid(b["yes"]))]

-----------------------------------------------------------------------------
\* The exchange matches orders that cross: a yes bid and a no bid never add up
\* to a dollar.
Uncrossed(x) ==
    \A y, n \in Cents : x["yes"][y] > 0 /\ x["no"][n] > 0 => y + n < 100

Init ==
    /\ exchange \in [Sides -> [Cents -> 0 .. MaxSize]]
    /\ Uncrossed(exchange)
    /\ book = [s \in Sides |-> EmptyStack]
    /\ snapshotted = FALSE
    /\ row = None
    /\ missed = 0

\* An orderbook_snapshot arrives, its prices written as v.
Rows(x, v) == {[price |-> Wire(v, c), size |-> x[c]] : c \in {d \in Cents : x[d] > 0}}
ApplySnapshot(v) ==
    /\ book' = [s \in Sides |-> LadderFromSnapshot(Rows(exchange[s], v))]
    /\ snapshotted' = TRUE
    /\ row' = Row(book')
    /\ missed' = 0
    /\ UNCHANGED exchange

\* The exchange's book changes by d contracts at one price.
Change(s, c, d) ==
    /\ exchange[s][c] + d \in 0 .. MaxSize
    /\ exchange' = [exchange EXCEPT ![s][c] = @ + d]
    /\ Uncrossed(exchange')

\* The orderbook_delta for the change arrives, its price written as v.  Before
\* the snapshot it is dropped.
DeltaArrives(s, c, d, v) ==
    /\ Change(s, c, d)
    /\ IF snapshotted
         THEN /\ book' = [book EXCEPT ![s] = ApplyDelta(@, Wire(v, c), d)]
              /\ row' = Row(book')
         ELSE UNCHANGED <<book, row>>
    /\ UNCHANGED <<snapshotted, missed>>

\* The delta is lost.
DeltaLost(s, c, d) ==
    /\ Change(s, c, d)
    /\ missed < MaxMissed
    /\ missed' = missed + 1
    /\ UNCHANGED <<book, snapshotted, row>>

Next ==
    \/ \E v \in Variants : ApplySnapshot(v)
    \/ \E s \in Sides, c \in Cents, d \in -MaxSize .. MaxSize :
          \/ \E v \in Variants : DeltaArrives(s, c, d, v)
          \/ DeltaLost(s, c, d)

Spec == Init /\ [][Next]_vars

-----------------------------------------------------------------------------
TypeOK ==
    /\ exchange \in [Sides -> [Cents -> 0 .. MaxSize]]
    /\ book \in [Sides -> Stack]
    /\ snapshotted \in BOOLEAN
    /\ missed \in 0 .. MaxMissed
    /\ row \in [{"yes_bid", "no_bid", "yes_ask", "no_ask"} -> Int \cup {None}] \cup {None}

\* The key under which a price belongs in the book.
Key(c) == 100 * c

\* After a snapshot, until a change is lost, the collector's book is the
\* exchange's level for level, whichever variant each message used and
\* whatever the book had become before (ladder_from_snapshot, apply_delta).
BookExact ==
    (snapshotted /\ missed = 0) =>
        \A s \in Sides :
            /\ \A c \in Cents : book[s][Key(c)] = exchange[s][c]
            /\ \A k \in Keys : book[s][k] > 0 => \E c \in Cents : k = Key(c)

\* The exchange's book, in cents: the prices bid on a stack, and the prices at
\* which the other side can be bought from these bidders, a dollar less each.
Best(x)   == {c \in Cents : x[c] > 0}
Offers(x) == {100 - c : c \in Best(x)}
Lowest(S) == CHOOSE k \in S : \A j \in S : k <= j

BestBid(x)   == IF Best(x) = {} THEN None ELSE Key(Highest(Best(x)))
BestOffer(x) == IF Offers(x) = {} THEN None ELSE Key(Lowest(Offers(x)))

\* The four quotes emitted are those of the exchange: each bid is its best bid,
\* each ask the lowest price at which the side can be bought there, none of them
\* is missing or made up, and no side shows a crossed or locked market (parse,
\* top_bid and the identity of orderbook.py).
QuotesTrue ==
    (row # None /\ missed = 0) =>
        /\ row.yes_bid = BestBid(exchange["yes"])
        /\ row.no_bid = BestBid(exchange["no"])
        /\ row.yes_ask = BestOffer(exchange["no"])
        /\ row.no_ask = BestOffer(exchange["yes"])
        /\ (row.yes_bid # None /\ row.yes_ask # None) => row.yes_bid < row.yes_ask
        /\ (row.no_bid # None /\ row.no_ask # None) => row.no_bid < row.no_ask

\* No price is written in a form that coerce_price takes for another price.
Unambiguous == "cents" \in Variants => 1 \notin Cents

=============================================================================
