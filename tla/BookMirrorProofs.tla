-------------------------- MODULE BookMirrorProofs --------------------------
(***************************************************************************)
(* Proofs about BookMirror, for every set of prices and every size.        *)
(***************************************************************************)
EXTENDS BookMirror, WellFoundedInduction, TLAPS

\* What must hold of one side for the mirror to be exact.
Exact(s) ==
    /\ \A c \in Cents : book[s][Key(c)] = exchange[s][c]
    /\ \A k \in Keys : book[s][k] > 0 => \E c \in Cents : k = Key(c)

BookInv ==
    /\ exchange \in [Sides -> [Cents -> 0 .. MaxSize]]
    /\ book \in [Sides -> Stack]
    /\ missed \in Nat
    /\ (snapshotted /\ missed = 0) => \A s \in Sides : Exact(s)

\* coerce_price finds the key of every price, in every variant in use, when no
\* price of one cent is written as a number of cents.
LEMMA CoercePriceExact ==
    ASSUME Unambiguous, NEW v \in Variants, NEW c \in Cents
    PROVE  CoercePrice(Wire(v, c)) = Key(c)
BY CentsAssumption, VariantsAssumption DEF Unambiguous, CoercePrice, Wire, Key, Dollar

\* Different prices have different keys.
LEMMA KeyInjective ==
    ASSUME NEW c \in Cents, NEW d \in Cents, Key(c) = Key(d)
    PROVE  c = d
BY CentsAssumption DEF Key

LEMMA KeyInKeys == ASSUME NEW c \in Cents PROVE Key(c) \in Keys
<1>1. Key(c) = CoercePrice(Wire("dollars", c))
  BY CentsAssumption DEF Key, CoercePrice, Wire
<1> QED
  BY <1>1 DEF Keys

\* A ladder built from the rows of one side of the exchange's book has the
\* size of each price under its key and nothing else.
LEMMA LadderExact ==
    ASSUME Unambiguous, NEW v \in Variants, NEW x \in [Cents -> 0 .. MaxSize]
    PROVE  /\ LadderFromSnapshot(Rows(x, v)) \in Stack
           /\ \A c \in Cents : LadderFromSnapshot(Rows(x, v))[Key(c)] = x[c]
           /\ \A k \in Keys : LadderFromSnapshot(Rows(x, v))[k] > 0
                                => \E c \in Cents : k = Key(c)
<1> DEFINE R == Rows(x, v)
           L == LadderFromSnapshot(R)
           Row4(k, r) == r \in R /\ CoercePrice(r.price) = k /\ r.size > 0
<1>1. \A r \in R : \E c \in Cents : /\ x[c] > 0 /\ r.size = x[c] /\ r.size \in Nat
                                    /\ CoercePrice(r.price) = Key(c)
  BY CoercePriceExact, BoundAssumption DEF Rows
<1>2. ASSUME NEW c \in Cents, x[c] > 0
      PROVE  \E r \in R : CoercePrice(r.price) = Key(c) /\ r.size > 0
  <2> DEFINE r == [price |-> Wire(v, c), size |-> x[c]]
  <2>1. r \in R /\ CoercePrice(r.price) = Key(c) /\ r.size > 0
    BY <1>2, CoercePriceExact DEF Rows
  <2> QED
    BY <2>1
<1>3. ASSUME NEW k \in Keys
      PROVE  \/ L[k] = 0 /\ ~ \E r \in R : CoercePrice(r.price) = k /\ r.size > 0
             \/ \E r \in R : CoercePrice(r.price) = k /\ r.size > 0 /\ L[k] = r.size
  BY DEF LadderFromSnapshot
<1>4. L \in Stack
  <2>1. \A k \in Keys : L[k] \in Nat
    BY <1>1, <1>3
  <2> QED
    BY <2>1 DEF LadderFromSnapshot, Stack
<1>5. ASSUME NEW c \in Cents PROVE L[Key(c)] = x[c]
  <2>1. CASE x[c] > 0
    <3>1. PICK r \in R : CoercePrice(r.price) = Key(c) /\ r.size > 0 /\ L[Key(c)] = r.size
      BY <1>2, <1>3, <2>1, KeyInKeys
    <3> QED
      BY <1>1, <3>1, KeyInjective
  <2>2. CASE x[c] = 0
    <3>1. ~ \E r \in R : CoercePrice(r.price) = Key(c) /\ r.size > 0
      BY <1>1, <2>2, KeyInjective
    <3> QED
      BY <1>3, <2>2, <3>1, KeyInKeys
  <2>3. x[c] \in Nat
    BY BoundAssumption
  <2> QED
    BY <2>1, <2>2, <2>3
<1>6. ASSUME NEW k \in Keys, L[k] > 0 PROVE \E c \in Cents : k = Key(c)
  BY <1>1, <1>3, <1>6
<1> QED
  BY <1>4, <1>5, <1>6

\* A delta leaves a stack a stack, whatever the book had become.
LEMMA DeltaType ==
    ASSUME NEW stack \in Stack, NEW c \in Cents, NEW d \in Int, NEW v \in Variants
    PROVE  ApplyDelta(stack, Wire(v, c), d) \in Stack
<1>1. CoercePrice(Wire(v, c)) \in Keys
  BY VariantsAssumption DEF Keys
<1> QED
  BY <1>1 DEF ApplyDelta, Stack

\* The change of one price, applied to an exact stack, leaves it exact.
LEMMA DeltaExact ==
    ASSUME Unambiguous, NEW stack \in Stack, NEW c \in Cents, NEW d \in Int,
           NEW v \in Variants, NEW x \in [Cents -> 0 .. MaxSize],
           x[c] + d \in 0 .. MaxSize,
           \A b \in Cents : stack[Key(b)] = x[b],
           \A k \in Keys : stack[k] > 0 => \E b \in Cents : k = Key(b),
           NEW y, y = [x EXCEPT ![c] = @ + d]
    PROVE  /\ \A b \in Cents : ApplyDelta(stack, Wire(v, c), d)[Key(b)] = y[b]
           /\ \A k \in Keys : ApplyDelta(stack, Wire(v, c), d)[k] > 0
                                => \E b \in Cents : k = Key(b)
<1> DEFINE A == ApplyDelta(stack, Wire(v, c), d)
<1>1. A = [stack EXCEPT ![Key(c)] = IF x[c] + d <= 0 THEN 0 ELSE x[c] + d]
  BY CoercePriceExact DEF ApplyDelta
<1>2. x[c] + d \in Nat /\ stack \in [Keys -> Nat] /\ Key(c) \in Keys
  BY BoundAssumption, KeyInKeys DEF Stack
<1>3. A[Key(c)] = y[c]
  BY <1>1, <1>2
<1>4. ASSUME NEW b \in Cents, b # c PROVE A[Key(b)] = y[b]
  BY <1>1, <1>2, <1>4, KeyInjective, KeyInKeys
<1>5. ASSUME NEW k \in Keys, A[k] > 0 PROVE \E b \in Cents : k = Key(b)
  BY <1>1, <1>2, <1>5
<1> QED
  BY <1>3, <1>4, <1>5

LEMMA BookInit == Init => BookInv
BY DEF Init, BookInv, EmptyStack, Stack

LEMMA BookStep == Unambiguous /\ BookInv /\ [Next]_vars => BookInv'
<1> SUFFICES ASSUME Unambiguous, BookInv, [Next]_vars PROVE BookInv'
  OBVIOUS
<1>1. CASE UNCHANGED vars
  BY <1>1 DEF vars, BookInv, Exact
<1>2. ASSUME NEW v \in Variants, ApplySnapshot(v) PROVE BookInv'
  <2>1. /\ exchange' = exchange
        /\ missed' = 0
        /\ book' = [s \in Sides |-> LadderFromSnapshot(Rows(exchange[s], v))]
    BY <1>2 DEF ApplySnapshot
  <2>2. ASSUME NEW s \in Sides PROVE book'[s] \in Stack /\ Exact(s)'
    <3>1. exchange[s] \in [Cents -> 0 .. MaxSize]
      BY DEF BookInv
    <3>2. book'[s] = LadderFromSnapshot(Rows(exchange[s], v))
      BY <2>1
    <3> QED
      BY <2>1, <3>1, <3>2, LadderExact DEF Exact
  <2>3. book' \in [Sides -> Stack]
    BY <2>1, <2>2
  <2> QED
    BY <2>1, <2>2, <2>3 DEF BookInv
<1>3. ASSUME NEW s \in Sides, NEW c \in Cents, NEW d \in -MaxSize .. MaxSize, Change(s, c, d)
      PROVE  /\ exchange' \in [Sides -> [Cents -> 0 .. MaxSize]]
             /\ d \in Int
             /\ exchange'[s] = [exchange[s] EXCEPT ![c] = @ + d]
             /\ \A q \in Sides : q # s => exchange'[q] = exchange[q]
  BY <1>3, BoundAssumption DEF Change, BookInv
<1>4. ASSUME NEW s \in Sides, NEW c \in Cents, NEW d \in -MaxSize .. MaxSize,
             NEW v \in Variants, DeltaArrives(s, c, d, v)
      PROVE  BookInv'
  <2>1. Change(s, c, d) /\ UNCHANGED <<snapshotted, missed>>
    BY <1>4 DEF DeltaArrives
  <2>2. CASE snapshotted
    <3>1. book' = [book EXCEPT ![s] = ApplyDelta(@, Wire(v, c), d)]
      BY <1>4, <2>2 DEF DeltaArrives
    <3>2. /\ book \in [Sides -> Stack] /\ book[s] \in Stack
          /\ exchange[s] \in [Cents -> 0 .. MaxSize]
      BY DEF BookInv
    <3>3. book' \in [Sides -> Stack] /\ book'[s] = ApplyDelta(book[s], Wire(v, c), d)
      BY <1>3, <2>1, <3>1, <3>2, DeltaType
    <3>4. ASSUME missed = 0, NEW q \in Sides PROVE Exact(q)'
      <4>1. CASE q = s
        <5>1. Exact(s)
          BY <2>2, <3>4 DEF BookInv
        <5>2. exchange[s][c] + d \in 0 .. MaxSize
          BY <2>1 DEF Change
        <5> QED
          <6>1. exchange'[s] = [exchange[s] EXCEPT ![c] = @ + d] /\ d \in Int
            BY <1>3, <2>1
          <6>2. /\ \A b \in Cents : book[s][Key(b)] = exchange[s][b]
                /\ \A k \in Keys : book[s][k] > 0 => \E b \in Cents : k = Key(b)
            BY <5>1 DEF Exact
          <6>3. /\ \A b \in Cents :
                      ApplyDelta(book[s], Wire(v, c), d)[Key(b)] = exchange'[s][b]
                /\ \A k \in Keys : ApplyDelta(book[s], Wire(v, c), d)[k] > 0
                                      => \E b \in Cents : k = Key(b)
            BY <3>2, <5>2, <6>1, <6>2, DeltaExact
          <6> QED
            BY <3>3, <4>1, <6>3 DEF Exact
      <4>2. CASE q # s
        <5>1. Exact(q) /\ book'[q] = book[q] /\ exchange'[q] = exchange[q]
          BY <1>3, <2>1, <2>2, <3>1, <3>2, <3>4, <4>2 DEF BookInv
        <5> QED
          BY <5>1 DEF Exact
      <4> QED
        BY <4>1, <4>2
    <3> QED
      BY <1>3, <2>1, <3>3, <3>4 DEF BookInv
  <2>3. CASE ~snapshotted
    <3>1. book' = book /\ ~snapshotted'
      BY <1>4, <2>1, <2>3 DEF DeltaArrives
    <3>2. exchange' \in [Sides -> [Cents -> 0 .. MaxSize]]
      BY <1>3, <2>1
    <3> QED
      BY <2>1, <3>1, <3>2 DEF BookInv
  <2> QED
    BY <2>2, <2>3
<1>5. ASSUME NEW s \in Sides, NEW c \in Cents, NEW d \in -MaxSize .. MaxSize,
             DeltaLost(s, c, d)
      PROVE  BookInv'
  <2>1. Change(s, c, d) /\ book' = book /\ missed' = missed + 1
    BY <1>5 DEF DeltaLost
  <2>2. exchange' \in [Sides -> [Cents -> 0 .. MaxSize]]
    BY <1>3, <2>1
  <2>3. missed' \in Nat /\ missed' # 0
    BY <2>1 DEF BookInv
  <2> QED
    BY <2>1, <2>2, <2>3 DEF BookInv
<1> QED
  BY <1>1, <1>2, <1>4, <1>5 DEF Next

\* If no price of one cent is written as a bare number, the mirrored book is
\* the exchange's level for level from each snapshot to the next lost change.
THEOREM BookIsExact ==
    ASSUME Unambiguous
    PROVE  Spec => []BookExact
<1>1. BookInv => BookExact
  BY DEF BookInv, BookExact, Exact
<1>2. BookInv /\ [Next]_vars => BookInv'
  BY BookStep
<1> QED
  BY <1>1, <1>2, BookInit, PTL DEF Spec

-----------------------------------------------------------------------------
(***************************************************************************)
(* The highest level                                                       *)
(***************************************************************************)

\* Every set of natural numbers has a smallest.
LEMMA Smallest ==
    ASSUME NEW S \in SUBSET Nat, S # {}
    PROVE  \E n \in S : \A m \in S : n <= m
<1>. DEFINE R == OpToRel(<, Nat)
<1>1. IsWellFoundedOn(R, Nat)
  BY NatLessThanWellFounded, Zenon
<1>2. \A x, y \in Nat : y < x => <<y, x>> \in R
  BY DEF OpToRel
<1>. HIDE DEF R
<1>3. \E x \in S : \A y \in S : ~ (<<y, x>> \in R)
  BY <1>1, WFMin
<1>4. S \subseteq Nat
  OBVIOUS
<1>5. \A x, y \in Nat : ~(y < x) => x <= y
  OBVIOUS
<1>. QED  BY <1>2, <1>3, <1>4, <1>5

LEMMA HighestExists ==
    ASSUME NEW S \in SUBSET Nat, S # {}, NEW b \in Nat, \A x \in S : x <= b
    PROVE  Highest(S) \in S /\ \A j \in S : j <= Highest(S)
<1>. DEFINE T == {b - x : x \in S}
<1>1. T \in SUBSET Nat /\ T # {}
  <2>1. \A x \in S : b - x \in Nat
    OBVIOUS
  <2>2. T \subseteq Nat
    BY <2>1
  <2>3. \E x \in S : b - x \in T
    OBVIOUS
  <2>. QED  BY <2>2, <2>3
<1>. HIDE DEF T
<1>2. PICK n \in T : \A m \in T : n <= m
  BY <1>1, Smallest
<1>3. PICK x \in S : n = b - x
  BY DEF T
<1>4. \A j \in S : b - x <= b - j
  BY <1>2, <1>3 DEF T
<1>5. \A j \in S : j <= x
  BY <1>4
<1>. QED  BY <1>5 DEF Highest

LEMMA HighestIs ==
    ASSUME NEW S \in SUBSET Nat, NEW x \in S, \A j \in S : j <= x
    PROVE  Highest(S) = x
<1>. DEFINE h == Highest(S)
<1>1. h \in S /\ \A j \in S : j <= h
  BY DEF Highest
<1>. HIDE DEF h
<1>2. h \in Nat /\ x \in Nat /\ h <= x /\ x <= h
  BY <1>1
<1>3. h = x
  BY <1>2
<1>. QED  BY <1>3 DEF h

LEMMA KeysBounded == Keys \subseteq Nat /\ \A k \in Keys : k <= Dollar
BY CentsAssumption DEF Keys, CoercePrice, Wire, Dollar

\* top_bid is a price of the stack, the highest, or None.
LEMMA TopBidFacts ==
    ASSUME NEW stack \in Stack
    PROVE  /\ Levels(stack) = {} => TopBid(stack) = None
           /\ Levels(stack) # {} => /\ TopBid(stack) \in Levels(stack)
                                   /\ \A k \in Levels(stack) : k <= TopBid(stack)
           /\ Levels(stack) \subseteq Keys
           /\ TopBid(stack) \in Nat \cup {None}
<1>1. Levels(stack) \subseteq Keys
  BY DEF Levels, Stack
<1>2. Levels(stack) \in SUBSET Nat /\ \A k \in Levels(stack) : k <= Dollar
  BY <1>1, KeysBounded
<1>3. Dollar \in Nat
  BY DEF Dollar
<1>4. CASE Levels(stack) = {}
  BY <1>1, <1>4 DEF TopBid
<1>5. CASE Levels(stack) # {}
  <2>1. /\ Highest(Levels(stack)) \in Levels(stack)
        /\ \A k \in Levels(stack) : k <= Highest(Levels(stack))
    BY <1>2, <1>3, <1>5, HighestExists
  <2>2. TopBid(stack) = Highest(Levels(stack))
    BY <1>5 DEF TopBid
  <2>. QED  BY <1>1, <1>2, <1>5, <2>1, <2>2
<1>. QED  BY <1>4, <1>5

\* The quotes of a row are prices or None.
LEMMA RowType ==
    ASSUME NEW b \in [Sides -> Stack]
    PROVE  Row(b) \in [{"yes_bid", "no_bid", "yes_ask", "no_ask"} -> Int \cup {None}]
<1>1. b["yes"] \in Stack /\ b["no"] \in Stack
  BY DEF Sides
<1>2. TopBid(b["yes"]) \in Nat \cup {None} /\ TopBid(b["no"]) \in Nat \cup {None}
  BY <1>1, TopBidFacts
<1>3. Ask(TopBid(b["yes"])) \in Int \cup {None} /\ Ask(TopBid(b["no"])) \in Int \cup {None}
  BY <1>2 DEF Ask, Dollar
<1>. QED  BY <1>2, <1>3 DEF Row

-----------------------------------------------------------------------------
(***************************************************************************)
(* Types                                                                   *)
(***************************************************************************)
LEMMA LadderType ==
    ASSUME NEW v \in Variants, NEW x \in [Cents -> 0 .. MaxSize]
    PROVE  LadderFromSnapshot(Rows(x, v)) \in Stack
<1>1. \A r \in Rows(x, v) : r.size \in Nat
  BY BoundAssumption DEF Rows
<1>2. \A k \in Keys : LadderFromSnapshot(Rows(x, v))[k] \in Nat
  BY <1>1 DEF LadderFromSnapshot
<1>. QED  BY <1>2 DEF LadderFromSnapshot, Stack

LEMMA TypeInit == Init => TypeOK
<1>. SUFFICES ASSUME Init PROVE TypeOK
  OBVIOUS
<1>1. EmptyStack \in Stack
  BY DEF EmptyStack, Stack
<1>2. book \in [Sides -> Stack]
  BY <1>1 DEF Init
<1>3. missed \in 0 .. MaxMissed
  BY BoundAssumption DEF Init
<1>. QED  BY <1>2, <1>3 DEF Init, TypeOK

LEMMA TypeStep == TypeOK /\ [Next]_vars => TypeOK'
<1>. SUFFICES ASSUME TypeOK, [Next]_vars PROVE TypeOK'
  OBVIOUS
<1>1. CASE UNCHANGED vars
  BY <1>1 DEF vars, TypeOK
<1>2. ASSUME NEW v \in Variants, ApplySnapshot(v)
      PROVE  TypeOK'
  <2>1. \A s \in Sides : LadderFromSnapshot(Rows(exchange[s], v)) \in Stack
    BY LadderType DEF TypeOK
  <2>2. book' \in [Sides -> Stack] /\ row' = Row(book')
    BY <1>2, <2>1 DEF ApplySnapshot
  <2>. QED  BY <1>2, <2>2, RowType, BoundAssumption DEF ApplySnapshot, TypeOK
<1>3. ASSUME NEW s \in Sides, NEW c \in Cents, NEW d \in -MaxSize .. MaxSize, Change(s, c, d)
      PROVE  exchange' \in [Sides -> [Cents -> 0 .. MaxSize]]
  BY <1>3 DEF Change, TypeOK
<1>4. ASSUME NEW s \in Sides, NEW c \in Cents, NEW d \in -MaxSize .. MaxSize,
             NEW v \in Variants, DeltaArrives(s, c, d, v)
      PROVE  TypeOK'
  <2>1. exchange' \in [Sides -> [Cents -> 0 .. MaxSize]] /\ UNCHANGED <<snapshotted, missed>>
    BY <1>3, <1>4 DEF DeltaArrives
  <2>2. CASE snapshotted
    <3>1. d \in Int
      BY BoundAssumption
    <3>2. book' = [book EXCEPT ![s] = ApplyDelta(@, Wire(v, c), d)] /\ row' = Row(book')
      BY <1>4, <2>2 DEF DeltaArrives
    <3>3. book[s] \in Stack /\ ApplyDelta(book[s], Wire(v, c), d) \in Stack
      BY <3>1, DeltaType DEF TypeOK
    <3>4. book' \in [Sides -> Stack]
      BY <3>2, <3>3 DEF TypeOK
    <3>. QED  BY <2>1, <3>2, <3>4, RowType DEF TypeOK
  <2>3. CASE ~snapshotted
    BY <1>4, <2>1, <2>3 DEF DeltaArrives, TypeOK
  <2>. QED  BY <2>2, <2>3
<1>5. ASSUME NEW s \in Sides, NEW c \in Cents, NEW d \in -MaxSize .. MaxSize,
             DeltaLost(s, c, d)
      PROVE  TypeOK'
  <2>1. exchange' \in [Sides -> [Cents -> 0 .. MaxSize]]
    BY <1>3, <1>5 DEF DeltaLost
  <2>. QED  BY <1>5, <2>1, BoundAssumption DEF DeltaLost, TypeOK
<1>. QED  BY <1>1, <1>2, <1>4, <1>5 DEF Next

\* The mirror keeps its types whatever is lost and however prices are written:
\* no size is negative, and every quote is a price or None (orderbook.py).
THEOREM TypeCorrect == Spec => []TypeOK
BY TypeInit, TypeStep, PTL DEF Spec

-----------------------------------------------------------------------------
(***************************************************************************)
(* Quotes                                                                  *)
(***************************************************************************)

\* A row is that of the book, which is not touched without a new row.
RowInv ==
    /\ row # None => snapshotted /\ row = Row(book)
    /\ Uncrossed(exchange)

LEMMA RowStep == RowInv /\ [Next]_vars => RowInv'
<1>. SUFFICES ASSUME RowInv, [Next]_vars PROVE RowInv'
  OBVIOUS
<1>1. CASE UNCHANGED vars
  BY <1>1 DEF vars, RowInv, Uncrossed, Row
<1>2. ASSUME NEW v \in Variants, ApplySnapshot(v)
      PROVE  RowInv'
  BY <1>2 DEF ApplySnapshot, RowInv, Uncrossed, Row
<1>3. ASSUME NEW s \in Sides, NEW c \in Cents, NEW d \in -MaxSize .. MaxSize
      PROVE  /\ DeltaLost(s, c, d) => RowInv'
             /\ \A v \in Variants : DeltaArrives(s, c, d, v) => RowInv'
  BY DEF DeltaArrives, DeltaLost, Change, RowInv, Uncrossed, Row
<1>. QED  BY <1>1, <1>2, <1>3 DEF Next

\* The best bid of an exact stack is that of the exchange.
LEMMA TopBidExact ==
    ASSUME NEW stack \in Stack, NEW x \in [Cents -> 0 .. MaxSize],
           \A c \in Cents : stack[Key(c)] = x[c],
           \A k \in Keys : stack[k] > 0 => \E c \in Cents : k = Key(c)
    PROVE  LET best == {c \in Cents : x[c] > 0}
           IN  /\ TopBid(stack) = IF best = {} THEN None ELSE Key(Highest(best))
               /\ best # {} => Highest(best) \in best
<1>. DEFINE best == {c \in Cents : x[c] > 0}
<1>1. \A c \in Cents : Key(c) \in Levels(stack) <=> c \in best
  <2>1. \A c \in Cents : Key(c) \in DOMAIN stack
    BY KeyInKeys DEF Stack
  <2>. QED  BY <2>1 DEF Levels
<1>2. \A k \in Levels(stack) : \E c \in best : k = Key(c)
  BY <1>1 DEF Levels, Stack
<1>3. best \in SUBSET Nat /\ (\A c \in best : c <= 99) /\ best \subseteq Cents
  <2>1. best \subseteq Cents
    OBVIOUS
  <2>2. \A c \in best : c \in Nat /\ c <= 99
    BY <2>1, CentsAssumption
  <2>. QED  BY <2>1, <2>2
<1>. HIDE DEF best
<1>4. CASE best = {}
  <2>1. Levels(stack) = {}
    BY <1>2, <1>4
  <2>. QED  BY <1>4, <2>1 DEF TopBid, best
<1>5. CASE best # {}
  <2>1. Highest(best) \in best /\ \A c \in best : c <= Highest(best)
    BY <1>3, <1>5, HighestExists
  <2>2. PICK h \in best : h = Highest(best)
    BY <2>1
  <2>3. Key(h) \in Levels(stack)
    BY <1>1, <1>3
  <2>4. \A c \in best : Key(c) <= Key(h)
    BY <1>3, <2>1, <2>2 DEF Key
  <2>5. \A k \in Levels(stack) : k <= Key(h)
    BY <1>2, <2>4
  <2>6. Levels(stack) \in SUBSET Nat
    BY TopBidFacts, KeysBounded
  <2>7. Highest(Levels(stack)) = Key(h)
    BY <2>3, <2>5, <2>6, HighestIs
  <2>. QED  BY <1>5, <2>1, <2>2, <2>3, <2>7 DEF TopBid, best
<1>. QED  BY <1>4, <1>5

\* The lowest offer is a dollar less the highest bid.
LEMMA OfferFacts ==
    ASSUME NEW x \in [Cents -> 0 .. MaxSize], BestBid(x) # None
    PROVE  BestOffer(x) = Dollar - BestBid(x)
<1>1. \A c \in Cents : c \in Nat /\ c \in 1 .. 99
  BY CentsAssumption
<1>2. Best(x) \in SUBSET Nat /\ (\A c \in Best(x) : c <= 99) /\ Best(x) # {}
  BY <1>1 DEF Best, BestBid
<1>3. Highest(Best(x)) \in Best(x) /\ \A c \in Best(x) : c <= Highest(Best(x))
  BY <1>2, HighestExists
<1>4. PICK h \in Nat : h = Highest(Best(x))
  BY <1>2, <1>3
<1>5. /\ 100 - h \in Offers(x) /\ Offers(x) \subseteq Int
      /\ \A k \in Offers(x) : 100 - h <= k
  BY <1>2, <1>3, <1>4 DEF Offers
<1>6. Lowest(Offers(x)) = 100 - h
  BY <1>5 DEF Lowest
<1>7. BestOffer(x) = Key(100 - h) /\ BestBid(x) = Key(h)
  BY <1>2, <1>4, <1>5, <1>6 DEF BestOffer, BestBid
<1>. QED  BY <1>4, <1>7 DEF Key, Dollar

\* If no price of one cent is written as a bare number, the four quotes emitted
\* while no change is lost are the exchange's: its best bids, the lowest prices at
\* which each side can be bought, None exactly where there are none, and never
\* crossed or locked (parse, top_bid, the identity of orderbook.py).
THEOREM QuotesAreTrue ==
    ASSUME Unambiguous
    PROVE  Spec => []QuotesTrue
<1>1. Init => RowInv
  BY DEF Init, RowInv
<1>2. ASSUME BookInv, RowInv, TypeOK
      PROVE  QuotesTrue
  <2>. SUFFICES ASSUME row # None, missed = 0
                PROVE  /\ row.yes_bid = BestBid(exchange["yes"])
                       /\ row.no_bid = BestBid(exchange["no"])
                       /\ row.yes_ask = BestOffer(exchange["no"])
                       /\ row.no_ask = BestOffer(exchange["yes"])
                       /\ (row.yes_bid # None /\ row.yes_ask # None) => row.yes_bid < row.yes_ask
                       /\ (row.no_bid # None /\ row.no_ask # None) => row.no_bid < row.no_ask
    BY DEF QuotesTrue
  <2>1. /\ row.yes_bid = TopBid(book["yes"]) /\ row.no_bid = TopBid(book["no"])
        /\ row.yes_ask = Ask(TopBid(book["no"])) /\ row.no_ask = Ask(TopBid(book["yes"]))
    BY <1>2 DEF RowInv, Row
  <2>2. ASSUME NEW s \in Sides
        PROVE  /\ TopBid(book[s]) = BestBid(exchange[s])
               /\ Best(exchange[s]) # {} => Highest(Best(exchange[s])) \in Best(exchange[s])
               /\ exchange[s] \in [Cents -> 0 .. MaxSize]
    <3>1. /\ book[s] \in Stack /\ exchange[s] \in [Cents -> 0 .. MaxSize] /\ Exact(s)
      BY <1>2 DEF BookInv, RowInv
    <3>. QED  BY <3>1, TopBidExact DEF Exact, Best, BestBid
  <2>3. ASSUME TopBid(book["yes"]) # None, TopBid(book["no"]) # None
        PROVE  /\ TopBid(book["yes"]) < Dollar - TopBid(book["no"])
               /\ TopBid(book["no"]) < Dollar - TopBid(book["yes"])
    <3>1. PICK y \in Best(exchange["yes"]) : TopBid(book["yes"]) = Key(y)
      BY <2>2, <2>3 DEF Sides, BestBid
    <3>2. PICK n \in Best(exchange["no"]) : TopBid(book["no"]) = Key(n)
      BY <2>2, <2>3 DEF Sides, BestBid
    <3>3. y \in 1 .. 99 /\ n \in 1 .. 99 /\ y + n < 100
      BY <1>2, CentsAssumption DEF RowInv, Uncrossed, Best
    <3>. QED  BY <3>1, <3>2, <3>3 DEF Key, Dollar
  <2>4. /\ (row.yes_bid # None /\ row.yes_ask # None) => row.yes_bid < row.yes_ask
        /\ (row.no_bid # None /\ row.no_ask # None) => row.no_bid < row.no_ask
    BY <2>1, <2>3 DEF Ask
  <2>5. ASSUME NEW s \in Sides
        PROVE  Ask(TopBid(book[s])) = BestOffer(exchange[s])
    <3>1. CASE TopBid(book[s]) = None
      <4>1. Best(exchange[s]) = {}
        <5>1. \A c \in Cents : Key(c) # None
          BY CentsAssumption, NoneAssumption DEF Key
        <5>2. Best(exchange[s]) # {} => Highest(Best(exchange[s])) \in Cents
          BY <2>2 DEF Best
        <5>. QED  BY <2>2, <3>1, <5>1, <5>2 DEF BestBid
      <4>. QED  BY <3>1, <4>1 DEF Ask, BestOffer, Offers
    <3>2. CASE TopBid(book[s]) # None
      BY <2>2, <3>2, OfferFacts DEF Ask
    <3>. QED  BY <3>1, <3>2
  <2>. QED  BY <2>1, <2>2, <2>4, <2>5 DEF Sides
<1>3. /\ BookInv /\ [Next]_vars => BookInv'
      /\ RowInv /\ [Next]_vars => RowInv'
      /\ TypeOK /\ [Next]_vars => TypeOK'
  BY BookStep, RowStep, TypeStep
<1>4. BookInv /\ RowInv /\ TypeOK => QuotesTrue
  BY <1>2
<1>. QED  BY <1>1, <1>3, <1>4, BookInit, TypeInit, PTL DEF Spec

=============================================================================
