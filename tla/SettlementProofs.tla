-------------------------- MODULE SettlementProofs --------------------------
(***************************************************************************)
(* Proofs about Settlement, for any series, lookback, backoff, number of   *)
(* windows and number of failures and restarts.                            *)
(*                                                                         *)
(* The rows of a window stay single because the two seen sets cover what   *)
(* is in the sink: SeenIsLabelled for the labels and MarkersSeen for the   *)
(* markers.  A restart keeps both, since what primes the new process is    *)
(* what the crash leaves.                                                  *)
(*                                                                         *)
(* The records of a market are in order because a label is only written    *)
(* once the result is determined and a marker only before; what ties the   *)
(* window_start of the one to that of the other is the window in which the *)
(* result came (WellDated), which neither row knows of the other.          *)
(***************************************************************************)
EXTENDS Settlement, SequenceTheorems, FiniteSetTheorems, TLAPS

-----------------------------------------------------------------------------
(***************************************************************************)
(* The inductive invariant                                                 *)
(***************************************************************************)

\* Discovery does not mark a window again whose marker is in the sink.
MarkersSeen ==
    \A a \in Assets : \A i \in 1 .. Len(log[a]) :
        log[a][i].kind = "marker" => <<a, log[a][i].of>> \in seenOpen

\* What the window_start of a row has to do with the window in which the result
\* of its market came, or the running one if there is no result yet.
WellDated(a, row) ==
    LET d == decidedIn[<<a, row.of>>]
    IN  /\ row.kind = "label" =>
              d # 0 /\ row.window = IF <<a, row.of>> \in Undated THEN d ELSE row.of
        /\ row.kind = "marker" =>
              /\ <<a, row.of>> \notin Undated => row.window = row.of
              /\ row.window <= IF d = 0 THEN settled[a] + 1 ELSE d

RecordsDated ==
    \A a \in Assets : \A i \in 1 .. Len(log[a]) : WellDated(a, log[a][i])

\* The marker of a market comes before its label.
MarkersFirst ==
    \A a \in Assets : \A i, j \in 1 .. Len(log[a]) :
        (log[a][i].kind = "marker" /\ log[a][j].kind = "label"
            /\ log[a][i].of = log[a][j].of) => i < j

\* SeenIsLabelled, market by market.
SeenInv ==
    \A a \in Assets, w \in Windows :
        <<a, w>> \in seen <=> <<a, w>> \in refused \/ Has("label", a, w, Len(log[a]))

\* The conjuncts of IInv that the rows can disturb.
RecordsInv ==
    SeenInv /\ MarkersSeen /\ OneRecordPerWindow /\ RecordsDated /\ MarkersFirst

IInv == TypeOK /\ RecordsInv

-----------------------------------------------------------------------------
(***************************************************************************)
(* The operators                                                           *)
(***************************************************************************)
LEMMA SeriesFacts ==
    /\ Series \in Seq(Assets) /\ Series # <<>>
    /\ MaxWindows \in Nat
    /\ INITIAL_BACKOFF \in Nat \ {0} /\ MAX_BACKOFF \in Nat
    /\ INITIAL_BACKOFF <= MAX_BACKOFF
BY SeriesAssumption, BoundAssumption, BackoffAssumption

\* Every listed window is over.
LEMMA ListedFacts ==
    ASSUME TypeOK, NEW a \in Assets
    PROVE  /\ Len(Listed(a)) \in Nat
           /\ \A i \in 1 .. Len(Listed(a)) :
                 Listed(a)[i] \in Windows /\ Listed(a)[i] <= settled[a]
<1>. DEFINE k == IF settled[a] < Lookback THEN settled[a] ELSE Lookback
<1>1. settled[a] \in 0 .. MaxWindows /\ MaxWindows \in Nat
  BY SeriesFacts DEF TypeOK
<1>2. k \in Nat /\ k <= settled[a]
  BY <1>1, LookbackAssumption
<1>3. Listed(a) = [i \in 1 .. k |-> settled[a] + 1 - i]
  BY DEF Listed
<1>. HIDE DEF k
<1>4. Len(Listed(a)) = k
  BY <1>2, <1>3
<1>. QED  BY <1>1, <1>2, <1>3, <1>4 DEF Windows

\* A record of the window is a row of its kind.
LEMMA RowFacts ==
    \A r \in Row : /\ r.kind \in {"marker", "label"}
                   /\ r.of \in Windows
                   /\ r.window \in Windows \cup {MaxWindows + 1}
BY DEF Row

LEMMA ParseSettledFacts ==
    ASSUME TypeOK, NEW a \in Assets, NEW w \in Windows, decidedIn[<<a, w>>] # 0
    PROVE  LET row == ParseSettled(a, w)
           IN  /\ row \in Row /\ row.kind = "label" /\ row.of = w
               /\ WellDated(a, row)
<1>1. <<a, w>> \in Markets /\ MaxWindows \in Nat /\ w \in 1 .. MaxWindows
  BY SeriesFacts DEF Markets, Windows
<1>2. decidedIn[<<a, w>>] \in 0 .. MaxWindows + 1
  BY <1>1 DEF TypeOK
<1>3. decidedIn[<<a, w>>] \in Windows \cup {MaxWindows + 1}
  BY <1>1, <1>2 DEF Windows
<1>. QED  BY <1>2, <1>3 DEF ParseSettled, Row, WellDated

\* A marker written while there is no result.
LEMMA ParseOpenFacts ==
    ASSUME TypeOK, NEW a \in Assets, NEW w \in Recent(a), decidedIn[<<a, w>>] = 0
    PROVE  LET row == ParseOpenMarket(a, w)
           IN  /\ w \in Windows /\ row \in Row /\ row.kind = "marker" /\ row.of = w
               /\ WellDated(a, row)
<1>1. /\ settled[a] \in 0 .. MaxWindows /\ LastWindow[a] \in 0 .. MaxWindows
      /\ MaxWindows \in Nat
  BY BoundAssumption DEF TypeOK
<1>2. w \in 1 .. MaxWindows /\ w <= settled[a] + 1
  BY <1>1 DEF Recent
<1>3. settled[a] + 1 \in 1 .. MaxWindows + 1
  BY <1>1
<1>4. w \in Windows /\ settled[a] + 1 \in Windows \cup {MaxWindows + 1}
  BY <1>1, <1>2, <1>3 DEF Windows
<1>. QED  BY <1>1, <1>2, <1>4 DEF ParseOpenMarket, Row, WellDated

LEMMA NewestFirstFacts ==
    ASSUME NEW W \in SUBSET Windows, NEW s \in NewestFirst(W)
    PROVE  /\ s \in Seq(W)
           /\ \A w \in W : \E i \in 1 .. Len(s) : s[i] = w
           /\ \A i, j \in 1 .. Len(s) : s[i] = s[j] => i = j
<1>1. MaxWindows \in Nat /\ IsFiniteSet(1 .. MaxWindows)
  BY SeriesFacts, FS_Interval
<1>2. Cardinality(W) \in Nat
  BY <1>1, FS_Subset, FS_CardinalityType DEF Windows
<1>3. /\ s \in [1 .. Cardinality(W) -> W]
      /\ W = {s[i] : i \in DOMAIN s}
      /\ \A i, j \in DOMAIN s : i < j => s[i] > s[j]
  BY DEF NewestFirst, ToSet
<1>4. s \in Seq(W) /\ Len(s) = Cardinality(W) /\ DOMAIN s = 1 .. Len(s)
  BY <1>2, <1>3
<1>5. ASSUME NEW i \in 1 .. Len(s), NEW j \in 1 .. Len(s), s[i] = s[j]
      PROVE  i = j
  <2>1. s[i] \in 1 .. MaxWindows /\ s[j] \in 1 .. MaxWindows
    BY <1>3, <1>4 DEF Windows
  <2>2. ~(i < j) /\ ~(j < i)
    BY <1>1, <1>3, <1>4, <1>5, <2>1
  <2>. QED  BY <1>2, <1>4, <2>2
<1>. QED  BY <1>3, <1>4, <1>5

\* The effect of the loop over an answer: new are the rows written for asset a,
\* one for each of the fresh windows that was not lost.
Answered(a, fresh, lost, new) ==
    /\ \A w \in fresh : <<a, w>> \notin seen
    /\ seen' = seen \cup {<<a, w>> : w \in fresh}
    /\ refused' = refused \cup {<<a, w>> : w \in lost}
    /\ log' = [log EXCEPT ![a] = @ \o new]
    /\ \A i \in 1 .. Len(new) :
          /\ new[i].kind = "label" /\ new[i].of \in fresh \ lost
          /\ WellDated(a, new[i])
    /\ \A w \in fresh \ lost : \E i \in 1 .. Len(new) : new[i].of = w
    /\ \A i, j \in 1 .. Len(new) : new[i].of = new[j].of => i = j

LEMMA HandleFacts ==
    ASSUME TypeOK, NEW a \in Assets, NEW n \in 0 .. Len(Listed(a)),
           Handle(a, n)
    PROVE  /\ sinkFaults' \in Nat
           /\ \E fresh, lost \in SUBSET Windows : \E new \in Seq(Row) :
                 lost \subseteq fresh /\ Answered(a, fresh, lost, new)
<1>. DEFINE fresh == {w \in {Listed(a)[i] : i \in 1 .. n} :
                        decidedIn[<<a, w>>] # 0 /\ <<a, w>> \notin seen}
<1>1. fresh \in SUBSET Windows
  BY ListedFacts
<1>2. \A w \in fresh : decidedIn[<<a, w>>] # 0 /\ <<a, w>> \notin seen
  OBVIOUS
<1>3. PICK lost \in SUBSET fresh :
         /\ seen' = seen \cup {<<a, w>> : w \in fresh}
         /\ sinkFaults' = sinkFaults + Cardinality(lost)
         /\ refused' = refused \cup {<<a, w>> : w \in lost}
         /\ \E kept \in NewestFirst(fresh \ lost) :
               log' = [log EXCEPT ![a] =
                         @ \o [i \in DOMAIN kept |-> ParseSettled(a, kept[i])]]
  BY DEF Handle
<1>. HIDE DEF fresh
<1>4. PICK kept \in NewestFirst(fresh \ lost) :
         log' = [log EXCEPT ![a] =
                   @ \o [i \in DOMAIN kept |-> ParseSettled(a, kept[i])]]
  BY <1>3
<1>5. sinkFaults' \in Nat
  <2>1. MaxWindows \in Nat /\ IsFiniteSet(1 .. MaxWindows)
    BY SeriesFacts, FS_Interval
  <2>2. Cardinality(lost) \in Nat
    BY <1>1, <2>1, FS_Subset, FS_CardinalityType DEF Windows
  <2>. QED  BY <1>3, <2>2 DEF TypeOK
<1>. DEFINE new == [i \in 1 .. Len(kept) |-> ParseSettled(a, kept[i])]
<1>6. /\ kept \in Seq(fresh \ lost) /\ Len(kept) \in Nat /\ DOMAIN kept = 1 .. Len(kept)
      /\ \A i \in 1 .. Len(kept) : kept[i] \in fresh \ lost
      /\ \A w \in fresh \ lost : \E i \in 1 .. Len(kept) : kept[i] = w
      /\ \A i, j \in 1 .. Len(kept) : kept[i] = kept[j] => i = j
  <2>. DEFINE W == fresh \ lost
  <2>1. W \in SUBSET Windows /\ kept \in NewestFirst(W)
    BY <1>1
  <2>. HIDE DEF W
  <2>2. /\ kept \in Seq(W)
        /\ \A w \in W : \E i \in 1 .. Len(kept) : kept[i] = w
        /\ \A i, j \in 1 .. Len(kept) : kept[i] = kept[j] => i = j
    BY <2>1, NewestFirstFacts
  <2>3. Len(kept) \in Nat /\ DOMAIN kept = 1 .. Len(kept) /\ kept \in [1 .. Len(kept) -> W]
    BY <2>2, LenProperties
  <2>. QED  BY <2>2, <2>3 DEF W
<1>7. ASSUME NEW i \in 1 .. Len(kept)
      PROVE  LET row == ParseSettled(a, kept[i])
             IN  /\ row \in Row /\ row.kind = "label" /\ row.of = kept[i]
                 /\ WellDated(a, row)
  <2>1. kept[i] \in Windows /\ decidedIn[<<a, kept[i]>>] # 0
    BY <1>1, <1>2, <1>6
  <2>. QED  BY <2>1, ParseSettledFacts
<1>8. /\ new \in Seq(Row) /\ Len(new) = Len(kept)
      /\ \A i \in 1 .. Len(new) : new[i] = ParseSettled(a, kept[i])
  <2>1. new \in [1 .. Len(kept) -> Row]
    BY <1>7
  <2>. HIDE DEF new
  <2>2. new \in Seq(Row) /\ Len(new) = Len(kept)
    BY <1>6, <2>1
  <2>. QED  BY <2>2 DEF new
<1>9. log' = [log EXCEPT ![a] = @ \o new]
  BY <1>4, <1>6
<1>10. Answered(a, fresh, lost, new)
  <2>. HIDE DEF new
  <2>1. \A i \in 1 .. Len(new) : new[i].of = kept[i] /\ new[i].kind = "label"
    BY <1>7, <1>8
  <2>2. \A i \in 1 .. Len(new) : WellDated(a, new[i])
    BY <1>7, <1>8
  <2>3. /\ \A i \in 1 .. Len(new) : new[i].of \in fresh \ lost
        /\ \A w \in fresh \ lost : \E i \in 1 .. Len(new) : new[i].of = w
        /\ \A i, j \in 1 .. Len(new) : new[i].of = new[j].of => i = j
    BY <1>6, <1>8, <2>1
  <2>. QED  BY <1>2, <1>3, <1>9, <2>1, <2>2, <2>3 DEF Answered
<1>. QED  BY <1>1, <1>5, <1>8, <1>10

\* What an answer or a marker does to the logs.
LEMMA LogExtended ==
    ASSUME TypeOK, NEW a \in Assets, NEW new \in Seq(Row),
           log' = [log EXCEPT ![a] = @ \o new]
    PROVE  /\ log' \in [Assets -> Seq(Row)]
           /\ Len(log[a]) \in Nat /\ Len(new) \in Nat
           /\ Len(log'[a]) = Len(log[a]) + Len(new)
           /\ \A i \in 1 .. Len(log[a]) : log'[a][i] = log[a][i]
           /\ \A i \in 1 .. Len(new) : log'[a][Len(log[a]) + i] = new[i]
           /\ \A i \in 1 .. Len(log'[a]) :
                 i \in 1 .. Len(log[a]) \/ i - Len(log[a]) \in 1 .. Len(new)
           /\ \A b \in Assets \ {a} : log'[b] = log[b]
<1>. DEFINE S == Seq(Row)
<1>1. log \in [Assets -> S] /\ log[a] \in S /\ new \in S
  BY DEF TypeOK
<1>2. /\ log[a] \o new \in S
      /\ Len(log[a] \o new) = Len(log[a]) + Len(new)
      /\ Len(log[a]) \in Nat /\ Len(new) \in Nat
      /\ \A i \in 1 .. Len(log[a]) + Len(new) : (log[a] \o new)[i] =
            IF i <= Len(log[a]) THEN log[a][i] ELSE new[i - Len(log[a])]
  BY <1>1, ConcatProperties, LenProperties
<1>. HIDE DEF S
<1>3. /\ log' \in [Assets -> S] /\ log'[a] = log[a] \o new
      /\ \A b \in Assets \ {a} : log'[b] = log[b]
  BY <1>1, <1>2
<1>4. /\ Len(log'[a]) = Len(log[a]) + Len(new)
      /\ \A i \in 1 .. Len(log[a]) + Len(new) : log'[a][i] =
            IF i <= Len(log[a]) THEN log[a][i] ELSE new[i - Len(log[a])]
  BY <1>2, <1>3
<1>5. \A i \in 1 .. Len(new) : log'[a][Len(log[a]) + i] = new[i]
  <2>. TAKE i \in 1 .. Len(new)
  <2>1. /\ Len(log[a]) + i \in 1 .. Len(log[a]) + Len(new)
        /\ ~(Len(log[a]) + i <= Len(log[a]))
        /\ Len(log[a]) + i - Len(log[a]) = i
    BY <1>2
  <2>. QED  BY <1>4, <2>1
<1>6. \A i \in 1 .. Len(log[a]) : log'[a][i] = log[a][i]
  BY <1>2, <1>4
<1>7. \A i \in 1 .. Len(log'[a]) :
         i \in 1 .. Len(log[a]) \/ i - Len(log[a]) \in 1 .. Len(new)
  BY <1>2, <1>4
<1>. QED  BY <1>2, <1>3, <1>4, <1>5, <1>6, <1>7 DEF S

\* A marker is appended, or the sink refuses it.
Marked(a, w, r) ==
    /\ <<a, w>> \notin seenOpen /\ decidedIn[<<a, w>>] = 0
    /\ seenOpen' = seenOpen \cup {<<a, w>>}
    /\ r.kind = "marker" /\ r.of = w /\ WellDated(a, r)
    /\ \/ log' = [log EXCEPT ![a] = @ \o <<r>>] /\ sinkFaults' = sinkFaults
       \/ log' = log /\ sinkFaults' = sinkFaults + 1

LEMMA MarkerFacts ==
    ASSUME TypeOK, NEW a \in Assets, OpenMarker(a)
    PROVE  \E w \in Windows, r \in Row : Marked(a, w, r)
<1>1. PICK w \in Recent(a) :
         /\ decidedIn[<<a, w>>] = 0 /\ <<a, w>> \notin seenOpen
         /\ seenOpen' = seenOpen \cup {<<a, w>>}
         /\ \/ log' = [log EXCEPT ![a] = Append(@, ParseOpenMarket(a, w))]
               /\ sinkFaults' = sinkFaults
            \/ sinkFaults' = sinkFaults + 1 /\ log' = log
  BY DEF OpenMarker
<1>. DEFINE r == ParseOpenMarket(a, w)
<1>2. w \in Windows /\ r \in Row /\ r.kind = "marker" /\ r.of = w /\ WellDated(a, r)
  BY <1>1, ParseOpenFacts
<1>. HIDE DEF r
<1>3. log[a] \in Seq(Row)
  BY DEF TypeOK
<1>4. Append(log[a], r) = log[a] \o <<r>>
  BY <1>2, <1>3, AppendIsConcat
<1>5. Marked(a, w, r)
  BY <1>1, <1>2, <1>4 DEF Marked, r
<1>. QED  BY <1>2, <1>5

\* What a crash leaves.
LEMMA CrashFacts ==
    ASSUME TypeOK, Restart
    PROVE  /\ log' \in [Assets -> Seq(Row)] /\ durable' = durable
           /\ \A a \in Assets :
                 /\ durable[a] \in Nat /\ Len(log[a]) \in Nat
                 /\ Len(log'[a]) = durable[a]
                 /\ 1 .. durable[a] \subseteq 1 .. Len(log[a])
                 /\ \A i \in 1 .. durable[a] : log'[a][i] = log[a][i]
<1>. DEFINE S == Row
<1>1. log \in [Assets -> Seq(S)] /\ durable \in [Assets -> Nat]
      /\ \A a \in Assets : durable[a] <= Len(log[a])
  BY DEF TypeOK
<1>2. durable' = durable /\ log' = [k \in Assets |-> SubSeq(log[k], 1, durable[k])]
  BY DEF Restart, Sink!Crash
<1>. HIDE DEF S
<1>3. ASSUME NEW a \in Assets
      PROVE  /\ durable[a] \in Nat /\ Len(log[a]) \in Nat /\ log'[a] \in Seq(S)
             /\ Len(log'[a]) = durable[a]
             /\ 1 .. durable[a] \subseteq 1 .. Len(log[a])
             /\ \A i \in 1 .. durable[a] : log'[a][i] = log[a][i]
  <2>1. log[a] \in Seq(S) /\ durable[a] \in Nat /\ durable[a] <= Len(log[a])
        /\ Len(log[a]) \in Nat /\ log'[a] = SubSeq(log[a], 1, durable[a])
    BY <1>1, <1>2
  <2>2. \A i \in 1 .. Len(log[a]) : log[a][i] \in S
    BY <2>1
  <2>. QED  BY <2>1, <2>2
<1>4. log' \in [Assets -> Seq(S)]
  BY <1>2, <1>3
<1>. QED  BY <1>2, <1>3, <1>4 DEF S

-----------------------------------------------------------------------------
(***************************************************************************)
(* Types                                                                   *)
(***************************************************************************)
LEMMA NextSeriesType ==
    ASSUME TypeOK, pc = "fetch"
    PROVE  /\ Head(todo) \in Assets
           /\ NextSeries => /\ todo' \in Seq(Assets)
                            /\ pc' \in {"fetch", "sleep"}
                            /\ pc' = "fetch" <=> todo' # <<>>
                            /\ backoff' \in INITIAL_BACKOFF .. MAX_BACKOFF
<1>1. todo \in Seq(Assets) /\ todo # <<>>
  BY DEF TypeOK
<1>2. Head(todo) \in Assets /\ Tail(todo) \in Seq(Assets)
      /\ Len(todo) \in Nat \ {0} /\ Len(Tail(todo)) = Len(todo) - 1
  BY <1>1
<1>3. Tail(todo) # <<>> <=> Len(todo) > 1
  BY <1>2, EmptySeq
<1>4. INITIAL_BACKOFF \in INITIAL_BACKOFF .. MAX_BACKOFF
      /\ backoff \in INITIAL_BACKOFF .. MAX_BACKOFF
  BY SeriesFacts DEF TypeOK
<1>. QED  BY <1>2, <1>3, <1>4 DEF NextSeries

LEMMA RoundFailsType ==
    ASSUME TypeOK, RoundFails
    PROVE  /\ todo' = <<>> /\ todo' \in Seq(Assets) /\ pc' = "sleep" /\ faults' \in Nat
           /\ backoff' \in INITIAL_BACKOFF .. MAX_BACKOFF
BY SeriesFacts DEF TypeOK, RoundFails

\* The variables an answer writes are of their type again.
LEMMA HandleType ==
    ASSUME TypeOK, NEW a \in Assets, NEW n \in 0 .. Len(Listed(a)),
           Handle(a, n), durable' = durable
    PROVE  /\ seen' \subseteq Markets /\ refused' \subseteq Markets
           /\ sinkFaults' \in Nat /\ log' \in [Assets -> Seq(Row)]
           /\ \A b \in Assets : durable'[b] <= Len(log'[b])
<1>1. PICK fresh \in SUBSET Windows, lost \in SUBSET Windows, new \in Seq(Row) :
         lost \subseteq fresh /\ Answered(a, fresh, lost, new)
  BY HandleFacts
<1>2. sinkFaults' \in Nat
  BY HandleFacts
<1>3. seen' \subseteq Markets /\ refused' \subseteq Markets
  BY <1>1 DEF Answered, TypeOK, Markets
<1>4. log' = [log EXCEPT ![a] = @ \o new]
  BY <1>1 DEF Answered
<1>5. /\ log' \in [Assets -> Seq(Row)]
      /\ Len(log[a]) \in Nat /\ Len(new) \in Nat
      /\ Len(log'[a]) = Len(log[a]) + Len(new)
      /\ \A b \in Assets \ {a} : log'[b] = log[b]
  BY <1>4, LogExtended
<1>6. \A b \in Assets : durable[b] \in Nat /\ durable[b] <= Len(log[b])
  BY DEF TypeOK
<1>7. ASSUME NEW b \in Assets
      PROVE  durable'[b] <= Len(log'[b])
  BY <1>5, <1>6
<1>. QED  BY <1>2, <1>3, <1>5, <1>7

LEMMA FetchOKType ==
    ASSUME TypeOK, FetchOK
    PROVE  TypeOK'
<1>1. Head(todo) \in Assets /\ pc = "fetch"
  BY NextSeriesType DEF FetchOK
<1>2. /\ todo' \in Seq(Assets) /\ pc' \in {"fetch", "sleep"}
      /\ pc' = "fetch" <=> todo' # <<>>
      /\ backoff' \in INITIAL_BACKOFF .. MAX_BACKOFF
  BY NextSeriesType DEF FetchOK
<1>3. Len(Listed(Head(todo))) \in 0 .. Len(Listed(Head(todo)))
  BY <1>1, ListedFacts
<1>4. Handle(Head(todo), Len(Listed(Head(todo)))) /\ durable' = durable
  BY DEF FetchOK
<1>5. /\ seen' \subseteq Markets /\ refused' \subseteq Markets
      /\ sinkFaults' \in Nat /\ log' \in [Assets -> Seq(Row)]
      /\ \A b \in Assets : durable'[b] <= Len(log'[b])
  BY <1>1, <1>3, <1>4, HandleType
<1>. QED  BY <1>2, <1>5 DEF FetchOK, TypeOK, exchangeVars

LEMMA AnswerInvalidType ==
    ASSUME TypeOK, AnswerInvalid
    PROVE  TypeOK'
<1>1. Head(todo) \in Assets
  BY NextSeriesType DEF AnswerInvalid
<1>2. PICK n \in 0 .. Len(Listed(Head(todo))) : Handle(Head(todo), n)
  BY DEF AnswerInvalid
<1>3. /\ seen' \subseteq Markets /\ refused' \subseteq Markets
      /\ sinkFaults' \in Nat /\ log' \in [Assets -> Seq(Row)]
      /\ \A b \in Assets : durable'[b] <= Len(log'[b])
  BY <1>1, <1>2, HandleType DEF AnswerInvalid
<1>4. /\ todo' = <<>> /\ todo' \in Seq(Assets) /\ pc' = "sleep" /\ faults' \in Nat
      /\ backoff' \in INITIAL_BACKOFF .. MAX_BACKOFF
  BY RoundFailsType DEF AnswerInvalid
<1>. QED  BY <1>3, <1>4 DEF AnswerInvalid, TypeOK, exchangeVars

LEMMA OpenMarkerType ==
    ASSUME TypeOK, NEW a \in Assets, OpenMarker(a)
    PROVE  TypeOK'
<1>1. PICK w \in Windows, r \in Row : Marked(a, w, r)
  BY MarkerFacts
<1>2. seenOpen' \subseteq Markets
  BY <1>1 DEF Marked, TypeOK, Markets
<1>3. sinkFaults' \in Nat
  BY <1>1 DEF Marked, TypeOK
<1>4. durable' = durable /\ \A b \in Assets : durable[b] \in Nat /\ durable[b] <= Len(log[b])
  BY DEF TypeOK, OpenMarker
<1>5. log' \in [Assets -> Seq(Row)] /\ \A b \in Assets : durable'[b] <= Len(log'[b])
  <2>1. CASE log' = log
    BY <1>4, <2>1 DEF TypeOK
  <2>2. CASE log' = [log EXCEPT ![a] = @ \o <<r>>]
    <3>. DEFINE new == <<r>>
    <3>1. new \in Seq(Row) /\ log' = [log EXCEPT ![a] = @ \o new]
      BY <2>2
    <3>. HIDE DEF new
    <3>2. /\ log' \in [Assets -> Seq(Row)]
          /\ Len(log[a]) \in Nat /\ Len(new) \in Nat
          /\ Len(log'[a]) = Len(log[a]) + Len(new)
          /\ \A b \in Assets \ {a} : log'[b] = log[b]
      BY <3>1, LogExtended
    <3>3. ASSUME NEW b \in Assets
          PROVE  durable'[b] <= Len(log'[b])
      BY <1>4, <3>2
    <3>. QED  BY <3>2, <3>3
  <2>. QED  BY <1>1, <2>1, <2>2 DEF Marked
<1>. QED  BY <1>2, <1>3, <1>4, <1>5 DEF OpenMarker, TypeOK, exchangeVars, pollVars

LEMMA RestartType ==
    ASSUME TypeOK, Restart
    PROVE  TypeOK'
<1>1. /\ log' \in [Assets -> Seq(Row)] /\ durable' = durable
      /\ \A a \in Assets : durable[a] \in Nat /\ Len(log'[a]) = durable[a]
  BY CrashFacts
<1>2. seen' \subseteq Markets /\ seenOpen' \subseteq Markets /\ refused' = {}
  BY DEF Restart, Primed
<1>3. durable' \in [Assets -> Nat] /\ \A a \in Assets : durable'[a] <= Len(log'[a])
  BY <1>1 DEF TypeOK
<1>4. /\ stop' = FALSE /\ pc' = "top" /\ key' = FALSE /\ todo' = <<>>
      /\ backoff' \in INITIAL_BACKOFF .. MAX_BACKOFF /\ restarts' \in Nat
      /\ todo' \in Seq(Assets)
  BY SeriesFacts DEF Restart, TypeOK
<1>. QED  BY <1>1, <1>2, <1>3, <1>4 DEF Restart, TypeOK, exchangeVars

LEMMA FlushType ==
    ASSUME TypeOK, NEW a \in Assets, Flush(a)
    PROVE  TypeOK'
<1>1. log' = log /\ \E n \in durable[a] .. Len(log[a]) : durable' = [durable EXCEPT ![a] = n]
  BY DEF Flush, Sink!Persist
<1>2. durable \in [Assets -> Nat] /\ log[a] \in Seq(Row)
  BY DEF TypeOK
<1>3. /\ durable' \in [Assets -> Nat]
      /\ durable'[a] <= Len(log[a])
      /\ \A b \in Assets \ {a} : durable'[b] = durable[b]
  BY <1>1, <1>2
<1>4. \A b \in Assets : durable'[b] <= Len(log'[b])
  BY <1>1, <1>3 DEF TypeOK
<1>. QED  BY <1>1, <1>3, <1>4 DEF Flush, TypeOK, exchangeVars, pollVars

LEMMA ExchangeType ==
    ASSUME TypeOK, Exchange
    PROVE  TypeOK'
<1>1. PICK a \in Assets : Settle(a) \/ \E w \in Windows : Determine(a, w)
  BY DEF Exchange
<1>2. LastWindow[a] \in 0 .. MaxWindows /\ settled[a] \in 0 .. MaxWindows /\ MaxWindows \in Nat
  BY BoundAssumption DEF TypeOK
<1>3. CASE Settle(a)
  <2>1. settled[a] + 1 \in 0 .. MaxWindows
    BY <1>2, <1>3 DEF Settle
  <2>2. settled' \in [Assets -> 0 .. MaxWindows]
    BY <1>3, <2>1 DEF Settle, TypeOK
  <2>. QED  BY <1>3, <2>2 DEF Settle, TypeOK, sinkVars, pollVars
<1>4. CASE \E w \in Windows : Determine(a, w)
  <2>1. PICK w \in Windows : Determine(a, w)
    BY <1>4
  <2>2. settled[a] + 1 \in 0 .. MaxWindows + 1
    BY <1>2
  <2>. QED  BY <2>1, <2>2 DEF Determine, TypeOK, sinkVars, pollVars
<1>. QED  BY <1>1, <1>3, <1>4

LEMMA TypeNext == TypeOK /\ [Next]_vars => TypeOK'
<1>. SUFFICES ASSUME TypeOK, [Next]_vars
              PROVE  TypeOK'
  OBVIOUS
<1>1. CASE StartRound
  BY <1>1, SeriesFacts DEF StartRound, TypeOK, exchangeVars, sinkVars
<1>2. CASE FetchOK
  BY <1>2, FetchOKType
<1>3. CASE SleepEnds
  BY <1>3 DEF SleepEnds, TypeOK, exchangeVars, sinkVars
<1>4. CASE CredsFail
  BY <1>4, RoundFailsType DEF CredsFail, TypeOK, exchangeVars, sinkVars
<1>5. CASE FetchFails
  <2>1. /\ todo' \in Seq(Assets) /\ pc' \in {"fetch", "sleep"}
        /\ pc' = "fetch" <=> todo' # <<>>
        /\ backoff' \in INITIAL_BACKOFF .. MAX_BACKOFF
    BY <1>5, NextSeriesType DEF FetchFails
  <2>2. faults' \in Nat
    BY <1>5 DEF FetchFails, TypeOK
  <2>. QED  BY <1>5, <2>1, <2>2 DEF FetchFails, TypeOK, exchangeVars, sinkVars
<1>6. CASE AnswerInvalid
  BY <1>6, AnswerInvalidType
<1>7. CASE Stop
  BY <1>7 DEF Stop, TypeOK, exchangeVars, sinkVars
<1>8. CASE Restart
  BY <1>8, RestartType
<1>9. CASE Exchange
  BY <1>9, ExchangeType
<1>10. CASE \E a \in Assets : OpenMarker(a) \/ Flush(a)
  BY <1>10, OpenMarkerType, FlushType
<1>11. CASE UNCHANGED vars
  BY <1>11 DEF vars, TypeOK
<1>. QED
  BY <1>1, <1>2, <1>3, <1>4, <1>5, <1>6, <1>7, <1>8, <1>9, <1>10, <1>11
  DEF Next, Poll, PollFaults, Finished

-----------------------------------------------------------------------------
(***************************************************************************)
(* The records                                                             *)
(***************************************************************************)

\* An answer writes labels of windows that were not seen: by SeenInv they have
\* no label yet.
LEMMA AnswerRecords ==
    ASSUME IInv, NEW a \in Assets, NEW n \in 0 .. Len(Listed(a)), Handle(a, n),
           seenOpen' = seenOpen, decidedIn' = decidedIn, settled' = settled
    PROVE  RecordsInv'
<1>1. PICK fresh \in SUBSET Windows, lost \in SUBSET Windows, new \in Seq(Row) :
         lost \subseteq fresh /\ Answered(a, fresh, lost, new)
  BY HandleFacts DEF IInv
<1>2. log' = [log EXCEPT ![a] = @ \o new]
  BY <1>1 DEF Answered
<1>3. /\ Len(log[a]) \in Nat /\ Len(new) \in Nat
      /\ Len(log'[a]) = Len(log[a]) + Len(new)
      /\ \A i \in 1 .. Len(log[a]) : log'[a][i] = log[a][i]
      /\ \A i \in 1 .. Len(new) : log'[a][Len(log[a]) + i] = new[i]
      /\ \A i \in 1 .. Len(log'[a]) :
            i \in 1 .. Len(log[a]) \/ i - Len(log[a]) \in 1 .. Len(new)
      /\ \A b \in Assets \ {a} : log'[b] = log[b]
  BY <1>2, LogExtended DEF IInv
<1>. DEFINE old == Len(log[a])
            All == Len(log'[a])
<1>4. ASSUME NEW i \in 1 .. All, i \notin 1 .. old
      PROVE  /\ i - old \in 1 .. Len(new) /\ log'[a][i] = new[i - old]
             /\ log'[a][i].kind = "label" /\ log'[a][i].of \in fresh \ lost
             /\ <<a, log'[a][i].of>> \notin seen
  <2>1. i - old \in 1 .. Len(new) /\ old + (i - old) = i
    BY <1>3, <1>4
  <2>2. log'[a][i] = new[i - old]
    BY <1>3, <2>1
  <2>. QED  BY <1>1, <2>1, <2>2 DEF Answered
<1>5. ASSUME NEW b \in Assets, NEW w \in Windows
      PROVE  Has("label", b, w, Len(log[b]))' <=>
                Has("label", b, w, Len(log[b])) \/ (b = a /\ w \in fresh \ lost)
  <2>1. CASE b # a
    BY <1>3, <2>1 DEF Has
  <2>2. CASE b = a
    <3>1. ASSUME NEW i \in 1 .. old, log[a][i].kind = "label", log[a][i].of = w
          PROVE  Has("label", a, w, Len(log[a]))'
      <4>1. i \in 1 .. Len(log'[a]) /\ log'[a][i] = log[a][i]
        BY <1>3
      <4>. QED  BY <3>1, <4>1 DEF Has
    <3>2. ASSUME w \in fresh \ lost
          PROVE  Has("label", a, w, Len(log[a]))'
      <4>1. PICK i \in 1 .. Len(new) : new[i].of = w
        BY <1>1, <3>2 DEF Answered
      <4>2. old + i \in 1 .. Len(log'[a]) /\ log'[a][old + i] = new[i]
        BY <1>3
      <4>3. new[i].kind = "label"
        BY <1>1 DEF Answered
      <4>. QED  BY <4>1, <4>2, <4>3 DEF Has
    <3>3. ASSUME NEW i \in 1 .. All, log'[a][i].kind = "label", log'[a][i].of = w
          PROVE  Has("label", a, w, Len(log[a])) \/ w \in fresh \ lost
      BY <1>3, <1>4, <3>3 DEF Has
    <3>. QED  BY <2>2, <3>1, <3>2, <3>3 DEF Has
  <2>. QED  BY <2>1, <2>2
<1>6. SeenInv'
  <2>1. ASSUME NEW b \in Assets, NEW w \in Windows
        PROVE  /\ <<b, w>> \in seen' <=> <<b, w>> \in seen \/ (b = a /\ w \in fresh)
               /\ <<b, w>> \in refused' <=> <<b, w>> \in refused \/ (b = a /\ w \in lost)
    BY <1>1 DEF Answered
  <2>. QED  BY <1>1, <1>5, <2>1 DEF SeenInv, IInv, RecordsInv
<1>7. MarkersSeen'
  <2>1. ASSUME NEW b \in Assets, NEW i \in 1 .. Len(log'[b]), log'[b][i].kind = "marker"
        PROVE  <<b, log'[b][i].of>> \in seenOpen
    <3>1. CASE b # a
      BY <1>3, <2>1, <3>1 DEF MarkersSeen, IInv, RecordsInv
    <3>2. CASE b = a
      BY <1>3, <1>4, <2>1, <3>2 DEF MarkersSeen, IInv, RecordsInv
    <3>. QED  BY <3>1, <3>2
  <2>. QED  BY <2>1 DEF MarkersSeen
<1>8. OneRecordPerWindow'
  <2>1. ASSUME NEW i \in 1 .. old, NEW j \in 1 .. All, j \notin 1 .. old
        PROVE  ~(log'[a][i].kind = log'[a][j].kind /\ log'[a][i].of = log'[a][j].of)
    <3>1. SUFFICES ASSUME log[a][i].kind = "label", log[a][i].of = log'[a][j].of
                   PROVE  FALSE
      BY <1>3, <1>4, <2>1
    <3>2. log'[a][j].of \in Windows
      BY <1>1, <1>4, <2>1
    <3>3. <<a, log'[a][j].of>> \in seen
      BY <3>1, <3>2 DEF SeenInv, Has, IInv, RecordsInv
    <3>. QED  BY <1>4, <2>1, <3>3
  <2>2. ASSUME NEW i \in 1 .. All, NEW j \in 1 .. All, i \notin 1 .. old,
               j \notin 1 .. old, log'[a][i].of = log'[a][j].of
        PROVE  i = j
    <3>1. /\ i - old \in 1 .. Len(new) /\ log'[a][i] = new[i - old]
          /\ j - old \in 1 .. Len(new) /\ log'[a][j] = new[j - old]
      BY <1>4, <2>2
    <3>2. \A k, l \in 1 .. Len(new) : new[k].of = new[l].of => k = l
      BY <1>1 DEF Answered
    <3>3. i - old = j - old
      BY <2>2, <3>1, <3>2
    <3>. QED  BY <1>3, <3>3
  <2>3. ASSUME NEW i \in 1 .. All, NEW j \in 1 .. All,
               log'[a][i].kind = log'[a][j].kind, log'[a][i].of = log'[a][j].of
        PROVE  i = j
    <3>1. CASE i \in 1 .. old /\ j \in 1 .. old
      BY <1>3, <2>3, <3>1 DEF OneRecordPerWindow, IInv, RecordsInv
    <3>. QED  BY <2>1, <2>2, <2>3, <3>1
  <2>. QED  BY <1>3, <2>3 DEF OneRecordPerWindow, IInv, RecordsInv
<1>9. RecordsDated'
  <2>1. ASSUME NEW b \in Assets, NEW i \in 1 .. Len(log'[b])
        PROVE  WellDated(b, log'[b][i])
    <3>1. CASE b # a
      BY <1>3, <3>1 DEF RecordsDated, IInv, RecordsInv
    <3>2. CASE b = a /\ i \in 1 .. old
      BY <1>3, <3>2 DEF RecordsDated, IInv, RecordsInv
    <3>3. CASE b = a /\ i \notin 1 .. old
      <4>1. i - old \in 1 .. Len(new) /\ log'[a][i] = new[i - old]
        BY <1>4, <3>3
      <4>. QED  BY <1>1, <3>3, <4>1 DEF Answered
    <3>. QED  BY <3>1, <3>2, <3>3
  <2>. QED  BY <2>1 DEF RecordsDated, WellDated
<1>10. MarkersFirst'
  <2>1. ASSUME NEW i \in 1 .. All, NEW j \in 1 .. All, log'[a][i].kind = "marker",
               log'[a][j].kind = "label", log'[a][i].of = log'[a][j].of
        PROVE  i < j
    <3>1. i \in 1 .. old /\ log'[a][i] = log[a][i]
      BY <1>3, <1>4, <2>1
    <3>2. CASE j \in 1 .. old
      BY <1>3, <2>1, <3>1, <3>2 DEF MarkersFirst, IInv, RecordsInv
    <3>3. CASE j \notin 1 .. old
      BY <1>3, <3>1, <3>3
    <3>. QED  BY <3>2, <3>3
  <2>. QED  BY <1>3, <2>1 DEF MarkersFirst, IInv, RecordsInv
<1>. QED  BY <1>6, <1>7, <1>8, <1>9, <1>10 DEF RecordsInv

\* A marker is written for a window discovery has not seen: by MarkersSeen it
\* has no marker yet; and for one without a result, which by RecordsDated has no
\* label either.
LEMMA MarkerRecords ==
    ASSUME IInv, NEW a \in Assets, NEW w \in Windows, NEW r \in Row, Marked(a, w, r),
           log' = [log EXCEPT ![a] = @ \o <<r>>],
           seen' = seen, refused' = refused, decidedIn' = decidedIn, settled' = settled
    PROVE  RecordsInv'
<1>. DEFINE old == Len(log[a])
<1>1. <<a, w>> \notin seenOpen /\ seenOpen' = seenOpen \cup {<<a, w>>}
      /\ decidedIn[<<a, w>>] = 0
  BY DEF Marked
<1>2. r.kind = "marker" /\ r.of = w /\ WellDated(a, r)
  BY DEF Marked
<1>3. seen' = seen /\ refused' = refused
  OBVIOUS
<1>4. /\ old \in Nat /\ Len(log'[a]) = old + 1
      /\ \A i \in 1 .. old : log'[a][i] = log[a][i]
      /\ log'[a][old + 1] = r
      /\ \A b \in Assets \ {a} : log'[b] = log[b]
  <2>. DEFINE new == <<r>>
  <2>1. new \in Seq(Row) /\ Len(new) = 1 /\ new[1] = r
        /\ log' = [log EXCEPT ![a] = @ \o new]
    OBVIOUS
  <2>. HIDE DEF new
  <2>2. /\ old \in Nat /\ Len(log'[a]) = old + Len(new)
        /\ \A i \in 1 .. old : log'[a][i] = log[a][i]
        /\ \A i \in 1 .. Len(new) : log'[a][old + i] = new[i]
        /\ \A b \in Assets \ {a} : log'[b] = log[b]
    BY <2>1, LogExtended DEF IInv
  <2>. QED  BY <2>1, <2>2
<1>5. \A i \in 1 .. Len(log'[a]) : i \in 1 .. old \/ i = old + 1
  BY <1>4
<1>6. ASSUME NEW b \in Assets, NEW v \in Windows
      PROVE  Has("label", b, v, Len(log[b]))' <=> Has("label", b, v, Len(log[b]))
  <2>1. CASE b # a
    BY <1>4, <2>1 DEF Has
  <2>2. CASE b = a
    <3>1. ASSUME NEW i \in 1 .. old, log[a][i].kind = "label", log[a][i].of = v
          PROVE  Has("label", a, v, Len(log[a]))'
      <4>1. i \in 1 .. Len(log'[a]) /\ log'[a][i] = log[a][i]
        BY <1>4
      <4>. QED  BY <3>1, <4>1 DEF Has
    <3>2. ASSUME NEW i \in 1 .. Len(log'[a]), log'[a][i].kind = "label",
                 log'[a][i].of = v
          PROVE  Has("label", a, v, Len(log[a]))
      BY <1>2, <1>4, <1>5, <3>2 DEF Has
    <3>. QED  BY <2>2, <3>1, <3>2 DEF Has
  <2>. QED  BY <2>1, <2>2
<1>7. SeenInv'
  BY <1>3, <1>6 DEF SeenInv, IInv, RecordsInv
<1>8. MarkersSeen'
  <2>1. ASSUME NEW b \in Assets, NEW i \in 1 .. Len(log'[b]), log'[b][i].kind = "marker"
        PROVE  <<b, log'[b][i].of>> \in seenOpen'
    <3>1. CASE b # a
      BY <1>1, <1>4, <2>1, <3>1 DEF MarkersSeen, IInv, RecordsInv
    <3>2. CASE b = a /\ i \in 1 .. old
      BY <1>1, <1>4, <2>1, <3>2 DEF MarkersSeen, IInv, RecordsInv
    <3>3. CASE b = a /\ i = old + 1
      BY <1>1, <1>2, <1>4, <3>3
    <3>. QED  BY <1>5, <2>1, <3>1, <3>2, <3>3
  <2>. QED  BY <2>1 DEF MarkersSeen
<1>9. OneRecordPerWindow'
  <2>1. ASSUME NEW i \in 1 .. old
        PROVE  ~(log'[a][i].kind = "marker" /\ log'[a][i].of = w)
    BY <1>1, <1>4, <2>1 DEF MarkersSeen, IInv, RecordsInv
  <2>2. ASSUME NEW i \in 1 .. Len(log'[a]), NEW j \in 1 .. Len(log'[a]),
               log'[a][i].kind = log'[a][j].kind, log'[a][i].of = log'[a][j].of
        PROVE  i = j
    <3>1. CASE i \in 1 .. old /\ j \in 1 .. old
      BY <1>4, <2>2, <3>1 DEF OneRecordPerWindow, IInv, RecordsInv
    <3>2. CASE i = old + 1 \/ j = old + 1
      BY <1>2, <1>4, <1>5, <2>1, <2>2, <3>2
    <3>. QED  BY <1>5, <3>1, <3>2
  <2>. QED  BY <1>4, <2>2 DEF OneRecordPerWindow, IInv, RecordsInv
<1>10. RecordsDated'
  <2>1. ASSUME NEW b \in Assets, NEW i \in 1 .. Len(log'[b])
        PROVE  WellDated(b, log'[b][i])
    <3>1. CASE b # a
      BY <1>4, <3>1 DEF RecordsDated, IInv, RecordsInv
    <3>2. CASE b = a /\ i \in 1 .. old
      BY <1>4, <3>2 DEF RecordsDated, IInv, RecordsInv
    <3>3. CASE b = a /\ i = old + 1
      BY <1>2, <1>4, <3>3
    <3>. QED  BY <1>5, <2>1, <3>1, <3>2, <3>3
  <2>2. decidedIn' = decidedIn /\ settled' = settled
    OBVIOUS
  <2>3. ASSUME NEW b \in Assets, NEW i \in 1 .. Len(log'[b])
        PROVE  WellDated(b, log[b][i])'
    <3>. DEFINE row == log'[b][i]
    <3>1. WellDated(b, row)
      BY <2>1
    <3>. QED  BY <2>2, <3>1 DEF WellDated
  <2>. QED  BY <2>3 DEF RecordsDated
<1>11. MarkersFirst'
  <2>1. ASSUME NEW i \in 1 .. old
        PROVE  ~(log[a][i].kind = "label" /\ log[a][i].of = w)
    BY <1>1, <2>1 DEF RecordsDated, WellDated, IInv, RecordsInv
  <2>2. ASSUME NEW i \in 1 .. Len(log'[a]), NEW j \in 1 .. Len(log'[a]),
               log'[a][i].kind = "marker", log'[a][j].kind = "label",
               log'[a][i].of = log'[a][j].of
        PROVE  i < j
    <3>1. j \in 1 .. old /\ log'[a][j] = log[a][j]
      BY <1>2, <1>4, <1>5, <2>2
    <3>2. i \in 1 .. old /\ log'[a][i] = log[a][i]
      BY <1>2, <1>4, <1>5, <2>1, <2>2, <3>1
    <3>. QED  BY <2>2, <3>1, <3>2 DEF MarkersFirst, IInv, RecordsInv
  <2>. QED  BY <1>4, <2>2 DEF MarkersFirst, IInv, RecordsInv
<1>. QED  BY <1>7, <1>8, <1>9, <1>10, <1>11 DEF RecordsInv

\* A marker the sink refuses leaves the rows alone.
LEMMA OpenMarkerRecords ==
    ASSUME IInv, NEW a \in Assets, OpenMarker(a)
    PROVE  RecordsInv'
<1>1. PICK w \in Windows, r \in Row : Marked(a, w, r)
  BY MarkerFacts DEF IInv
<1>2. seen' = seen /\ refused' = refused /\ decidedIn' = decidedIn /\ settled' = settled
  BY DEF OpenMarker, exchangeVars
<1>3. CASE log' = [log EXCEPT ![a] = @ \o <<r>>]
  BY <1>1, <1>2, <1>3, MarkerRecords
<1>4. CASE log' = log
  <2>1. seenOpen \subseteq seenOpen'
    BY <1>1 DEF Marked
  <2>2. SeenInv'
    BY <1>2, <1>4 DEF IInv, RecordsInv, SeenInv, Has
  <2>3. MarkersSeen'
    BY <1>4, <2>1 DEF IInv, RecordsInv, MarkersSeen
  <2>4. OneRecordPerWindow' /\ MarkersFirst'
    BY <1>4 DEF IInv, RecordsInv, OneRecordPerWindow, MarkersFirst
  <2>5. RecordsDated'
    BY <1>2, <1>4 DEF IInv, RecordsInv, RecordsDated, WellDated
  <2>. QED  BY <2>2, <2>3, <2>4, <2>5 DEF RecordsInv
<1>. QED  BY <1>1, <1>3, <1>4 DEF Marked

\* A restart leaves a prefix of each log and primes the seen sets from it.
LEMMA RestartRecords ==
    ASSUME IInv, Restart
    PROVE  RecordsInv'
<1>1. \A a \in Assets :
         /\ durable[a] \in Nat /\ Len(log'[a]) = durable[a]
         /\ 1 .. durable[a] \subseteq 1 .. Len(log[a])
         /\ \A i \in 1 .. durable[a] : log'[a][i] = log[a][i]
  BY CrashFacts DEF IInv
<1>2. seen' = Primed("label") /\ seenOpen' = Primed("marker") /\ refused' = {}
  BY DEF Restart
<1>3. ASSUME NEW a \in Assets, NEW w \in Windows, NEW kind
      PROVE  <<a, w>> \in Primed(kind) <=> Has(kind, a, w, Len(log[a]))'
  BY <1>1 DEF Primed, Has, Markets
<1>4. SeenInv'
  BY <1>2, <1>3 DEF SeenInv
<1>5. MarkersSeen'
  <2>1. ASSUME NEW a \in Assets, NEW i \in 1 .. Len(log'[a]), log'[a][i].kind = "marker"
        PROVE  <<a, log'[a][i].of>> \in seenOpen'
    <3>1. i \in 1 .. Len(log[a]) /\ log'[a][i] = log[a][i]
      BY <1>1, <2>1
    <3>2. log'[a][i].of \in Windows
      <4>1. log \in [Assets -> Seq(Row)]
        BY DEF IInv, TypeOK
      <4>2. log[a][i] \in Row
        BY <3>1, <4>1, ElementOfSeq
      <4>. QED  BY <3>1, <4>2, RowFacts
    <3>. QED  BY <1>2, <1>3, <2>1, <3>2 DEF Has
  <2>. QED  BY <2>1 DEF MarkersSeen
<1>6. OneRecordPerWindow'
  <2>1. ASSUME NEW a \in Assets, NEW i \in 1 .. Len(log'[a]), NEW j \in 1 .. Len(log'[a]),
               log'[a][i].kind = log'[a][j].kind, log'[a][i].of = log'[a][j].of
        PROVE  i = j
    <3>1. /\ i \in 1 .. Len(log[a]) /\ log'[a][i] = log[a][i]
          /\ j \in 1 .. Len(log[a]) /\ log'[a][j] = log[a][j]
      BY <1>1, <2>1
    <3>. QED  BY <2>1, <3>1 DEF OneRecordPerWindow, IInv, RecordsInv
  <2>. QED  BY <2>1 DEF OneRecordPerWindow
<1>7. RecordsDated'
  <2>1. decidedIn' = decidedIn /\ settled' = settled
    BY DEF Restart, exchangeVars
  <2>. QED  BY <1>1, <2>1 DEF RecordsDated, WellDated, IInv, RecordsInv
<1>8. MarkersFirst'
  BY <1>1 DEF MarkersFirst, IInv, RecordsInv
<1>. QED  BY <1>4, <1>5, <1>6, <1>7, <1>8 DEF RecordsInv

\* When a window ends or a result comes, the markers without a result stay within
\* the running window, and become markers within the window of the result.
LEMMA ExchangeRecords ==
    ASSUME IInv, Exchange
    PROVE  RecordsInv'
<1>1. PICK a \in Assets : Settle(a) \/ \E w \in Windows : Determine(a, w)
  BY DEF Exchange
<1>2. log' = log /\ seen' = seen /\ seenOpen' = seenOpen /\ refused' = refused
  BY <1>1 DEF Settle, Determine, sinkVars
<1>3. SeenInv' /\ MarkersSeen' /\ OneRecordPerWindow' /\ MarkersFirst'
  BY <1>2 DEF IInv, RecordsInv, SeenInv, MarkersSeen, OneRecordPerWindow, MarkersFirst, Has
<1>4. RecordsDated'
  <2>1. ASSUME NEW b \in Assets, NEW i \in 1 .. Len(log[b])
        PROVE  /\ log[b][i] \in Row /\ WellDated(b, log[b][i])
               /\ settled[b] \in Nat /\ MaxWindows \in Nat
               /\ log[b][i].of \in Windows /\ log[b][i].window \in Int
               /\ decidedIn[<<b, log[b][i].of>>] \in Int
    <3>1. log[b] \in Seq(Row) /\ settled[b] \in 0 .. MaxWindows /\ MaxWindows \in Nat
      BY SeriesFacts DEF IInv, TypeOK
    <3>2. log[b][i] \in Row
      BY <3>1, ElementOfSeq
    <3>3. /\ log[b][i].of \in Windows
          /\ log[b][i].window \in Windows \cup {MaxWindows + 1}
      BY <3>2, RowFacts
    <3>4. <<b, log[b][i].of>> \in Markets
      BY <3>3 DEF Markets
    <3>5. decidedIn[<<b, log[b][i].of>>] \in 0 .. MaxWindows + 1
      BY <3>4 DEF IInv, TypeOK
    <3>6. WellDated(b, log[b][i])
      BY DEF IInv, RecordsInv, RecordsDated
    <3>. QED  BY <3>1, <3>2, <3>3, <3>5, <3>6 DEF Windows
  <2>2. CASE Settle(a)
    <3>1. decidedIn' = decidedIn
      BY <2>2 DEF Settle
    <3>2. \A b \in Assets : settled'[b] = IF b = a THEN settled[b] + 1 ELSE settled[b]
      BY <2>2 DEF Settle, IInv, TypeOK
    <3>3. ASSUME NEW b \in Assets, NEW i \in 1 .. Len(log[b])
          PROVE  WellDated(b, log[b][i])'
      BY <1>2, <2>1, <3>1, <3>2 DEF WellDated
    <3>. QED  BY <1>2, <3>3 DEF RecordsDated
  <2>3. CASE \E w \in Windows : Determine(a, w)
    <3>1. PICK w \in Windows : Determine(a, w)
      BY <2>3
    <3>2. settled' = settled /\ decidedIn[<<a, w>>] = 0
      BY <3>1 DEF Determine
    <3>3. \A b \in Assets, v \in Windows :
             decidedIn'[<<b, v>>] = IF b = a /\ v = w THEN settled[a] + 1
                                                      ELSE decidedIn[<<b, v>>]
      BY <3>1 DEF Determine, IInv, TypeOK, Markets
    <3>4. ASSUME NEW b \in Assets, NEW i \in 1 .. Len(log[b])
          PROVE  WellDated(b, log[b][i])'
      BY <1>2, <2>1, <3>2, <3>3 DEF WellDated
    <3>. QED  BY <1>2, <3>4 DEF RecordsDated
  <2>. QED  BY <1>1, <2>2, <2>3
<1>. QED  BY <1>3, <1>4 DEF RecordsInv

LEMMA RecordsNext == IInv /\ [Next]_vars => RecordsInv'
<1>. SUFFICES ASSUME IInv, [Next]_vars
              PROVE  RecordsInv'
  OBVIOUS
<1>1. CASE UNCHANGED <<log, seen, seenOpen, refused, decidedIn, settled>>
  BY <1>1 DEF IInv, RecordsInv, SeenInv, MarkersSeen, OneRecordPerWindow, RecordsDated,
              WellDated, MarkersFirst, Has
<1>2. CASE FetchOK
  <2>1. Head(todo) \in Assets
    BY <1>2, NextSeriesType DEF FetchOK, IInv
  <2>2. Len(Listed(Head(todo))) \in 0 .. Len(Listed(Head(todo)))
    BY <2>1, ListedFacts DEF IInv
  <2>. QED  BY <1>2, <2>1, <2>2, AnswerRecords DEF FetchOK, exchangeVars
<1>3. CASE AnswerInvalid
  <2>1. Head(todo) \in Assets
    BY <1>3, NextSeriesType DEF AnswerInvalid, IInv
  <2>. QED  BY <1>3, <2>1, AnswerRecords DEF AnswerInvalid, exchangeVars
<1>4. CASE Restart
  BY <1>4, RestartRecords
<1>5. CASE \E a \in Assets : OpenMarker(a)
  BY <1>5, OpenMarkerRecords
<1>6. CASE Exchange
  BY <1>6, ExchangeRecords
<1>7. \/ UNCHANGED <<log, seen, seenOpen, refused, decidedIn, settled>>
      \/ FetchOK \/ AnswerInvalid \/ Restart \/ \E a \in Assets : OpenMarker(a)
      \/ Exchange
  BY DEF Next, vars, Poll, PollFaults, Finished, exchangeVars, sinkVars,
         StartRound, SleepEnds, CredsFail, FetchFails, Stop, Flush, Sink!Persist
<1>. QED  BY <1>1, <1>2, <1>3, <1>4, <1>5, <1>6, <1>7

-----------------------------------------------------------------------------
(***************************************************************************)
(* The theorems                                                            *)
(***************************************************************************)
LEMMA InitInv == Init => IInv
<1>. SUFFICES ASSUME Init
              PROVE  IInv
  OBVIOUS
<1>1. /\ log = [a \in Assets |-> <<>>] /\ durable = [a \in Assets |-> 0]
      /\ seen = {} /\ seenOpen = {} /\ refused = {}
      /\ decidedIn = [m \in Markets |-> 0] /\ settled = Earlier
  BY DEF Init, Sink!Init
<1>2. \A a \in Assets : log[a] = <<>> /\ Len(log[a]) = 0 /\ durable[a] = 0
  BY <1>1
<1>3. log \in [Assets -> Seq(Row)]
  BY <1>1, EmptySeq
<1>4. TypeOK
  <2>1. INITIAL_BACKOFF \in INITIAL_BACKOFF .. MAX_BACKOFF /\ MaxWindows \in Nat
    BY SeriesFacts
  <2>2. settled \in [Assets -> 0 .. MaxWindows]
    BY <1>1, BoundAssumption
  <2>3. decidedIn \in [Markets -> 0 .. MaxWindows + 1]
    BY <1>1, <2>1
  <2>4. todo \in Seq(Assets) /\ (pc = "fetch" <=> todo # <<>>)
    BY EmptySeq DEF Init
  <2>5. durable \in [Assets -> Nat] /\ \A a \in Assets : durable[a] <= Len(log[a])
    BY <1>1, <1>2
  <2>. QED  BY <1>1, <1>3, <2>1, <2>2, <2>3, <2>4, <2>5 DEF Init, TypeOK
<1>5. SeenInv /\ MarkersSeen /\ OneRecordPerWindow /\ RecordsDated /\ MarkersFirst
  BY <1>1, <1>2 DEF SeenInv, MarkersSeen, OneRecordPerWindow, RecordsDated, MarkersFirst, Has
<1>. QED  BY <1>4, <1>5 DEF IInv, RecordsInv

LEMMA Inductive == Spec => []IInv
<1>1. IInv /\ [Next]_vars => IInv'
  BY TypeNext, RecordsNext DEF IInv
<1>. QED  BY InitInv, <1>1, PTL DEF Spec

\* Every variable stays in its type. Among others, the backoff never leaves
\* INITIAL_BACKOFF .. MAX_BACKOFF, what is durable is never more than what was
\* written, and the loop waits for an answer exactly while series are left.
THEOREM TypeCorrect == Spec => []TypeOK
<1>1. IInv => TypeOK
  BY DEF IInv
<1>. QED  BY Inductive, <1>1, PTL

\* No window ever has two markers or two labels, however rounds, malformed
\* answers, refused rows, flushes and crashes interleave.
THEOREM RecordsAreSingle == Spec => []OneRecordPerWindow
<1>1. IInv => OneRecordPerWindow
  BY DEF IInv, RecordsInv
<1>. QED  BY Inductive, <1>1, PTL

\* The poller skips exactly the markets whose label is in the sink or was
\* refused by it.
THEOREM NothingElseIsSkipped == Spec => []SeenIsLabelled
<1>1. IInv => SeenIsLabelled
  BY DEF IInv, RecordsInv, TypeOK, SeenInv, SeenIsLabelled, Markets
<1>. QED  BY Inductive, <1>1, PTL

\* The record of a market is in order, whatever the polls, failures and crashes of
\* the two pollers: a marker never comes after the label or carries a later
\* window_start, and a market with an open_time has the same one in both.
THEOREM RecordsAreOrdered == Spec => []RecordsOrdered
<1>1. ASSUME IInv, NEW a \in Assets, NEW i \in 1 .. Len(log[a]),
             NEW j \in 1 .. Len(log[a]), log[a][i].kind = "marker",
             log[a][j].kind = "label", log[a][i].of = log[a][j].of
      PROVE  /\ i < j
             /\ log[a][i].window <= log[a][j].window
             /\ <<a, log[a][j].of>> \notin Undated => log[a][i].window = log[a][j].window
  <2>1. WellDated(a, log[a][i]) /\ WellDated(a, log[a][j])
    BY <1>1 DEF IInv, RecordsInv, RecordsDated
  <2>2. i < j
    BY <1>1 DEF IInv, RecordsInv, MarkersFirst
  <2>3. log[a][i].window \in Int
    <3>1. log[a] \in Seq(Row) /\ MaxWindows \in Nat
      BY <1>1, SeriesFacts DEF IInv, TypeOK
    <3>2. log[a][i] \in Row
      BY <3>1, ElementOfSeq
    <3>. QED  BY <3>1, <3>2, RowFacts DEF Windows
  <2>4. CASE <<a, log[a][j].of>> \in Undated
    BY <1>1, <2>1, <2>2, <2>4 DEF WellDated
  <2>5. CASE <<a, log[a][j].of>> \notin Undated
    BY <1>1, <2>1, <2>2, <2>3, <2>5 DEF WellDated
  <2>. QED  BY <2>4, <2>5
<1>2. IInv => RecordsOrdered
  BY <1>1 DEF RecordsOrdered
<1>. QED  BY Inductive, <1>2, PTL

=============================================================================
