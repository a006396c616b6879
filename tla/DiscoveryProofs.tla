--------------------------- MODULE DiscoveryProofs ---------------------------
(***************************************************************************)
(* Proofs about Discovery, for any series, window length, cadence, delays  *)
(* of the exchange and number of failures and restarts.                    *)
(***************************************************************************)
EXTENDS Discovery, SequenceTheorems, TLAPS

-----------------------------------------------------------------------------
(***************************************************************************)
(* Windows and the cadence                                                 *)
(***************************************************************************)
LEMMA Constants ==
    /\ Window \in Nat \ {0} /\ FastInterval \in Nat \ {0}
    /\ RestTimeout \in Nat \ {0} /\ INITIAL_BACKOFF \in Nat \ {0}
    /\ FastWindow \in Nat /\ Lead \in Nat /\ MAX_BACKOFF \in Nat
    /\ ListedBy \in Nat /\ StrikeBy \in Nat /\ MaxTime \in Nat
    /\ FastWindow < Window /\ Lead < Window
    /\ StartTimes \subseteq 0 .. MaxTime
    /\ Series \in Seq(Assets) /\ Series # <<>>
BY TimeAssumption, SeriesAssumption

LEMMA WindowOf ==
    ASSUME NEW t \in Nat
    PROVE  /\ CurrentWindow(t) \in Nat /\ Offset(t) \in 0 .. Window - 1
           /\ t = Window * CurrentWindow(t) + Offset(t)
BY Constants DEF CurrentWindow, Offset

\* The window and the offset of a time are determined by their sum.
LEMMA WindowUnique ==
    ASSUME NEW q \in Nat, NEW r \in 0 .. Window - 1
    PROVE  CurrentWindow(Window * q + r) = q /\ Offset(Window * q + r) = r
<1>. DEFINE t == Window * q + r
<1>1. t \in Nat /\ Window \in Nat \ {0}
  BY Constants
<1>2. \A x, y \in Nat : \A u, v \in 0 .. Window - 1 :
         Window * x + u = Window * y + v => x = y /\ u = v
  BY <1>1
<1>3. /\ CurrentWindow(t) \in Nat /\ Offset(t) \in 0 .. Window - 1
      /\ t = Window * CurrentWindow(t) + Offset(t)
  BY <1>1, WindowOf
<1>. HIDE DEF t
<1>. QED  BY <1>2, <1>3 DEF t

LEMMA ClockInWindows ==
    ASSUME NEW t \in 0 .. MaxTime
    PROVE  CurrentWindow(t) \in Windows
<1>1. \A u, v \in Nat : \A w \in Nat \ {0} : u <= v => u \div w <= v \div w
  OBVIOUS
<1>2. t \in Nat /\ MaxTime \in Nat /\ Window \in Nat \ {0} /\ t <= MaxTime
  BY Constants
<1>3. t \div Window <= MaxTime \div Window /\ t \div Window \in Nat
  BY <1>1, <1>2
<1>4. MaxTime \div Window \in Nat
  BY <1>2
<1>. QED  BY <1>3, <1>4 DEF CurrentWindow, Windows

LEMMA DelayType ==
    ASSUME NEW map, NEW t \in Nat
    PROVE  NextPollDelay(map, t) \in Nat \ {0}
<1>1. Offset(t) \in 0 .. Window - 1
  BY WindowOf
<1>2. SecondsToNextBoundary(t) + Lead \in Nat \ {0}
  BY <1>1, Constants DEF SecondsToNextBoundary
<1>. QED  BY <1>2, Constants DEF NextPollDelay

\* A round that ends a fast phase, or finds every market captured, sleeps until
\* just after the next boundary: the poller wakes in the next window, Lead ticks
\* into it, and never in a later one (_next_poll_delay).
THEOREM IdleEndsInNextWindow ==
    ASSUME NEW map, NEW t \in Nat,
           Offset(t) >= FastWindow \/ AllCurrentCaptured(map, t)
    PROVE  LET wake == t + NextPollDelay(map, t)
           IN  CurrentWindow(wake) = CurrentWindow(t) + 1 /\ Offset(wake) = Lead
<1>. DEFINE q == CurrentWindow(t)
            r == Offset(t)
<1>1. q \in Nat /\ r \in 0 .. Window - 1 /\ t = Window * q + r
  BY WindowOf
<1>2. Window \in Nat \ {0} /\ Lead \in 0 .. Window - 1 /\ FastWindow \in Nat
  BY Constants
<1>3. NextPollDelay(map, t) = (Window - r) + Lead
  BY <1>1, <1>2 DEF NextPollDelay, SecondsToNextBoundary
<1>. HIDE DEF q, r
<1>4. t + NextPollDelay(map, t) = Window * (q + 1) + Lead
  BY <1>1, <1>2, <1>3
<1>5. q + 1 \in Nat
  BY <1>1
<1>. QED  BY <1>2, <1>4, <1>5, WindowUnique DEF q

-----------------------------------------------------------------------------
(***************************************************************************)
(* Types                                                                   *)
(***************************************************************************)
LEMMA FetchFacts ==
    ASSUME TypeOK, pc = "fetch"
    PROVE  /\ Head(todo) \in Assets /\ Tail(todo) \in Seq(Assets)
           /\ Len(todo) > 1 <=> Tail(todo) # <<>>
           /\ <<>> \in Seq(Assets)
<1>1. todo \in Seq(Assets) /\ todo # <<>>
  BY DEF TypeOK
<1>2. Head(todo) \in Assets /\ Tail(todo) \in Seq(Assets)
      /\ Len(todo) \in Nat \ {0} /\ Len(Tail(todo)) = Len(todo) - 1
  BY <1>1
<1>. QED  BY <1>2, EmptySeq

LEMMA NoMarketsType == NoMarkets \in [Assets -> MarketInfo]
BY DEF NoMarkets, MarketInfo

LEMMA NextSeriesType ==
    ASSUME TypeOK, pc = "fetch", NEW map \in [Assets -> MarketInfo], NextSeries(map)
    PROVE  /\ todo' \in Seq(Assets) /\ pc' \in {"fetch", "sleep"}
           /\ pc' = "fetch" <=> todo' # <<>>
           /\ newActive' \in [Assets -> MarketInfo]
           /\ active' \in [Assets -> MarketInfo]
           /\ timer' \in Nat /\ backoff' \in Nat
<1>1. now \in Nat /\ MaxTime \in Nat
  BY Constants DEF TypeOK
<1>2. now + RestTimeout \in Nat /\ INITIAL_BACKOFF \in Nat
  BY <1>1, Constants
<1>3. now + NextPollDelay(map, now) \in Nat
  BY <1>1, DelayType
<1>4. CASE Len(todo) > 1
  BY <1>2, <1>4, FetchFacts DEF NextSeries, TypeOK
<1>5. CASE ~(Len(todo) > 1)
  BY <1>2, <1>3, <1>5, FetchFacts, NoMarketsType DEF NextSeries, TypeOK
<1>. QED  BY <1>4, <1>5

LEMMA ParseType ==
    ASSUME TypeOK, NEW a \in Assets, listed[a] # None
    PROVE  ParseOpenMarket(a) \in MarketInfo
<1>1. listed[a] \in Windows /\ strike[a] \in BOOLEAN
  BY DEF TypeOK
<1>2. CurrentWindow(now) \in Windows
  BY ClockInWindows DEF TypeOK
<1>. QED  BY <1>1, <1>2 DEF ParseOpenMarket, MarketInfo, Info

\* The variables of the markers after one answer.
LEMMA MarkersType ==
    ASSUME TypeOK, NEW a \in Assets, NEW w \in Windows,
           WriteOpenMarker(a, w) \/ UNCHANGED <<seenOpen, markers, sinkFaults>>
    PROVE  /\ seenOpen' \subseteq Assets \X Windows
           /\ markers' \in [Assets \X Windows -> Nat]
           /\ sinkFaults' \in Nat
<1>1. <<a, w>> \in Assets \X Windows
  OBVIOUS
<1>2. CASE UNCHANGED <<seenOpen, markers, sinkFaults>>
  BY <1>2 DEF TypeOK
<1>3. CASE WriteOpenMarker(a, w)
  <2>1. seenOpen' \subseteq Assets \X Windows
    BY <1>1, <1>3 DEF WriteOpenMarker, TypeOK
  <2>2. markers[<<a, w>>] + 1 \in Nat
    BY <1>1 DEF TypeOK
  <2>3. markers' \in [Assets \X Windows -> Nat]
    <3>. DEFINE M == Assets \X Windows
    <3>1. markers \in [M -> Nat]
      BY DEF TypeOK
    <3>2. markers' = markers \/ markers' = [markers EXCEPT ![<<a, w>>] = @ + 1]
      BY <1>3 DEF WriteOpenMarker
    <3>. HIDE DEF M
    <3>3. markers' \in [M -> Nat]
      BY <2>2, <3>1, <3>2
    <3>. QED  BY <3>3 DEF M
  <2>4. sinkFaults' \in Nat
    BY <1>3 DEF WriteOpenMarker, TypeOK
  <2>. QED  BY <2>1, <2>3, <2>4
<1>. QED  BY <1>2, <1>3

\* What an answer does: nothing to the markers, or it writes one whose market
\* was not seen.
LEMMA AnswerFacts ==
    ASSUME TypeOK, FetchOK
    PROVE  /\ pc = "fetch" /\ Head(todo) \in Assets
           /\ \E map \in [Assets -> MarketInfo] : NextSeries(map)
           /\ \/ UNCHANGED <<seenOpen, markers, sinkFaults>>
              \/ \E w \in Windows : /\ <<Head(todo), w>> \notin seenOpen
                                    /\ WriteOpenMarker(Head(todo), w)
<1>. DEFINE a == Head(todo)
            map == IF listed[a] = None THEN newActive
                   ELSE [newActive EXCEPT ![a] = ParseOpenMarket(a)]
<1>1. pc = "fetch" /\ a \in Assets
  BY FetchFacts DEF FetchOK
<1>2. map \in [Assets -> MarketInfo]
  BY <1>1, ParseType DEF TypeOK
<1>3. NextSeries(map)
  BY DEF FetchOK
<1>4. listed[a] # None => listed[a] \in Windows
  BY <1>1 DEF TypeOK
<1>5. \/ UNCHANGED <<seenOpen, markers, sinkFaults>>
      \/ \E w \in Windows : <<a, w>> \notin seenOpen /\ WriteOpenMarker(a, w)
  BY <1>4 DEF FetchOK
<1>. QED  BY <1>1, <1>2, <1>3, <1>5

LEMMA FetchOKType ==
    ASSUME TypeOK, FetchOK
    PROVE  TypeOK'
<1>1. pc = "fetch" /\ Head(todo) \in Assets
  BY AnswerFacts
<1>2. PICK map \in [Assets -> MarketInfo] : NextSeries(map)
  BY AnswerFacts
<1>3. /\ seenOpen' \subseteq Assets \X Windows
      /\ markers' \in [Assets \X Windows -> Nat]
      /\ sinkFaults' \in Nat
  <2>1. CASE UNCHANGED <<seenOpen, markers, sinkFaults>>
    BY <2>1 DEF TypeOK
  <2>2. CASE \E w \in Windows : WriteOpenMarker(Head(todo), w)
    BY <1>1, <2>2, MarkersType
  <2>. QED  BY <2>1, <2>2, AnswerFacts
<1>4. /\ todo' \in Seq(Assets) /\ pc' \in {"fetch", "sleep"}
      /\ pc' = "fetch" <=> todo' # <<>>
      /\ newActive' \in [Assets -> MarketInfo]
      /\ active' \in [Assets -> MarketInfo]
      /\ timer' \in Nat /\ backoff' \in Nat
  BY <1>1, <1>2, NextSeriesType
<1>. QED  BY <1>3, <1>4 DEF FetchOK, TypeOK, exchangeVars

LEMMA FetchFailsType ==
    ASSUME TypeOK, FetchFails
    PROVE  TypeOK'
<1>. DEFINE map == [newActive EXCEPT ![Head(todo)] = active[Head(todo)]]
<1>1. pc = "fetch" /\ Head(todo) \in Assets
  BY FetchFacts DEF FetchFails
<1>2. map \in [Assets -> MarketInfo]
  BY <1>1 DEF TypeOK
<1>3. /\ todo' \in Seq(Assets) /\ pc' \in {"fetch", "sleep"}
      /\ pc' = "fetch" <=> todo' # <<>>
      /\ newActive' \in [Assets -> MarketInfo]
      /\ active' \in [Assets -> MarketInfo]
      /\ timer' \in Nat /\ backoff' \in Nat
  BY <1>1, <1>2, NextSeriesType DEF FetchFails
<1>4. faults' \in Nat
  BY DEF FetchFails, TypeOK
<1>. QED  BY <1>3, <1>4 DEF FetchFails, TypeOK, exchangeVars

LEMMA RoundFailsType ==
    ASSUME TypeOK, RoundFails
    PROVE  TypeOK'
<1>1. now \in Nat /\ MaxTime \in Nat /\ backoff \in Nat
  BY Constants DEF TypeOK
<1>2. timer' \in Nat /\ backoff' \in Nat /\ faults' \in Nat
  BY <1>1, Constants DEF RoundFails, TypeOK
<1>3. todo' = <<>> /\ todo' \in Seq(Assets) /\ pc' = "sleep"
  BY EmptySeq DEF RoundFails
<1>. QED  BY <1>2, <1>3, NoMarketsType DEF RoundFails, TypeOK, exchangeVars

LEMMA StartRefreshType ==
    ASSUME TypeOK, StartRefresh
    PROVE  TypeOK'
<1>1. now \in Nat /\ MaxTime \in Nat
  BY Constants DEF TypeOK
<1>2. now + RestTimeout \in Nat
  BY <1>1, Constants
<1>. QED  BY <1>2, Constants, NoMarketsType
          DEF StartRefresh, TypeOK, exchangeVars, budgetVars

LEMMA RestartType ==
    ASSUME TypeOK, Restart
    PROVE  TypeOK'
<1>1. seenOpen' \subseteq Assets \X Windows
  BY DEF Restart, TypeOK
<1>2. todo' = <<>> /\ todo' \in Seq(Assets) /\ pc' = "top"
  BY EmptySeq DEF Restart
<1>3. timer' \in Nat /\ backoff' \in Nat /\ restarts' \in Nat
  BY Constants DEF Restart, TypeOK
<1>. QED  BY <1>1, <1>2, <1>3, NoMarketsType DEF Restart, TypeOK, exchangeVars

LEMMA ExchangeType ==
    ASSUME TypeOK, Exchange
    PROVE  TypeOK'
<1>1. PICK a \in Assets : Delist(a) \/ List(a) \/ SetStrike(a)
  BY DEF Exchange
<1>2. CurrentWindow(now) \in Windows
  BY ClockInWindows DEF TypeOK
<1>3. listed' \in [Assets -> Windows \cup {None}] /\ strike' \in [Assets -> BOOLEAN]
  BY <1>1, <1>2 DEF Delist, List, SetStrike, TypeOK
<1>. QED  BY <1>1, <1>3 DEF Delist, List, SetStrike, TypeOK, programVars, budgetVars

LEMMA TypeNext == TypeOK /\ [Next]_vars => TypeOK'
<1>. SUFFICES ASSUME TypeOK, [Next]_vars
              PROVE  TypeOK'
  OBVIOUS
<1>1. CASE StartRefresh
  BY <1>1, StartRefreshType
<1>2. CASE FetchOK
  BY <1>2, FetchOKType
<1>3. CASE FetchFails
  BY <1>3, FetchFailsType
<1>4. CASE CredsFail \/ AnswerInvalid
  BY <1>4, RoundFailsType DEF CredsFail, AnswerInvalid
<1>5. CASE SleepEnds
  BY <1>5 DEF SleepEnds, TypeOK, exchangeVars, budgetVars
<1>6. CASE Stop
  BY <1>6 DEF Stop, TypeOK, exchangeVars, budgetVars
<1>7. CASE Restart
  BY <1>7, RestartType
<1>8. CASE Exchange
  BY <1>8, ExchangeType
<1>9. CASE Tick
  BY <1>9, Constants DEF Tick, TypeOK, exchangeVars, programVars, budgetVars
<1>10. CASE UNCHANGED vars
  BY <1>10 DEF vars, TypeOK
<1>. QED
  BY <1>1, <1>2, <1>3, <1>4, <1>5, <1>6, <1>7, <1>8, <1>9, <1>10
  DEF Next, Refresh, Horizon

-----------------------------------------------------------------------------
(***************************************************************************)
(* The markers                                                             *)
(***************************************************************************)

\* The seen set covers the markers in the sink: what a process did not write
\* itself it was primed with.
MarkedIsSeen == \A m \in Assets \X Windows : markers[m] > 0 => m \in seenOpen

IInv == TypeOK /\ MarkedIsSeen /\ MarkedOnce /\ SeenIsMarked

MarkersInv == MarkedIsSeen /\ MarkedOnce /\ SeenIsMarked

\* A marker is written for a market not seen before, which by MarkedIsSeen has
\* none yet.
LEMMA WriteMarkers ==
    ASSUME IInv, NEW a \in Assets, NEW w \in Windows, <<a, w>> \notin seenOpen,
           WriteOpenMarker(a, w)
    PROVE  MarkersInv'
<1>. DEFINE M == Assets \X Windows
            n == <<a, w>>
<1>1. /\ n \in M /\ n \notin seenOpen /\ markers \in [M -> Nat]
      /\ seenOpen' = seenOpen \cup {n} /\ sinkFaults \in Nat /\ seenOpen \subseteq M
  BY DEF IInv, TypeOK, WriteOpenMarker
<1>2. \/ markers' = [markers EXCEPT ![n] = @ + 1] /\ sinkFaults' = sinkFaults
      \/ markers' = markers /\ sinkFaults' = sinkFaults + 1
  BY DEF WriteOpenMarker
<1>3. DOMAIN markers = M /\ DOMAIN markers' = M
  BY <1>1, <1>2
<1>4. /\ \A m \in M : markers[m] > 0 => m \in seenOpen
      /\ \A m \in M : markers[m] <= 1
      /\ sinkFaults = 0 => \A m \in seenOpen : markers[m] = 1
  BY <1>3 DEF IInv, MarkedIsSeen, MarkedOnce, SeenIsMarked
<1>. HIDE DEF M, n
<1>5. markers[n] = 0
  BY <1>1, <1>4
<1>6. \A m \in M \ {n} : markers'[m] = markers[m]
  BY <1>1, <1>2
<1>7. \/ markers'[n] = 1 /\ sinkFaults' = sinkFaults
      \/ markers'[n] = 0 /\ sinkFaults' # 0
  <2>1. CASE markers' = [markers EXCEPT ![n] = @ + 1] /\ sinkFaults' = sinkFaults
    BY <1>1, <1>5, <2>1
  <2>2. CASE markers' = markers /\ sinkFaults' = sinkFaults + 1
    BY <1>1, <1>5, <2>2
  <2>. QED  BY <1>2, <2>1, <2>2
<1>8. \A m \in M : markers'[m] > 0 => m \in seenOpen'
  BY <1>1, <1>4, <1>6, <1>7
<1>9. \A m \in M : markers'[m] <= 1
  BY <1>1, <1>4, <1>6, <1>7
<1>10. sinkFaults' = 0 => \A m \in seenOpen' : markers'[m] = 1
  BY <1>1, <1>2, <1>4, <1>6, <1>7
<1>. QED  BY <1>3, <1>8, <1>9, <1>10
          DEF M, MarkersInv, MarkedIsSeen, MarkedOnce, SeenIsMarked

\* A restart primes the seen set with the markers in the sink.
LEMMA RestartMarkers ==
    ASSUME IInv, Restart
    PROVE  MarkersInv'
<1>1. /\ DOMAIN markers = Assets \X Windows /\ markers \in [Assets \X Windows -> Nat]
      /\ markers' = markers
      /\ seenOpen' = {m \in DOMAIN markers : markers[m] > 0}
  BY DEF Restart, IInv, TypeOK
<1>2. MarkedOnce' /\ MarkedIsSeen'
  BY <1>1 DEF MarkedOnce, MarkedIsSeen, IInv
<1>3. \A m \in seenOpen' : markers'[m] = 1
  <2>. TAKE m \in seenOpen'
  <2>1. m \in DOMAIN markers /\ markers[m] > 0
    BY <1>1
  <2>2. markers[m] \in Nat /\ markers[m] <= 1
    BY <1>1, <2>1 DEF MarkedOnce, IInv
  <2>. QED  BY <1>1, <2>1, <2>2
<1>. QED  BY <1>2, <1>3 DEF MarkersInv, SeenIsMarked

LEMMA MarkersNext == IInv /\ [Next]_vars => MarkersInv'
<1>. SUFFICES ASSUME IInv, [Next]_vars
              PROVE  MarkersInv'
  OBVIOUS
<1>1. CASE UNCHANGED <<seenOpen, markers, sinkFaults>>
  BY <1>1 DEF IInv, MarkersInv, MarkedIsSeen, MarkedOnce, SeenIsMarked
<1>2. CASE FetchOK
  BY <1>1, <1>2, AnswerFacts, WriteMarkers DEF IInv
<1>3. CASE Restart
  BY <1>3, RestartMarkers
<1>4. UNCHANGED <<seenOpen, markers, sinkFaults>> \/ FetchOK \/ Restart
  BY DEF Next, vars, Refresh, StartRefresh, FetchFails, CredsFail, AnswerInvalid,
         RoundFails, SleepEnds, Stop, Exchange, Delist, List, SetStrike, Tick, Horizon,
         programVars, budgetVars
<1>. QED  BY <1>1, <1>2, <1>3, <1>4

-----------------------------------------------------------------------------
(***************************************************************************)
(* The theorems                                                            *)
(***************************************************************************)
LEMMA InitInv == Init => IInv
<1>. SUFFICES ASSUME Init
              PROVE  IInv
  OBVIOUS
<1>1. now \in 0 .. MaxTime /\ CurrentWindow(now) \in Windows
  BY Constants, ClockInWindows DEF Init
<1>2. /\ strike \in [Assets -> BOOLEAN]
      /\ listed \in [Assets -> Windows \cup {None}]
  BY <1>1 DEF Init
<1>3. undated \subseteq Assets /\ todo \in Seq(Assets) /\ (pc = "fetch" <=> todo # <<>>)
  BY SeriesAssumption, EmptySeq DEF Init
<1>4. TypeOK
  BY <1>1, <1>2, <1>3, Constants, NoMarketsType DEF Init, TypeOK
<1>5. MarkedIsSeen /\ MarkedOnce /\ SeenIsMarked
  BY DEF Init, MarkedIsSeen, MarkedOnce, SeenIsMarked
<1>. QED  BY <1>4, <1>5 DEF IInv

LEMMA Inductive == Spec => []IInv
<1>1. IInv /\ [Next]_vars => IInv'
  BY TypeNext, MarkersNext DEF IInv, MarkersInv
<1>. QED  BY InitInv, <1>1, PTL DEF Spec

\* Every variable stays in its type. Among others, no arithmetic on the clock
\* leaves the windows of the run, and the loop waits for an answer exactly while
\* series are left.
THEOREM TypeCorrect == Spec => []TypeOK
<1>1. IInv => TypeOK
  BY DEF IInv
<1>. QED  BY Inductive, <1>1, PTL

\* No window's open marker is written twice, however polls, failed rounds, writes
\* the sink refuses and restarts interleave.
THEOREM OneMarkerPerWindow == Spec => []MarkedOnce
<1>1. IInv => MarkedOnce
  BY DEF IInv
<1>. QED  BY Inductive, <1>1, PTL

\* As long as the sink takes what it is given, a market that is skipped as seen
\* has its marker.
THEOREM SkippedMarketsAreMarked == Spec => []SeenIsMarked
<1>1. IInv => SeenIsMarked
  BY DEF IInv
<1>. QED  BY Inductive, <1>1, PTL

-----------------------------------------------------------------------------
(***************************************************************************)
(* The cadence over time: how late a round can start in a window           *)
(***************************************************************************)
Longer(x, y) == IF x < y THEN y ELSE x

Rest(k)   == k * RestTimeout         \* the time k requests can take
RoundTime == Rest(Len(Series))
Pause     == Longer(FastInterval, Longer(INITIAL_BACKOFF, MAX_BACKOFF))

\* The latest offset at which a round starts that can find every market listed
\* and priced; and after f failures, each of which costs a round and a pause.
FirstGood == Longer(Lead, StrikeBy + Rest(Len(Series) - 1) + FastInterval)
Latest(f) == FirstGood + f * (RoundTime + Pause)

\* The failures leave time for a good round while the poller still polls fast.
Cadence == Latest(MaxFaults) <= FastWindow /\ FastWindow + RoundTime < Window

Boundary == now - Offset(now)
RoundEnd == timer + Rest(Len(todo) - 1)
Good(map, a) == /\ map[a] # None
                /\ map[a].start = CurrentWindow(now)
                /\ map[a].ref

\* The exchange lists the market of the running window or of the one before, or
\* none, and is done with both by StrikeBy.
ExchangeInv ==
    \A a \in Assets :
        /\ listed[a] \in {None, CurrentWindow(now), CurrentWindow(now) - 1}
        /\ Offset(now) > StrikeBy => listed[a] = CurrentWindow(now) /\ strike[a]

\* A market in a map is that of its window_start, or of the window before if it
\* came without open_time; with its reference price it has been seen.
EntryInv(map) ==
    \A a \in Assets : map[a] # None =>
        /\ \/ map[a].window = map[a].start
           \/ a \in undated /\ map[a].window = map[a].start - 1
        /\ map[a].ref => <<a, map[a].window>> \in seenOpen

Missed(map, rest) == \E a \in Assets \ ToSet(rest) : ~Good(map, a)

OnlyHead(map) == \A a \in Assets \ {Head(todo)} : map[a] = newActive[a]

\* The steps of a poller that has been up since the start are on time: a round
\* starts by Latest(faults); one that has missed a market ends so early that the
\* next one does; the poller sleeps over a boundary only with a current map.
TimingInv ==
    /\ pc = "top" => now <= Boundary + Latest(faults)
    /\ pc = "fetch" =>
          /\ now <= timer
          /\ RoundEnd <= Boundary + Latest(faults) + RoundTime
          /\ Missed(newActive, todo) => RoundEnd + FastInterval <= Boundary + Latest(faults)
    /\ pc = "sleep" =>
          /\ now <= timer
          /\ \/ timer <= Boundary + Latest(faults)
             \/ /\ timer = Boundary + Window + Lead
                /\ \A a \in Assets : Good(active, a)

SeenSoFar ==
    \A a \in Assets \ undated : \A w \in Windows :
        w < CurrentWindow(now) => <<a, w>> \in seenOpen

BoundsInv == /\ backoff <= Pause /\ faults <= MaxFaults
             /\ Len(todo) <= Len(Series)

\* If the poller starts early enough in a window.
StartsInTime == \A t \in StartTimes : Offset(t) <= FirstGood

LEMMA RestFacts ==
    /\ Rest(0) = 0
    /\ \A k \in Nat : Rest(k) \in Nat /\ Rest(k + 1) = Rest(k) + RestTimeout
    /\ \A j, k \in Nat : j <= k => Rest(j) <= Rest(k)
<1>1. RestTimeout \in Nat
  BY Constants
<1>2. \A r \in Nat : /\ 0 * r = 0
                     /\ \A k \in Nat : k * r \in Nat /\ (k + 1) * r = k * r + r
                     /\ \A j, k \in Nat : j <= k => j * r <= k * r
  OBVIOUS
<1>. QED  BY <1>1, <1>2 DEF Rest

LEMMA SeriesFacts ==
    /\ Len(Series) \in Nat \ {0} /\ Len(Series) - 1 \in Nat
    /\ RoundTime \in Nat /\ RoundTime = Rest(Len(Series) - 1) + RestTimeout
    /\ Rest(Len(Series) - 1) \in Nat
<1>1. Len(Series) \in Nat \ {0}
  BY Constants
<1>2. Len(Series) - 1 \in Nat /\ (Len(Series) - 1) + 1 = Len(Series)
  BY <1>1
<1>. QED  BY <1>1, <1>2, RestFacts DEF RoundTime

LEMMA PauseFacts ==
    /\ Pause \in Nat /\ FirstGood \in Nat
    /\ FastInterval <= Pause /\ INITIAL_BACKOFF <= Pause /\ MAX_BACKOFF <= Pause
    /\ Lead <= FirstGood
    /\ StrikeBy + Rest(Len(Series) - 1) + FastInterval <= FirstGood
<1>1. \A x, y \in Nat : Longer(x, y) \in Nat /\ x <= Longer(x, y) /\ y <= Longer(x, y)
  BY DEF Longer
<1>2. /\ FastInterval \in Nat /\ INITIAL_BACKOFF \in Nat /\ MAX_BACKOFF \in Nat
      /\ Lead \in Nat /\ StrikeBy + Rest(Len(Series) - 1) + FastInterval \in Nat
  BY Constants, SeriesFacts
<1>. DEFINE m == Longer(INITIAL_BACKOFF, MAX_BACKOFF)
<1>3. m \in Nat /\ INITIAL_BACKOFF <= m /\ MAX_BACKOFF <= m
  BY <1>1, <1>2
<1>. HIDE DEF m
<1>4. Pause = Longer(FastInterval, m)
  BY DEF Pause, m
<1>5. Pause \in Nat /\ FastInterval <= Pause /\ m <= Pause
  BY <1>1, <1>2, <1>3, <1>4
<1>6. /\ FirstGood \in Nat /\ Lead <= FirstGood
      /\ StrikeBy + Rest(Len(Series) - 1) + FastInterval <= FirstGood
  <2>. DEFINE s == StrikeBy + Rest(Len(Series) - 1) + FastInterval
  <2>1. s \in Nat /\ FirstGood = Longer(Lead, s)
    BY <1>2 DEF FirstGood
  <2>. HIDE DEF s
  <2>2. FirstGood \in Nat /\ Lead <= FirstGood /\ s <= FirstGood
    BY <1>1, <1>2, <2>1
  <2>. QED  BY <2>2 DEF s
<1>. QED  BY <1>2, <1>3, <1>5, <1>6

LEMMA LatestFacts ==
    ASSUME Cadence, NEW f \in Nat, f <= MaxFaults
    PROVE  /\ Latest(f) \in Nat /\ FirstGood <= Latest(f) /\ Latest(f) <= FastWindow
           /\ Latest(f + 1) = Latest(f) + RoundTime + Pause
<1>. DEFINE c == RoundTime + Pause
<1>1. c \in Nat /\ FirstGood \in Nat /\ MaxFaults \in Nat
  BY SeriesFacts, PauseFacts, BoundAssumption
<1>2. RoundTime \in Nat /\ Pause \in Nat
  BY SeriesFacts, PauseFacts
<1>. HIDE DEF c
<1>3. \A g \in Nat : Latest(g) = FirstGood + g * c
  BY DEF Latest, c
<1>4. \A g \in Nat : g * c \in Nat /\ (g + 1) * c = g * c + c
  BY <1>1
<1>5. f * c <= MaxFaults * c
  BY <1>1
<1>6. Latest(MaxFaults) <= FastWindow /\ FastWindow \in Nat
  BY Constants DEF Cadence
<1>7. MaxFaults * c \in Nat /\ Latest(MaxFaults) = FirstGood + MaxFaults * c
  BY <1>1, <1>3, <1>4
<1>8. f * c \in Nat /\ (f + 1) * c = f * c + c /\ f + 1 \in Nat
  BY <1>4
<1>9. Latest(f) = FirstGood + f * c /\ Latest(f + 1) = FirstGood + (f * c + c)
  BY <1>3, <1>8
<1>. QED  BY <1>1, <1>2, <1>5, <1>6, <1>7, <1>8, <1>9 DEF c

LEMMA LatestGrows ==
    ASSUME NEW f \in Nat, NEW g \in Nat, f <= g
    PROVE  Latest(f) <= Latest(g)
<1>. DEFINE c == RoundTime + Pause
<1>1. c \in Nat /\ FirstGood \in Nat
  BY SeriesFacts, PauseFacts
<1>. HIDE DEF c
<1>2. f * c <= g * c /\ f * c \in Nat /\ g * c \in Nat
  BY <1>1
<1>. QED  BY <1>1, <1>2 DEF Latest, c

\* Time and its window.
LEMMA ClockFacts ==
    ASSUME TypeOK
    PROVE  /\ now \in Nat /\ Boundary \in Nat /\ CurrentWindow(now) \in Nat
           /\ now = Boundary + Offset(now) /\ Offset(now) \in 0 .. Window - 1
           /\ Boundary = Window * CurrentWindow(now)
<1>1. now \in Nat
  BY Constants DEF TypeOK
<1>2. CurrentWindow(now) \in Nat /\ Offset(now) \in 0 .. Window - 1
      /\ now = Window * CurrentWindow(now) + Offset(now)
  BY <1>1, WindowOf
<1>3. Window * CurrentWindow(now) \in Nat
  BY <1>2, Constants
<1>. DEFINE b == Window * CurrentWindow(now)
            o == Offset(now)
<1>4. now = b + o /\ b \in Nat /\ o \in Nat
  BY <1>2, <1>3, Constants
<1>. HIDE DEF b, o
<1>5. now - o = b
  BY <1>4
<1>. QED  BY <1>1, <1>2, <1>4, <1>5 DEF Boundary, b, o

\* A tick stays in the window or is the first of the next.
LEMMA TickFacts ==
    ASSUME TypeOK, Tick
    PROVE  \/ /\ CurrentWindow(now') = CurrentWindow(now)
              /\ Offset(now') = Offset(now) + 1
              /\ Boundary' = Boundary
           \/ /\ CurrentWindow(now') = CurrentWindow(now) + 1
              /\ Offset(now') = 0 /\ Offset(now) = Window - 1
              /\ Boundary' = Boundary + Window
<1>. DEFINE q == CurrentWindow(now)
            r == Offset(now)
<1>1. /\ now \in Nat /\ Boundary = Window * q /\ Boundary \in Nat /\ q \in Nat
      /\ now = Boundary + r /\ r \in 0 .. Window - 1
  BY ClockFacts
<1>2. now' = now + 1 /\ Window \in Nat \ {0}
  BY Constants DEF Tick
<1>. HIDE DEF q, r
<1>3. CASE r < Window - 1
  <2>1. r + 1 \in 0 .. Window - 1 /\ now' = Window * q + (r + 1)
    BY <1>1, <1>2, <1>3
  <2>2. CurrentWindow(now') = q /\ Offset(now') = r + 1
    BY <1>1, <2>1, WindowUnique
  <2>3. Boundary' = Boundary
    BY <1>1, <1>2, <2>2 DEF Boundary
  <2>. QED  BY <2>2, <2>3 DEF q, r
<1>4. CASE r = Window - 1
  <2>1. Window * (q + 1) = Window * q + Window
    BY <1>1, <1>2
  <2>2. q + 1 \in Nat /\ 0 \in 0 .. Window - 1 /\ now' = Window * (q + 1) + 0
    BY <1>1, <1>2, <1>4, <2>1
  <2>3. CurrentWindow(now') = q + 1 /\ Offset(now') = 0
    BY <2>2, WindowUnique
  <2>4. Boundary' = Boundary + Window
    <3>1. Boundary' = now' - Offset(now')
      BY DEF Boundary
    <3>2. now' = Boundary + Window /\ now' \in Nat
      BY <1>1, <1>2, <1>4
    <3>. QED  BY <2>3, <3>1, <3>2
  <2>. QED  BY <1>4, <2>3, <2>4 DEF q, r
<1>. QED  BY <1>1, <1>2, <1>3, <1>4

-----------------------------------------------------------------------------
(***************************************************************************)
(* A round                                                                 *)
(***************************************************************************)
LEMMA TodoFacts ==
    ASSUME TypeOK, pc = "fetch"
    PROVE  /\ Len(todo) \in Nat \ {0}
           /\ \A a \in Assets : a \notin ToSet(Tail(todo))
                                   => a = Head(todo) \/ a \notin ToSet(todo)
           /\ Len(Tail(todo)) = Len(todo) - 1
           /\ ToSet(<<>>) = {}
           /\ Len(todo) = 1 => Tail(todo) = <<>>
<1>1. todo \in Seq(Assets) /\ todo # <<>>
  BY DEF TypeOK
<1>2. /\ Len(todo) \in Nat \ {0} /\ Len(Tail(todo)) = Len(todo) - 1
      /\ Tail(todo) \in Seq(Assets)
      /\ Head(todo) = todo[1]
      /\ \A i \in 1 .. Len(todo) - 1 : Tail(todo)[i] = todo[i + 1]
  BY <1>1
<1>3. ASSUME NEW a \in Assets, a \in ToSet(todo), a # Head(todo)
      PROVE  a \in ToSet(Tail(todo))
  <2>1. PICK i \in 1 .. Len(todo) : a = todo[i]
    BY <1>1, <1>3 DEF ToSet
  <2>2. i # 1
    BY <1>2, <1>3, <2>1
  <2>3. i - 1 \in 1 .. Len(todo) - 1 /\ (i - 1) + 1 = i
    BY <1>2, <2>2
  <2>4. Tail(todo)[i - 1] = a
    BY <1>2, <2>1, <2>3
  <2>5. DOMAIN Tail(todo) = 1 .. Len(todo) - 1
    BY <1>2
  <2>. QED  BY <2>3, <2>4, <2>5 DEF ToSet
<1>4. ToSet(<<>>) = {}
  BY DEF ToSet
<1>5. Len(todo) = 1 => Tail(todo) = <<>>
  <2>1. Len(todo) = 1 => Len(Tail(todo)) = 0
    BY <1>2
  <2>. QED  BY <1>2, <2>1, EmptySeq
<1>. QED  BY <1>2, <1>3, <1>4, <1>5

\* An answer after StrikeBy finds the market listed and priced.
LEMMA AnswerIsGood ==
    ASSUME TypeOK, ExchangeInv, NEW a \in Assets, Offset(now) > StrikeBy,
           NEW map, map[a] = ParseOpenMarket(a)
    PROVE  listed[a] # None /\ Good(map, a)
<1>1. listed[a] = CurrentWindow(now) /\ strike[a]
  BY DEF ExchangeInv
<1>2. CurrentWindow(now) \in Windows /\ None \notin Windows
  BY ClockInWindows, SeriesAssumption DEF TypeOK
<1>3. /\ map[a].start = CurrentWindow(now) /\ map[a].ref
      /\ map[a] \in Info
  <2>1. strike[a] \in BOOLEAN
    BY DEF TypeOK
  <2>. QED  BY <1>1, <1>2, <2>1 DEF ParseOpenMarket, Info
<1>4. None \notin Info
  BY SeriesAssumption
<1>. QED  BY <1>1, <1>2, <1>3, <1>4 DEF Good

\* One series done: the round is still on time, and if it has missed a market
\* it ends early enough for the next round.
LEMMA NextSeriesTiming ==
    ASSUME TypeOK, Cadence, BoundsInv, TimingInv, pc = "fetch", now' = now,
           faults' \in Nat, faults <= faults', faults' <= MaxFaults,
           NEW map \in [Assets -> MarketInfo], OnlyHead(map), NextSeries(map),
           Good(map, Head(todo)) \/ Offset(now) <= StrikeBy \/ faults' = faults + 1
    PROVE  TimingInv'
<1>. DEFINE k  == Len(todo)
            r  == Rest(k - 1)
            L  == Latest(faults)
            L1 == Latest(faults')
            B  == Boundary
            o  == Offset(now)
<1>1. /\ k \in Nat \ {0} /\ r \in Nat /\ k - 1 \in Nat
      /\ r <= Rest(Len(Series) - 1)
  <2>1. k \in Nat \ {0} /\ k <= Len(Series) /\ Len(Series) \in Nat
    BY TodoFacts, SeriesFacts DEF BoundsInv
  <2>2. k - 1 \in Nat /\ Len(Series) - 1 \in Nat /\ k - 1 <= Len(Series) - 1
    BY <2>1
  <2>. QED  BY <2>1, <2>2, RestFacts
<1>2. /\ L \in Nat /\ L1 \in Nat /\ FirstGood <= L /\ L <= L1
      /\ faults' = faults + 1 => L1 = L + RoundTime + Pause
      /\ L1 <= FastWindow
  <2>1. faults \in Nat /\ faults <= MaxFaults /\ MaxFaults \in Nat
    BY BoundAssumption DEF TypeOK, BoundsInv
  <2>2. /\ L \in Nat /\ FirstGood <= L /\ Latest(faults + 1) = L + RoundTime + Pause
    BY <2>1, LatestFacts
  <2>3. L1 \in Nat /\ L1 <= FastWindow
    BY LatestFacts
  <2>4. L <= L1
    BY <2>1, LatestGrows
  <2>. QED  BY <2>2, <2>3, <2>4
<1>3. /\ now \in Nat /\ B \in Nat /\ now = B + o /\ o \in Nat /\ o <= Window - 1
      /\ timer \in Nat /\ FastWindow \in Nat /\ FastInterval \in Nat \ {0}
      /\ StrikeBy \in Nat /\ Window \in Nat /\ Lead \in Nat
  BY ClockFacts, Constants DEF TypeOK
<1>4. /\ now <= timer
      /\ timer + r <= B + L + RoundTime
      /\ Missed(newActive, todo) => timer + r + FastInterval <= B + L
  BY DEF TimingInv, RoundEnd
<1>5. B' = B /\ CurrentWindow(now') = CurrentWindow(now)
  BY DEF Boundary
<1>6. /\ RoundTime \in Nat /\ Rest(Len(Series) - 1) \in Nat /\ Pause \in Nat
      /\ FirstGood \in Nat /\ FastInterval <= Pause
      /\ StrikeBy + Rest(Len(Series) - 1) + FastInterval <= FirstGood
  BY SeriesFacts, PauseFacts
<1>7. /\ Missed(map, Tail(todo)) =>
              Missed(newActive, todo) \/ ~Good(map, Head(todo))
  BY TodoFacts DEF Missed, OnlyHead, Good
<1>. HIDE DEF k, r, L, L1, B, o
<1>8. now + r <= B + L1 + RoundTime
  BY <1>1, <1>2, <1>3, <1>4, <1>6
<1>9. ASSUME Missed(map, Tail(todo))
      PROVE  now + r + FastInterval <= B + L1
  <2>1. CASE Missed(newActive, todo)
    BY <1>1, <1>2, <1>3, <1>4, <2>1
  <2>2. CASE Offset(now) <= StrikeBy
    <3>1. o <= StrikeBy
      BY <2>2 DEF o
    <3>. QED  BY <1>1, <1>2, <1>3, <1>6, <3>1
  <2>3. CASE faults' = faults + 1
    BY <1>1, <1>2, <1>3, <1>4, <1>6, <2>3
  <2>. QED  BY <1>7, <1>9, <2>1, <2>2, <2>3
<1>10. CASE k > 1
  <2>1. /\ todo' = Tail(todo) /\ newActive' = map /\ timer' = now + RestTimeout
        /\ pc' = "fetch"
    BY <1>10 DEF NextSeries, k
  <2>2. RestTimeout \in Nat /\ RestTimeout + Rest(k - 2) = r /\ Rest(k - 2) \in Nat
    <3>1. k - 2 \in Nat /\ (k - 2) + 1 = k - 1
      BY <1>1, <1>10
    <3>2. Rest(k - 2) \in Nat /\ Rest(k - 1) = Rest(k - 2) + RestTimeout
      BY <3>1, RestFacts
    <3>. QED  BY <3>2, Constants DEF r
  <2>3. Len(todo') - 1 = k - 2
    BY <1>1, <2>1, TodoFacts DEF k
  <2>4. RoundEnd' = now + r /\ now' <= timer'
    <3>1. RoundEnd' = (now + RestTimeout) + Rest(k - 2)
      BY <2>1, <2>3 DEF RoundEnd
    <3>. QED  BY <1>3, <2>1, <2>2, <3>1
  <2>5. Missed(newActive, todo)' => Missed(map, Tail(todo))
    BY <1>5, <2>1 DEF Missed, Good
  <2>6. Boundary' = B /\ Latest(faults)' = L1 /\ RoundTime' = RoundTime
    BY <1>5 DEF B, L1
  <2>. QED  BY <1>8, <1>9, <2>1, <2>4, <2>5, <2>6 DEF TimingInv
<1>11. CASE ~(k > 1)
  <2>1. /\ active' = map /\ timer' = now + NextPollDelay(map, now)
        /\ pc' = "sleep"
    BY <1>11 DEF NextSeries, k
  <2>2. r = 0 /\ Tail(todo) = <<>> /\ ToSet(<<>>) = {}
    <3>1. k = 1 /\ k - 1 = 0
      BY <1>1, <1>11
    <3>. QED  BY <3>1, TodoFacts, RestFacts DEF r, k
  <2>3. Missed(map, Tail(todo)) <=> ~AllCurrentCaptured(map, now)
    BY <2>2 DEF Missed, AllCurrentCaptured, Good
  <2>4. Boundary' = B /\ Latest(faults)' = L1
    BY <1>5 DEF B, L1
  <2>5. CASE AllCurrentCaptured(map, now)
    <3>1. NextPollDelay(map, now) = (Window - o) + Lead
      BY <2>5 DEF NextPollDelay, SecondsToNextBoundary, o
    <3>2. timer' = B + Window + Lead /\ now' <= timer'
      BY <1>3, <2>1, <3>1
    <3>3. \A a \in Assets : Good(active, a)'
      BY <1>5, <2>1, <2>5 DEF AllCurrentCaptured, Good
    <3>. QED  BY <2>1, <2>4, <3>2, <3>3 DEF TimingInv
  <2>6. CASE ~AllCurrentCaptured(map, now)
    <3>1. now + FastInterval <= B + L1
      BY <1>3, <1>9, <2>2, <2>3, <2>6
    <3>2. o < FastWindow
      BY <1>2, <1>3, <3>1
    <3>3. NextPollDelay(map, now) = FastInterval
      BY <2>6, <3>2 DEF NextPollDelay, o
    <3>4. now' <= timer' /\ timer' <= B + L1
      BY <1>3, <2>1, <3>1, <3>3
    <3>. QED  BY <2>1, <2>4, <3>4 DEF TimingInv
  <2>. QED  BY <2>5, <2>6
<1>. QED  BY <1>10, <1>11

\* The actions that fail a round: its pause is what Latest allows for a failure.
LEMMA RoundFailsTiming ==
    ASSUME TypeOK, Cadence, BoundsInv, TimingInv, pc \in {"top", "fetch"}, RoundFails
    PROVE  TimingInv'
<1>1. /\ faults \in Nat /\ faults + 1 <= MaxFaults /\ faults <= MaxFaults
      /\ faults' = faults + 1 /\ MaxFaults \in Nat
  BY BoundAssumption DEF TypeOK, RoundFails
<1>. DEFINE L == Latest(faults)
            B == Boundary
            e == IF pc = "fetch" THEN Rest(Len(todo) - 1) ELSE 0
<1>2. L \in Nat /\ Latest(faults + 1) = L + RoundTime + Pause
  BY <1>1, LatestFacts
<1>3. now \in Nat /\ B \in Nat /\ backoff \in Nat /\ backoff <= Pause
  BY ClockFacts DEF TypeOK, BoundsInv
<1>4. RoundTime \in Nat /\ Pause \in Nat
  BY SeriesFacts, PauseFacts
<1>5. now <= B + L + RoundTime
  <2>1. CASE pc = "top"
    <3>1. now <= B + L
      BY <2>1 DEF TimingInv
    <3>. HIDE DEF L, B
    <3>. QED  BY <1>2, <1>3, <1>4, <3>1
  <2>2. CASE pc = "fetch"
    <3>. DEFINE r == Rest(Len(todo) - 1)
    <3>1. now <= timer /\ timer + r <= B + L + RoundTime
      BY <2>2 DEF TimingInv, RoundEnd
    <3>2. r \in Nat /\ timer \in Nat
      <4>1. Len(todo) - 1 \in Nat
        BY <2>2, TodoFacts
      <4>. QED  BY <4>1, RestFacts DEF TypeOK
    <3>. HIDE DEF L, B, r
    <3>. QED  BY <1>2, <1>3, <1>4, <3>1, <3>2
  <2>. QED  BY <2>1, <2>2
<1>6. now' = now /\ timer' = now + backoff /\ pc' = "sleep"
  BY DEF RoundFails
<1>7. Boundary' = B /\ Latest(faults)' = Latest(faults + 1)
  BY <1>1, <1>6 DEF Boundary
<1>. HIDE DEF L, B
<1>8. timer' <= Boundary' + Latest(faults)' /\ now' <= timer'
  BY <1>2, <1>3, <1>4, <1>5, <1>6, <1>7
<1>. QED  BY <1>6, <1>8 DEF TimingInv

LEMMA StartRefreshTiming ==
    ASSUME TypeOK, Cadence, BoundsInv, TimingInv, StartRefresh, ~stop
    PROVE  TimingInv'
<1>. DEFINE L == Latest(faults)
            B == Boundary
<1>1. /\ pc' = "fetch" /\ timer' = now + RestTimeout /\ todo' = Series
      /\ now' = now /\ faults' = faults /\ now <= B + L
  BY DEF StartRefresh, budgetVars, TimingInv
<1>2. /\ Boundary' = B /\ Latest(faults)' = L /\ RoundTime' = RoundTime
  BY <1>1 DEF Boundary
<1>3. L \in Nat
  <2>1. faults \in Nat /\ faults <= MaxFaults
    BY DEF TypeOK, BoundsInv
  <2>. QED  BY <2>1, LatestFacts
<1>4. /\ now \in Nat /\ B \in Nat /\ RestTimeout \in Nat
      /\ Rest(Len(Series) - 1) \in Nat
      /\ RoundTime = Rest(Len(Series) - 1) + RestTimeout
  BY ClockFacts, SeriesFacts, Constants DEF TypeOK
<1>5. RoundEnd' = (now + RestTimeout) + Rest(Len(Series) - 1)
  BY <1>1 DEF RoundEnd
<1>6. ~Missed(newActive, todo)'
  BY <1>1 DEF Missed, Assets
<1>. HIDE DEF L, B
<1>7. RoundEnd' <= B + L + RoundTime /\ now' <= timer'
  BY <1>1, <1>3, <1>4, <1>5
<1>. QED  BY <1>1, <1>2, <1>6, <1>7 DEF TimingInv

LEMMA SleepEndsTiming ==
    ASSUME TypeOK, TimingInv, SleepEnds, ~stop
    PROVE  TimingInv'
<1>1. /\ pc = "sleep" /\ now >= timer /\ pc' = "top" /\ now' = now
      /\ faults' = faults
  BY DEF SleepEnds, budgetVars
<1>2. /\ now \in Nat /\ Boundary \in Nat /\ Window \in Nat /\ Lead \in Nat
      /\ Offset(now) \in 0 .. Window - 1 /\ now = Boundary + Offset(now)
  BY ClockFacts, Constants
<1>3. timer \in Nat
  BY DEF TypeOK
<1>4. timer # Boundary + Window + Lead
  BY <1>1, <1>2, <1>3
<1>5. now <= timer /\ timer <= Boundary + Latest(faults)
  BY <1>1, <1>4 DEF TimingInv
<1>6. now <= Boundary + Latest(faults)
  <2>1. now = timer
    BY <1>1, <1>2, <1>3, <1>5
  <2>. QED  BY <1>5, <2>1
<1>7. Boundary' = Boundary /\ Latest(faults)' = Latest(faults)
  BY <1>1 DEF Boundary
<1>. QED  BY <1>1, <1>6, <1>7 DEF TimingInv

\* Within a window the clock changes nothing but the time left; over a boundary
\* it goes only while the poller sleeps with a current map.
LEMMA TickTiming ==
    ASSUME TypeOK, Cadence, BoundsInv, Tick, TimingInv, pc # "done"
    PROVE  /\ TimingInv'
           /\ CurrentWindow(now') # CurrentWindow(now)
                 => /\ CurrentWindow(now') = CurrentWindow(now) + 1
                    /\ \A a \in Assets : Good(active, a)
<1>. DEFINE L == Latest(faults)
            B == Boundary
<1>1. /\ pc \in {"fetch", "sleep"} /\ now < timer /\ now' = now + 1
      /\ UNCHANGED <<pc, timer, todo, newActive, active, faults>>
  BY DEF Tick, programVars, budgetVars, TypeOK
<1>2. /\ now \in Nat /\ B \in Nat /\ timer \in Nat /\ Window \in Nat /\ Lead \in Nat
      /\ FastWindow \in Nat /\ Lead <= FirstGood
  BY ClockFacts, Constants, PauseFacts DEF TypeOK
<1>3. L \in Nat /\ FirstGood <= L /\ L <= FastWindow
  <2>1. faults \in Nat /\ faults <= MaxFaults
    BY DEF TypeOK, BoundsInv
  <2>. QED  BY <2>1, LatestFacts
<1>4. /\ RoundTime \in Nat /\ FirstGood \in Nat
      /\ FastWindow + RoundTime < Window
  BY SeriesFacts, PauseFacts DEF Cadence
<1>5. Latest(faults)' = L /\ RoundTime' = RoundTime
  BY <1>1
<1>6. CASE /\ CurrentWindow(now') = CurrentWindow(now)
           /\ Boundary' = Boundary
  <2>1. \A a \in Assets : /\ Good(newActive, a)' <=> Good(newActive, a)
                          /\ Good(active, a)' <=> Good(active, a)
    BY <1>1, <1>6 DEF Good
  <2>2. Missed(newActive, todo)' <=> Missed(newActive, todo)
    BY <1>1, <2>1 DEF Missed
  <2>3. RoundEnd' = RoundEnd
    BY <1>1 DEF RoundEnd
  <2>4. now' <= timer'
    BY <1>1, <1>2
  <2>. QED  BY <1>1, <1>5, <1>6, <2>1, <2>2, <2>3, <2>4 DEF TimingInv
<1>7. CASE /\ CurrentWindow(now') = CurrentWindow(now) + 1
           /\ Offset(now) = Window - 1
           /\ Boundary' = Boundary + Window
  <2>1. now = B + (Window - 1)
    BY <1>7, ClockFacts
  <2>2. pc # "fetch"
    <3>1. SUFFICES ASSUME pc = "fetch" PROVE FALSE
      OBVIOUS
    <3>. DEFINE r == Rest(Len(todo) - 1)
    <3>2. timer + r <= B + L + RoundTime
      BY <3>1 DEF TimingInv, RoundEnd
    <3>3. r \in Nat
      <4>1. Len(todo) - 1 \in Nat
        BY <3>1, TodoFacts
      <4>. QED  BY <4>1, RestFacts
    <3>. HIDE DEF L, B, r
    <3>. QED  BY <1>1, <1>2, <1>3, <1>4, <2>1, <3>2, <3>3
  <2>3. pc = "sleep"
    BY <1>1, <2>2
  <2>4. \/ timer <= B + L
        \/ timer = B + Window + Lead /\ \A a \in Assets : Good(active, a)
    BY <2>3 DEF TimingInv
  <2>5. ~(timer <= B + L)
    <3>. HIDE DEF L, B
    <3>. QED  BY <1>1, <1>2, <1>3, <1>4, <2>1
  <2>6. timer' <= Boundary' + L /\ now' <= timer'
    <3>1. timer' = timer /\ timer = B + Window + Lead /\ Boundary' = B + Window
      BY <1>1, <1>7, <2>4, <2>5
    <3>. HIDE DEF L, B
    <3>. QED  BY <1>1, <1>2, <1>3, <1>4, <3>1
  <2>7. TimingInv'
    BY <1>1, <1>5, <2>3, <2>6 DEF TimingInv
  <2>. QED  BY <1>7, <2>4, <2>5, <2>7
<1>. QED  BY <1>6, <1>7, TickFacts

\* The map after an answer, as FetchOK gives it to NextSeries.
Answered == LET a == Head(todo)
            IN  IF listed[a] = None THEN newActive
                ELSE [newActive EXCEPT ![a] = ParseOpenMarket(a)]

LEMMA AnsweredFacts ==
    ASSUME TypeOK, FetchOK
    PROVE  /\ Answered \in [Assets -> MarketInfo] /\ NextSeries(Answered)
           /\ OnlyHead(Answered)
           /\ listed[Head(todo)] # None
                 => Answered[Head(todo)] = ParseOpenMarket(Head(todo))
           /\ listed[Head(todo)] = None
                 => Answered[Head(todo)] = newActive[Head(todo)]
<1>. DEFINE a == Head(todo)
<1>1. a \in Assets /\ newActive \in [Assets -> MarketInfo]
  BY FetchFacts DEF FetchOK, TypeOK
<1>2. listed[a] # None => ParseOpenMarket(a) \in MarketInfo
  BY <1>1, ParseType
<1>3. NextSeries(Answered)
  BY DEF FetchOK, Answered
<1>. HIDE DEF a
<1>4. CASE listed[a] = None
  <2>1. Answered = newActive
    BY <1>4 DEF Answered, a
  <2>. QED  BY <1>1, <1>3, <1>4, <2>1 DEF OnlyHead, a
<1>5. CASE listed[a] # None
  <2>. DEFINE p == ParseOpenMarket(a)
  <2>1. Answered = [newActive EXCEPT ![a] = p]
    BY <1>5 DEF Answered, a
  <2>2. p \in MarketInfo
    BY <1>2, <1>5
  <2>. HIDE DEF p
  <2>3. Answered \in [Assets -> MarketInfo] /\ Answered[a] = p
    BY <1>1, <2>1, <2>2
  <2>4. \A b \in Assets \ {a} : Answered[b] = newActive[b]
    BY <1>1, <2>1
  <2>. QED  BY <1>3, <1>5, <2>3, <2>4 DEF OnlyHead, a, p
<1>. QED  BY <1>4, <1>5

LEMMA FetchOKTiming ==
    ASSUME TypeOK, Cadence, BoundsInv, ExchangeInv, TimingInv, FetchOK
    PROVE  TimingInv'
<1>1. /\ pc = "fetch" /\ now' = now /\ faults' = faults
      /\ Head(todo) \in Assets
  BY FetchFacts DEF FetchOK
<1>2. faults' \in Nat /\ faults <= faults' /\ faults' <= MaxFaults
  BY <1>1 DEF TypeOK, BoundsInv
<1>3. Good(Answered, Head(todo)) \/ Offset(now) <= StrikeBy
  <2>1. SUFFICES ASSUME ~(Offset(now) <= StrikeBy)
                 PROVE  Good(Answered, Head(todo))
    OBVIOUS
  <2>2. Offset(now) > StrikeBy
    BY <2>1, ClockFacts, Constants
  <2>3. listed[Head(todo)] # None
    <3>1. listed[Head(todo)] = CurrentWindow(now)
      BY <1>1, <2>2 DEF ExchangeInv
    <3>2. CurrentWindow(now) \in Windows
      BY ClockInWindows DEF TypeOK
    <3>. QED  BY <3>1, <3>2, SeriesAssumption
  <2>4. Answered[Head(todo)] = ParseOpenMarket(Head(todo))
    BY <2>3, AnsweredFacts
  <2>. QED  BY <1>1, <2>2, <2>4, AnswerIsGood
<1>4. Answered \in [Assets -> MarketInfo] /\ NextSeries(Answered) /\ OnlyHead(Answered)
  BY AnsweredFacts
<1>. QED  BY <1>1, <1>2, <1>3, <1>4, NextSeriesTiming

Retained == [newActive EXCEPT ![Head(todo)] = active[Head(todo)]]

LEMMA RetainedFacts ==
    ASSUME TypeOK, FetchFails
    PROVE  /\ Retained \in [Assets -> MarketInfo] /\ NextSeries(Retained)
           /\ OnlyHead(Retained)
           /\ Retained[Head(todo)] = active[Head(todo)]
<1>. DEFINE a == Head(todo)
            p == active[a]
<1>1. /\ a \in Assets /\ newActive \in [Assets -> MarketInfo]
      /\ p \in MarketInfo
  BY FetchFacts DEF FetchFails, TypeOK
<1>2. NextSeries(Retained)
  BY DEF FetchFails, Retained
<1>3. Retained = [newActive EXCEPT ![a] = p]
  BY DEF Retained
<1>. HIDE DEF a, p
<1>4. Retained \in [Assets -> MarketInfo] /\ Retained[a] = p
  BY <1>1, <1>3
<1>5. \A b \in Assets \ {a} : Retained[b] = newActive[b]
  BY <1>1, <1>3
<1>. QED  BY <1>2, <1>4, <1>5 DEF OnlyHead, a, p

LEMMA FetchFailsTiming ==
    ASSUME TypeOK, Cadence, BoundsInv, TimingInv, FetchFails
    PROVE  TimingInv'
<1>1. /\ pc = "fetch" /\ now' = now /\ faults' = faults + 1
  BY DEF FetchFails
<1>2. faults' \in Nat /\ faults <= faults' /\ faults' <= MaxFaults
  BY BoundAssumption DEF TypeOK, FetchFails
<1>3. Retained \in [Assets -> MarketInfo] /\ NextSeries(Retained) /\ OnlyHead(Retained)
  BY RetainedFacts
<1>. QED  BY <1>1, <1>2, <1>3, NextSeriesTiming

\* The bounds, and the exchange.
LEMMA BoundsNext == TypeOK /\ BoundsInv /\ [Next]_vars => BoundsInv'
<1>. SUFFICES ASSUME TypeOK, BoundsInv, [Next]_vars
              PROVE  BoundsInv'
  OBVIOUS
<1>1. /\ faults \in Nat /\ MaxFaults \in Nat /\ faults <= MaxFaults /\ backoff \in Nat
      /\ backoff <= Pause /\ INITIAL_BACKOFF <= Pause /\ MAX_BACKOFF <= Pause
      /\ Pause' = Pause /\ Len(todo) <= Len(Series)
  BY BoundAssumption, PauseFacts DEF TypeOK, BoundsInv, Pause
<1>2. /\ Len(<<>>) = 0 /\ Len(Series) \in Nat /\ 0 <= Len(Series)
  BY SeriesFacts
<1>3. ASSUME NEW map, pc = "fetch", NextSeries(map)
      PROVE  /\ backoff' <= Pause /\ Len(todo') <= Len(Series)
  <2>1. Len(todo) \in Nat \ {0} /\ Len(Tail(todo)) = Len(todo) - 1
    BY <1>3, TodoFacts
  <2>2. Len(Tail(todo)) <= Len(Series)
    BY <1>1, <1>2, <2>1
  <2>. QED  BY <1>1, <1>2, <1>3, <2>2 DEF NextSeries
<1>4. CASE FetchOK
  <2>1. PICK map \in [Assets -> MarketInfo] : NextSeries(map)
    BY <1>4, AnswerFacts
  <2>. QED  BY <1>1, <1>3, <1>4, <2>1 DEF FetchOK, BoundsInv
<1>5. CASE FetchFails
  <2>1. NextSeries(Retained) /\ pc = "fetch" /\ faults' = faults + 1 /\ faults < MaxFaults
    BY <1>5, RetainedFacts DEF FetchFails
  <2>2. faults' <= MaxFaults
    BY <1>1, <2>1
  <2>. QED  BY <1>1, <1>3, <2>1, <2>2 DEF BoundsInv
<1>6. CASE CredsFail \/ AnswerInvalid
  <2>1. RoundFails
    BY <1>6 DEF CredsFail, AnswerInvalid
  <2>2. faults' <= MaxFaults
    BY <1>1, <2>1 DEF RoundFails
  <2>3. backoff' <= Pause
    BY <1>1, <2>1, PauseFacts, Constants DEF RoundFails
  <2>4. todo' = <<>>
    BY <2>1 DEF RoundFails
  <2>. QED  BY <1>1, <1>2, <2>2, <2>3, <2>4 DEF BoundsInv
<1>7. CASE StartRefresh
  <2>1. Len(todo') <= Len(Series) /\ backoff' = backoff /\ faults' = faults
    BY <1>1, <1>2, <1>7 DEF StartRefresh, budgetVars
  <2>. QED  BY <1>1, <2>1 DEF BoundsInv
<1>8. CASE Restart
  <2>1. todo' = <<>> /\ backoff' = INITIAL_BACKOFF /\ faults' = faults
    BY <1>8 DEF Restart
  <2>. QED  BY <1>1, <1>2, <2>1 DEF BoundsInv
<1>9. CASE UNCHANGED <<backoff, faults, todo>>
  BY <1>1, <1>9 DEF BoundsInv
<1>. QED
  BY <1>4, <1>5, <1>6, <1>7, <1>8, <1>9
  DEF Next, vars, Refresh, SleepEnds, Stop, Exchange, Delist, List, SetStrike,
      Tick, Horizon, programVars, budgetVars

LEMMA ExchangeNext ==
    ASSUME TypeOK, Cadence, ExchangeInv, [Next]_vars
    PROVE  ExchangeInv'
<1>1. CASE Exchange
  <2>1. PICK a \in Assets : Delist(a) \/ List(a) \/ SetStrike(a)
    BY <1>1 DEF Exchange
  <2>2. now' = now
    BY <2>1 DEF Delist, List, SetStrike
  <2>3. listed \in [Assets -> Windows \cup {None}] /\ strike \in [Assets -> BOOLEAN]
    BY DEF TypeOK
  <2>. DEFINE c == CurrentWindow(now)
              late == Offset(now) > StrikeBy
  <2>4. CurrentWindow(now') = c /\ (Offset(now') > StrikeBy <=> late)
    BY <2>2
  <2>5. \A b \in Assets : /\ listed[b] \in {None, c, c - 1}
                          /\ late => listed[b] = c /\ strike[b]
    BY DEF ExchangeInv
  <2>6. \/ listed[a] # c /\ listed' = [listed EXCEPT ![a] = None] /\ strike' = strike
        \/ /\ listed[a] # c
           /\ listed' = [listed EXCEPT ![a] = c]
           /\ strike' = [strike EXCEPT ![a] = FALSE]
        \/ listed' = listed /\ strike' = [strike EXCEPT ![a] = TRUE]
    BY <2>1 DEF Delist, List, SetStrike
  <2>. HIDE DEF c, late
  <2>7. \A b \in Assets : /\ listed'[b] \in {None, c, c - 1}
                          /\ late => listed'[b] = c /\ strike'[b]
    BY <2>3, <2>5, <2>6
  <2>. QED  BY <2>4, <2>7 DEF ExchangeInv, c, late
<1>2. CASE Tick
  <2>1. listed' = listed /\ strike' = strike /\ \A a \in Assets : Punctual(a)
    BY <1>2 DEF Tick, exchangeVars
  <2>2. /\ Offset(now) \in 0 .. Window - 1 /\ StrikeBy \in Nat /\ Window \in Nat
        /\ CurrentWindow(now) \in Nat
    BY ClockFacts, Constants
  <2>3. CASE CurrentWindow(now') = CurrentWindow(now) /\ Offset(now') = Offset(now) + 1
    <3>1. Offset(now') > StrikeBy => Offset(now) >= StrikeBy
      BY <2>2, <2>3
    <3>. QED  BY <2>1, <2>3, <3>1 DEF ExchangeInv, Punctual
  <2>4. CASE /\ CurrentWindow(now') = CurrentWindow(now) + 1
             /\ Offset(now') = 0 /\ Offset(now) = Window - 1
    <3>1. StrikeBy < Window
      <4>1. 0 \in Nat /\ 0 <= MaxFaults
        BY BoundAssumption
      <4>2. FirstGood <= Latest(0) /\ Latest(0) <= FastWindow /\ Latest(0) \in Nat
        BY <4>1, LatestFacts
      <4>3. /\ StrikeBy + Rest(Len(Series) - 1) + FastInterval <= FirstGood
            /\ FirstGood \in Nat /\ Rest(Len(Series) - 1) \in Nat
        BY PauseFacts, SeriesFacts
      <4>4. FastInterval \in Nat /\ FastWindow \in Nat /\ FastWindow < Window
        BY Constants
      <4>. QED  BY <2>2, <4>2, <4>3, <4>4
    <3>2. Offset(now) >= StrikeBy
      BY <2>2, <2>4, <3>1
    <3>3. \A a \in Assets : listed[a] = CurrentWindow(now)
      BY <2>1, <3>2 DEF Punctual
    <3>4. CurrentWindow(now) = CurrentWindow(now') - 1
      BY <2>2, <2>4
    <3>5. ~(Offset(now') > StrikeBy)
      BY <2>2, <2>4
    <3>. QED  BY <2>1, <3>3, <3>4, <3>5 DEF ExchangeInv
  <2>. QED  BY <1>2, <2>3, <2>4, TickFacts
<1>3. CASE UNCHANGED <<now, listed, strike>>
  BY <1>3 DEF ExchangeInv
<1>. QED
  BY <1>1, <1>2, <1>3
  DEF Next, vars, Refresh, StartRefresh, FetchOK, FetchFails, CredsFail,
      AnswerInvalid, RoundFails, SleepEnds, Stop, Restart, Horizon, exchangeVars

\* The entries of the maps.
LEMMA ParsedEntry ==
    ASSUME TypeOK, ExchangeInv, FetchOK, NEW a \in Assets, a = Head(todo),
           listed[a] # None, NEW p, p = ParseOpenMarket(a)
    PROVE  /\ \/ p.window = p.start
              \/ a \in undated /\ p.window = p.start - 1
           /\ p.ref => <<a, p.window>> \in seenOpen'
<1>1. listed[a] = CurrentWindow(now) \/ listed[a] = CurrentWindow(now) - 1
  BY DEF ExchangeInv
<1>2. strike[a] => <<a, listed[a]>> \in seenOpen'
  <2>1. CASE strike[a] /\ <<a, listed[a]>> \notin seenOpen
    <3>1. WriteOpenMarker(a, listed[a])
      BY <2>1 DEF FetchOK
    <3>. QED  BY <3>1 DEF WriteOpenMarker
  <2>2. CASE <<a, listed[a]>> \in seenOpen
    <3>1. seenOpen \subseteq seenOpen'
      BY DEF FetchOK, WriteOpenMarker
    <3>. QED  BY <2>2, <3>1
  <2>. QED  BY <2>1, <2>2
<1>. QED  BY <1>1, <1>2 DEF ParseOpenMarket

LEMMA NextSeriesMaps ==
    ASSUME NEW map, NextSeries(map)
    PROVE  /\ newActive' = map \/ newActive' = NoMarkets
           /\ active' = active \/ active' = map
BY DEF NextSeries

EntriesInv == EntryInv(newActive) /\ EntryInv(active)

\* What is in a map stays right as long as the tickers seen stay seen.
LEMMA EntriesKept ==
    ASSUME EntriesInv, seenOpen \subseteq seenOpen', undated' = undated,
           newActive' \in {newActive, NoMarkets}, active' \in {active, NoMarkets}
    PROVE  EntriesInv'
<1>1. \A a \in Assets : NoMarkets[a] = None
  BY DEF NoMarkets
<1>2. EntryInv(newActive)'
  BY <1>1 DEF EntriesInv, EntryInv
<1>3. EntryInv(active)'
  BY <1>1 DEF EntriesInv, EntryInv
<1>. QED  BY <1>2, <1>3 DEF EntriesInv

\* A map whose entries are right once this step is done.
WillBeRight(map) ==
    \A a \in Assets : map[a] # None =>
        /\ \/ map[a].window = map[a].start
           \/ a \in undated /\ map[a].window = map[a].start - 1
        /\ map[a].ref => <<a, map[a].window>> \in seenOpen'

LEMMA EntriesExtended ==
    ASSUME EntriesInv, seenOpen \subseteq seenOpen', undated' = undated,
           NEW map, WillBeRight(map), NextSeries(map)
    PROVE  EntriesInv'
<1>1. \A a \in Assets : NoMarkets[a] = None
  BY DEF NoMarkets
<1>2. EntryInv(newActive)'
  BY <1>1, NextSeriesMaps DEF EntryInv, WillBeRight
<1>3. EntryInv(active)'
  BY NextSeriesMaps DEF EntriesInv, EntryInv, WillBeRight
<1>. QED  BY <1>2, <1>3 DEF EntriesInv

LEMMA EntriesNext ==
    ASSUME TypeOK, ExchangeInv, EntriesInv, [Next]_vars
    PROVE  EntriesInv'
<1>1. CASE FetchOK
  <2>. DEFINE h == Head(todo)
  <2>1. seenOpen \subseteq seenOpen' /\ undated' = undated
    BY <1>1 DEF FetchOK, WriteOpenMarker, exchangeVars
  <2>2. NextSeries(Answered) /\ OnlyHead(Answered)
    BY <1>1, AnsweredFacts
  <2>3. WillBeRight(Answered)
    <3>1. ASSUME NEW a \in Assets, Answered[a] = newActive[a], Answered[a] # None
          PROVE  /\ \/ Answered[a].window = Answered[a].start
                    \/ a \in undated /\ Answered[a].window = Answered[a].start - 1
                 /\ Answered[a].ref => <<a, Answered[a].window>> \in seenOpen'
      BY <2>1, <3>1 DEF EntriesInv, EntryInv
    <3>2. ASSUME NEW a \in Assets, a = h, listed[a] # None
          PROVE  /\ \/ Answered[a].window = Answered[a].start
                    \/ a \in undated /\ Answered[a].window = Answered[a].start - 1
                 /\ Answered[a].ref => <<a, Answered[a].window>> \in seenOpen'
      <4>1. Answered[a] = ParseOpenMarket(a)
        BY <1>1, <3>2, AnsweredFacts
      <4>2. a = Head(todo)
        BY <3>2
      <4>. DEFINE p == Answered[a]
      <4>3. p = ParseOpenMarket(a)
        BY <4>1
      <4>. HIDE DEF p
      <4>4. /\ \/ p.window = p.start
               \/ a \in undated /\ p.window = p.start - 1
            /\ p.ref => <<a, p.window>> \in seenOpen'
        BY <1>1, <3>2, <4>2, <4>3, ParsedEntry
      <4>. QED  BY <4>4 DEF p
    <3>3. \A a \in Assets : Answered[a] = newActive[a] \/ (a = h /\ listed[a] # None)
      <4>1. \A a \in Assets \ {h} : Answered[a] = newActive[a]
        BY <2>2 DEF OnlyHead
      <4>2. listed[h] = None => Answered[h] = newActive[h]
        BY <1>1, AnsweredFacts
      <4>. QED  BY <4>1, <4>2
    <3>. QED  BY <3>1, <3>2, <3>3 DEF WillBeRight
  <2>. QED  BY <2>1, <2>2, <2>3, EntriesExtended
<1>2. CASE FetchFails
  <2>1. seenOpen' = seenOpen /\ undated' = undated
    BY <1>2 DEF FetchFails, exchangeVars
  <2>2. NextSeries(Retained) /\ OnlyHead(Retained)
        /\ Retained[Head(todo)] = active[Head(todo)]
    BY <1>2, RetainedFacts
  <2>3. WillBeRight(Retained)
    BY <2>1, <2>2 DEF WillBeRight, OnlyHead, EntriesInv, EntryInv
  <2>. QED  BY <2>1, <2>2, <2>3, EntriesExtended
<1>3. CASE Restart
  <2>1. newActive' = NoMarkets /\ active' = NoMarkets
    BY <1>3 DEF Restart
  <2>2. \A a \in Assets : NoMarkets[a] = None
    BY DEF NoMarkets
  <2>. QED  BY <2>1, <2>2 DEF EntriesInv, EntryInv
<1>4. CASE /\ seenOpen' = seenOpen /\ undated' = undated /\ active' = active
           /\ newActive' \in {newActive, NoMarkets}
  BY <1>4, EntriesKept
<1>. QED
  BY <1>1, <1>2, <1>3, <1>4
  DEF Next, vars, Refresh, StartRefresh, CredsFail, AnswerInvalid, RoundFails,
      SleepEnds, Stop, Exchange, Delist, List, SetStrike, Tick, Horizon,
      exchangeVars, programVars, budgetVars

-----------------------------------------------------------------------------
(***************************************************************************)
(* The invariant of the cadence                                            *)
(***************************************************************************)
CadenceInv ==
    /\ TypeOK /\ BoundsInv /\ ExchangeInv /\ EntriesInv
    /\ Running /\ restarts = 0 => TimingInv

LEMMA TimingNext ==
    ASSUME CadenceInv, Cadence, [Next]_vars, Running', restarts' = 0
    PROVE  TimingInv' /\ Running /\ restarts = 0
<1>1. Running /\ restarts = 0
  <2>1. CASE Restart
    BY <2>1 DEF Restart, CadenceInv, TypeOK
  <2>2. CASE ~Restart
    BY <2>2
    DEF Next, vars, Running, Refresh, StartRefresh, FetchOK, FetchFails, CredsFail,
        AnswerInvalid, RoundFails, SleepEnds, Stop, Exchange, Delist, List,
        SetStrike, Tick, Horizon, exchangeVars, programVars, budgetVars, NextSeries,
        WriteOpenMarker
  <2>. QED  BY <2>1, <2>2
<1>2. /\ TypeOK /\ BoundsInv /\ ExchangeInv /\ TimingInv
      /\ ~stop /\ pc # "done" /\ ~stop'
  BY <1>1 DEF CadenceInv, Running
<1>3. CASE StartRefresh
  BY <1>1, <1>2, <1>3, StartRefreshTiming
<1>4. CASE FetchOK
  BY <1>1, <1>2, <1>4, FetchOKTiming
<1>5. CASE FetchFails
  BY <1>1, <1>2, <1>5, FetchFailsTiming
<1>6. CASE CredsFail \/ AnswerInvalid
  BY <1>1, <1>2, <1>6, RoundFailsTiming DEF CredsFail, AnswerInvalid
<1>7. CASE SleepEnds
  BY <1>1, <1>2, <1>7, SleepEndsTiming
<1>8. CASE Restart
  BY <1>8 DEF Restart, CadenceInv, TypeOK
<1>9. CASE Tick
  BY <1>1, <1>2, <1>9, TickTiming
<1>10. CASE UNCHANGED <<now, pc, timer, todo, newActive, active, faults>>
  BY <1>1, <1>2, <1>10 DEF TimingInv, Boundary, RoundEnd, Missed, Good
<1>. QED
  BY <1>1, <1>2, <1>3, <1>4, <1>5, <1>6, <1>7, <1>8, <1>9, <1>10
  DEF Next, vars, Refresh, Stop, Exchange, Delist, List, SetStrike, Horizon,
      programVars, budgetVars

LEMMA CadenceInit ==
    ASSUME Init, Cadence, StartsInTime
    PROVE  CadenceInv
<1>1. TypeOK
  BY InitInv DEF IInv
<1>2. /\ Len(<<>>) = 0 /\ Len(Series) \in Nat /\ 0 <= Len(Series)
      /\ INITIAL_BACKOFF <= Pause /\ MaxFaults \in Nat /\ 0 <= MaxFaults
  BY SeriesFacts, PauseFacts, BoundAssumption
<1>3. BoundsInv
  BY <1>2 DEF Init, BoundsInv
<1>4. ExchangeInv
  <2>1. Offset(now) \in Nat /\ StrikeBy \in Nat
    BY <1>1, ClockFacts, Constants
  <2>2. Offset(now) > StrikeBy => Offset(now) >= StrikeBy
    BY <2>1
  <2>3. \A a \in Assets :
           /\ strike[a] <=> Offset(now) >= StrikeBy
           /\ listed[a] = IF strike[a] THEN CurrentWindow(now) ELSE None
    BY DEF Init
  <2>. QED  BY <2>2, <2>3 DEF ExchangeInv
<1>5. EntriesInv
  BY DEF Init, EntriesInv, EntryInv, NoMarkets
<1>6. TimingInv
  <2>1. 0 \in Nat /\ FirstGood <= Latest(0) /\ Latest(0) \in Nat /\ FirstGood \in Nat
    BY <1>2, LatestFacts, PauseFacts
  <2>2. /\ Offset(now) <= FirstGood /\ Offset(now) \in Nat /\ Boundary \in Nat
        /\ now = Boundary + Offset(now)
    BY <1>1, ClockFacts DEF Init, StartsInTime
  <2>3. now <= Boundary + Latest(0)
    BY <2>1, <2>2
  <2>. QED  BY <2>3 DEF Init, TimingInv
<1>. QED  BY <1>1, <1>3, <1>4, <1>5, <1>6 DEF CadenceInv

LEMMA CadenceNext ==
    ASSUME CadenceInv, Cadence, [Next]_vars
    PROVE  CadenceInv'
<1>1. TypeOK'
  BY TypeNext DEF CadenceInv
<1>2. BoundsInv' /\ ExchangeInv' /\ EntriesInv'
  BY BoundsNext, ExchangeNext, EntriesNext DEF CadenceInv
<1>3. ASSUME Running', restarts' = 0
      PROVE  TimingInv'
  BY <1>3, TimingNext
<1>. QED  BY <1>1, <1>2, <1>3 DEF CadenceInv

LEMMA CadenceHolds ==
    ASSUME Cadence, StartsInTime
    PROVE  Spec => []CadenceInv
<1>1. Init => CadenceInv
  BY CadenceInit
<1>2. CadenceInv /\ [Next]_vars => CadenceInv'
  BY CadenceNext
<1>. QED  BY <1>1, <1>2, PTL DEF Spec

\* Once no round of the fast phase can be under way any more, the poller sleeps
\* with a map it found complete.
LEMMA CurrentWhenSleeping ==
    ASSUME CadenceInv, Cadence
    PROVE  MapIsCurrent
<1>. SUFFICES ASSUME Running, restarts = 0, Offset(now) >= FastPhaseOver
              PROVE  \A a \in Assets :
                        /\ active[a] # None /\ active[a].ref
                        /\ active[a].start = CurrentWindow(now)
                        /\ \/ active[a].window = CurrentWindow(now)
                           \/ /\ a \in undated
                              /\ active[a].window = CurrentWindow(now) - 1
  BY DEF MapIsCurrent
<1>. DEFINE L == Latest(faults)
            B == Boundary
            o == Offset(now)
<1>1. TypeOK /\ TimingInv /\ BoundsInv /\ EntriesInv /\ pc # "done"
  BY DEF CadenceInv, Running
<1>2. L \in Nat /\ L <= FastWindow
  <2>1. faults \in Nat /\ faults <= MaxFaults
    BY <1>1 DEF TypeOK, BoundsInv
  <2>. QED  BY <2>1, LatestFacts
<1>3. /\ now = B + o /\ B \in Nat /\ o \in Nat /\ timer \in Nat
      /\ FastWindow \in Nat /\ FastInterval \in Nat \ {0} /\ RoundTime \in Nat
  BY <1>1, ClockFacts, Constants, SeriesFacts DEF TypeOK
<1>4. o >= FastWindow + FastInterval + RoundTime
  BY DEF FastPhaseOver, RoundTime, Rest
<1>5. pc # "top"
  <2>1. pc = "top" => now <= B + L
    BY <1>1 DEF TimingInv
  <2>. HIDE DEF L, B, o
  <2>. QED  BY <1>2, <1>3, <1>4, <2>1
<1>6. pc # "fetch"
  <2>1. SUFFICES ASSUME pc = "fetch" PROVE FALSE
    OBVIOUS
  <2>. DEFINE r == Rest(Len(todo) - 1)
  <2>2. now <= timer /\ timer + r <= B + L + RoundTime
    BY <1>1, <2>1 DEF TimingInv, RoundEnd
  <2>3. r \in Nat
    <3>1. Len(todo) - 1 \in Nat
      BY <1>1, <2>1, TodoFacts
    <3>. QED  BY <3>1, RestFacts
  <2>. HIDE DEF L, B, o, r
  <2>. QED  BY <1>2, <1>3, <1>4, <2>2, <2>3
<1>7. /\ pc = "sleep" /\ now <= timer
      /\ timer <= B + L \/ \A a \in Assets : Good(active, a)
  BY <1>1, <1>5, <1>6 DEF TimingInv, TypeOK
<1>8. ~(timer <= B + L)
  <2>1. now <= timer
    BY <1>7
  <2>. HIDE DEF L, B, o
  <2>. QED  BY <1>2, <1>3, <1>4, <2>1
<1>9. \A a \in Assets : Good(active, a)
  BY <1>7, <1>8
<1>. QED  BY <1>1, <1>9 DEF Good, EntriesInv, EntryInv

\* The windows gone by have been seen.
MarkInv == Running /\ restarts = 0 => SeenSoFar

LEMMA MarkInit ==
    ASSUME Init, StartTimes \subseteq 0 .. FirstGood, Cadence
    PROVE  MarkInv
<1>1. 0 \in Nat /\ 0 <= MaxFaults
  BY BoundAssumption
<1>2. /\ FirstGood <= Latest(0) /\ Latest(0) <= FastWindow /\ Latest(0) \in Nat
      /\ FirstGood \in Nat
  BY <1>1, LatestFacts, PauseFacts
<1>3. now \in 0 .. FirstGood /\ FastWindow < Window /\ FastWindow \in Nat
      /\ Window \in Nat \ {0}
  BY Constants DEF Init
<1>4. 0 \in Nat /\ now \in 0 .. Window - 1 /\ now = Window * 0 + now
  BY <1>2, <1>3
<1>5. CurrentWindow(now) = 0
  BY <1>4, WindowUnique
<1>6. \A w \in Windows : ~(w < CurrentWindow(now))
  BY <1>5 DEF Windows
<1>. QED  BY <1>6 DEF MarkInv, SeenSoFar

LEMMA MarkNext ==
    ASSUME CadenceInv, Cadence, MarkInv, [Next]_vars
    PROVE  MarkInv'
<1>. SUFFICES ASSUME Running', restarts' = 0
              PROVE  SeenSoFar'
  BY DEF MarkInv
<1>1. Running /\ restarts = 0 /\ SeenSoFar /\ TimingInv /\ TypeOK /\ BoundsInv
      /\ EntriesInv
  BY TimingNext DEF MarkInv, CadenceInv
<1>2. Windows' = Windows /\ Assets' = Assets
  BY DEF Windows, Assets
<1>3. CASE Tick
  <2>1. seenOpen' = seenOpen /\ undated' = undated
    BY <1>3 DEF Tick, exchangeVars, programVars
  <2>2. CASE CurrentWindow(now') = CurrentWindow(now)
    BY <1>1, <2>1, <2>2 DEF SeenSoFar
  <2>3. CASE CurrentWindow(now') # CurrentWindow(now)
    <3>1. /\ CurrentWindow(now') = CurrentWindow(now) + 1
          /\ \A a \in Assets : Good(active, a)
      BY <1>1, <1>3, <2>3, TickTiming DEF Running
    <3>2. \A a \in Assets \ undated : <<a, CurrentWindow(now)>> \in seenOpen
      BY <1>1, <3>1 DEF Good, EntriesInv, EntryInv
    <3>3. \A w \in Windows : w < CurrentWindow(now) + 1
                                => w < CurrentWindow(now) \/ w = CurrentWindow(now)
      BY <1>1, ClockFacts DEF Windows
    <3>. QED  BY <1>1, <2>1, <3>1, <3>2, <3>3 DEF SeenSoFar
  <2>. QED  BY <2>2, <2>3
<1>4. CASE now' = now /\ undated' = undated /\ seenOpen \subseteq seenOpen'
  BY <1>1, <1>4 DEF SeenSoFar
<1>5. ~Restart
  BY <1>1 DEF Restart, TypeOK
<1>6. CASE FetchOK
  BY <1>4, <1>6 DEF FetchOK, WriteOpenMarker, exchangeVars
<1>. QED
  BY <1>3, <1>4, <1>5, <1>6
  DEF Next, vars, Refresh, StartRefresh, FetchFails, CredsFail, AnswerInvalid,
      RoundFails, SleepEnds, Stop, Exchange, Delist, List, SetStrike, Horizon,
      exchangeVars, programVars, budgetVars

LEMMA SeenWindowsMarked ==
    ASSUME TypeOK, MarkInv, SeenIsMarked
    PROVE  EveryWindowMarked
<1>. SUFFICES ASSUME Running, restarts = 0, sinkFaults = 0,
                     NEW m \in (Assets \ undated) \X (0 .. CurrentWindow(now) - 1)
              PROVE  markers[m] = 1
  BY DEF EveryWindowMarked
<1>0. PICK a \in Assets \ undated, w \in 0 .. CurrentWindow(now) - 1 : m = <<a, w>>
  OBVIOUS
<1>1. CurrentWindow(now) \in Windows /\ MaxTime \div Window \in Nat
  <2>1. MaxTime \in Nat /\ Window \in Nat \ {0}
    BY Constants
  <2>2. MaxTime \div Window \in Nat
    BY <2>1
  <2>. QED  BY <2>2, ClockInWindows DEF TypeOK
<1>2. w \in Windows /\ w < CurrentWindow(now)
  BY <1>1 DEF Windows
<1>3. <<a, w>> \in seenOpen
  BY <1>2 DEF MarkInv, SeenSoFar
<1>. QED  BY <1>0, <1>3 DEF SeenIsMarked

\* A poller that is up since the start of a window never sleeps through a
\* rollover on an old map: with the failures of the run within the time the fast
\* phase allows for (Cadence), the map holds the running window's market of every
\* series from the end of the fast phase to the end of the window
\* (_next_poll_delay, _all_current_captured, refresh_once).
THEOREM MapStaysCurrent ==
    ASSUME Cadence, StartsInTime
    PROVE  Spec => []MapIsCurrent
<1>1. CadenceInv => MapIsCurrent
  BY CurrentWhenSleeping
<1>. QED  BY CadenceHolds, <1>1, PTL

\* And it skips no window: the market of every window gone by since the first has
\* its open marker, if it has an open_time and the sink has refused nothing.
THEOREM WindowsAreMarked ==
    ASSUME Cadence, StartTimes \subseteq 0 .. FirstGood
    PROVE  Spec => []EveryWindowMarked
<1>1. StartsInTime
  <2>1. \A t \in 0 .. FirstGood : Offset(t) <= FirstGood
    <3>. TAKE t \in 0 .. FirstGood
    <3>1. t \in Nat /\ FirstGood \in Nat /\ t <= FirstGood
      BY PauseFacts
    <3>2. /\ CurrentWindow(t) \in Nat /\ Offset(t) \in 0 .. Window - 1
          /\ t = Window * CurrentWindow(t) + Offset(t)
      BY <3>1, WindowOf
    <3>. DEFINE c == Window * CurrentWindow(t)
    <3>3. Window \in Nat
      BY Constants
    <3>4. c \in Nat /\ t = c + Offset(t) /\ Offset(t) \in Nat
      BY <3>2, <3>3
    <3>. HIDE DEF c
    <3>. QED  BY <3>1, <3>4
  <2>. QED  BY <2>1 DEF StartsInTime
<1>2. Spec => []CadenceInv
  BY <1>1, CadenceHolds
<1>3. Init => MarkInv
  BY MarkInit
<1>4. CadenceInv /\ MarkInv /\ [Next]_vars => MarkInv'
  BY MarkNext
<1>5. CadenceInv /\ IInv /\ MarkInv => EveryWindowMarked
  BY SeenWindowsMarked DEF CadenceInv, IInv
<1>. QED  BY <1>2, <1>3, <1>4, <1>5, Inductive, PTL DEF Spec

=============================================================================
