--------------------------- MODULE KalshiWSProofs ---------------------------
(***************************************************************************)
(* Proofs about KalshiWS, for every set of tickers and every bound.        *)
(***************************************************************************)
EXTENDS KalshiWS, TLAPS

-----------------------------------------------------------------------------
(***************************************************************************)
(* Type correctness                                                        *)
(***************************************************************************)

\* Commands and frames put on the wire are well formed.
LEMMA WireTypes ==
    /\ \A a \in Actions, S \in SUBSET Tickers : Cmd(a, S) \in Command
    /\ SubscribedFrame \in Frame
    /\ ErrorFrame \in Frame
    /\ \A type \in MarketTypes, t \in Tickers, n, v \in Nat :
          MarketFrame(type, t, n, v) \in Frame
BY DEF Cmd, Command, SubscribedFrame, ErrorFrame, MarketFrame, Frame

\* What _send_update leaves on the wire.
LEMMA UpdateType ==
    ASSUME TypeOK, NEW a \in Actions, NEW S \in SUBSET Tickers
    PROVE  UpdateCmds(a, S) \in Seq(Command)
BY WireTypes DEF UpdateCmds, TypeOK

\* The head of a non-empty stream is a frame; a market frame has its fields.
LEMMA HeadType ==
    ASSUME TypeOK, chan # <<>>
    PROVE  /\ Head(chan) \in Frame
           /\ Tail(chan) \in Seq(Frame)
           /\ Head(chan).type \in MarketTypes =>
                 /\ Head(chan).ticker \in Tickers
                 /\ Head(chan).seq \in Nat
                 /\ Head(chan).ver \in Nat
           /\ Head(chan).type = "subscribed" => Head(chan).sid = 1
BY DEF TypeOK, Frame, MarketTypes, SubscribedFrame, ErrorFrame

\* The empty dictionary, and a dictionary with an entry set.
LEMMA EmptyType ==
    DOMAIN NoBooks = {} /\ IsBooks(NoBooks)
BY DEF NoBooks, IsBooks

LEMMA PutType ==
    ASSUME NEW f, IsBooks(f), NEW t \in Tickers, NEW b \in SUBSET Nat
    PROVE  /\ IsBooks(Put(f, t, b))
           /\ DOMAIN Put(f, t, b) = DOMAIN f \cup {t}
<1>1. Put(f, t, b) \in [DOMAIN f \cup {t} -> SUBSET Nat]
  BY DEF Put, IsBooks
<1>2. DOMAIN Put(f, t, b) = DOMAIN f \cup {t}
  BY DEF Put
<1> QED
  BY <1>1, <1>2 DEF IsBooks

\* A change added to a book.
LEMMA AddType ==
    ASSUME NEW f, IsBooks(f), NEW t \in DOMAIN f, NEW n \in Nat
    PROVE  IsBooks([f EXCEPT ![t] = @ \cup {n}])
BY DEF IsBooks

\* Every state has the declared types (collectors.py and the modelled feed).
LEMMA TypeInit == Init => TypeOK
<1> SUFFICES ASSUME Init PROVE TypeOK
  OBVIOUS
<1>1. backoff \in INITIAL_BACKOFF .. MAX_BACKOFF
  BY BackoffAssumption DEF Init
<1>2. cmds \in Seq(Command) /\ chan \in Seq(Frame)
  BY DEF Init
<1>3. active \subseteq Tickers
  BY EnvironmentAssumption DEF Init
<1>4. sid \in {None, 1}
  BY DEF Init
<1>5. IsBooks(books) /\ DOMAIN books = {}
  BY EmptyType DEF Init
<1> QED
  BY <1>1, <1>2, <1>3, <1>4, <1>5 DEF Init, TypeOK

\* The alternatives of Next, for the proofs that go through them one by one.
LEMMA NextCases ==
    ASSUME Next
    PROVE  \/ LoopTop \/ ConnectOK \/ SubscribeSent \/ ConnectionLost
           \/ BackoffDone \/ Stop \/ StopExit \/ Finished
           \/ ReconIdle \/ ReconSubscribe \/ ReconUpdate \/ ReconDelete
           \/ ReconSent
           \/ HandleSubscribed \/ HandleError \/ HandleSnapshot
           \/ HandleDelta \/ HandleGap \/ ResyncSent
           \/ Rollover \/ ServeCommand \/ RejectCommand \/ LoseFrame
           \/ \E t \in Tickers : SendSnapshot(t) \/ MarketMoves(t)
BY DEF Next, Loop, Reconcile, HandleRaw, Feed, Faults

LEMMA TypeStep == TypeOK /\ [Next]_vars => TypeOK'
<1> SUFFICES ASSUME TypeOK, Next PROVE TypeOK'
  BY DEF TypeOK, vars
<1> USE DEF hookVars, taskVars, loopVars, serverVars, historyVars, budgetVars
<1>1. CASE LoopTop
  BY <1>1 DEF LoopTop, TypeOK
<1>2. CASE ConnectOK
  <2>1. IsBooks(books') /\ DOMAIN books' = {} /\ snapshotted' = {}
    BY <1>2, EmptyType DEF ConnectOK, OnConnectReset
  <2>2. cmds' \in Seq(Command) /\ want' \subseteq Tickers
    <3>1. cmds' \in {cmds, Append(cmds, Cmd("subscribe", active))}
      BY <1>2 DEF ConnectOK
    <3>2. Cmd("subscribe", active) \in Command
      BY WireTypes DEF TypeOK, Actions
    <3>3. cmds \in Seq(Command) /\ active \subseteq Tickers /\ want \subseteq Tickers
      BY DEF TypeOK
    <3>4. cmds' \in Seq(Command)
      BY <3>1, <3>2, <3>3
    <3> QED
      BY <1>2, <3>3, <3>4 DEF ConnectOK
  <2>3. backoff' \in INITIAL_BACKOFF .. MAX_BACKOFF
    BY <1>2, BackoffAssumption DEF ConnectOK, TypeOK
  <2>4. pc' \in {"running", "subscribe"}
    BY <1>2 DEF ConnectOK
  <2> QED
    BY <1>2, <2>1, <2>2, <2>3, <2>4 DEF ConnectOK, TypeOK
<1>3. CASE SubscribeSent
  BY <1>3, BackoffAssumption DEF SubscribeSent, TypeOK
<1>4. CASE ConnectionLost
  BY <1>4 DEF ConnectionLost, TypeOK
<1>5. CASE BackoffDone
  BY <1>5, BackoffAssumption DEF BackoffDone, TypeOK
<1>6. CASE Stop
  BY <1>6 DEF Stop, TypeOK
<1>7. CASE StopExit
  BY <1>7 DEF StopExit, TypeOK
<1>8. CASE Finished
  BY <1>8 DEF Finished, vars, TypeOK
<1>9. CASE ReconIdle
  BY <1>9 DEF ReconIdle, vars, TypeOK
<1>10. CASE ReconSubscribe
  BY <1>10, WireTypes DEF ReconSubscribe, Actions, TypeOK
<1>11. CASE ReconUpdate
  BY <1>11, UpdateType DEF ReconUpdate, Actions, TypeOK
<1>12. CASE ReconDelete
  BY <1>12, UpdateType DEF ReconDelete, Actions, TypeOK
<1>13. CASE ReconSent
  BY <1>13 DEF ReconSent, TypeOK
<1>14. CASE HandleSubscribed
  BY <1>14, HeadType DEF HandleSubscribed, Receive, TypeOK
<1>15. CASE HandleError
  BY <1>15, HeadType DEF HandleError, Receive, TypeOK
<1>16. CASE HandleSnapshot
  <2>1. /\ Head(chan).ticker \in Tickers /\ Head(chan).seq \in Nat
        /\ Head(chan).ver \in Nat /\ Tail(chan) \in Seq(Frame)
    BY <1>16, HeadType DEF HandleSnapshot, Receive, MarketTypes
  <2>2. Book(Head(chan).ver) \subseteq Nat
    BY <2>1 DEF Book
  <2>3. /\ IsBooks(books')
        /\ DOMAIN books' = DOMAIN books \cup {Head(chan).ticker}
    BY <1>16, <2>1, <2>2, PutType DEF HandleSnapshot, TypeOK
  <2> QED
    BY <1>16, <2>1, <2>3 DEF HandleSnapshot, Receive, Taken, TypeOK
<1>17. CASE HandleDelta
  <2>1. /\ Head(chan).ticker \in Tickers /\ Head(chan).seq \in Nat
        /\ Head(chan).ver \in Nat /\ Tail(chan) \in Seq(Frame)
    BY <1>17, HeadType DEF HandleDelta, Receive, MarketTypes
  <2>2. IsBooks(books') /\ DOMAIN books' = DOMAIN books
    BY <1>17, <2>1, AddType DEF HandleDelta, ApplyDelta, TypeOK
  <2> QED
    BY <1>17, <2>1, <2>2 DEF HandleDelta, Receive, Taken, TypeOK
<1>18. CASE HandleGap
  BY <1>18, HeadType, UpdateType DEF HandleGap, Receive, Taken, MarketTypes, Actions, TypeOK
<1>19. CASE ResyncSent
  BY <1>19 DEF ResyncSent, TypeOK
<1>20. CASE Rollover
  BY <1>20 DEF Rollover, TypeOK
<1>21. CASE ServeCommand
  <2>1. Head(cmds) \in Command /\ Tail(cmds) \in Seq(Command)
    BY <1>21 DEF ServeCommand, TypeOK
  <2>2. srvSubs' \subseteq Tickers /\ owed' \subseteq Tickers
    BY <1>21, <2>1 DEF ServeCommand, Command, TypeOK
  <2>3. chan' \in Seq(Frame)
    <3>1. chan' \in {chan, Append(chan, SubscribedFrame)}
      BY <1>21 DEF ServeCommand
    <3>2. chan \in Seq(Frame) /\ SubscribedFrame \in Frame
      BY WireTypes DEF TypeOK
    <3> QED
      BY <3>1, <3>2
  <2> QED
    BY <1>21, <2>1, <2>2, <2>3 DEF ServeCommand, TypeOK
<1>22. CASE RejectCommand
  BY <1>22, WireTypes DEF RejectCommand, TypeOK
<1>23. CASE LoseFrame
  <2>1. Tail(chan) \in Seq(Frame)
    BY <1>23, HeadType DEF LoseFrame
  <2>2. /\ headSeq' \in Nat /\ headVer' \in [Tickers -> Nat]
        /\ connVer' = connVer /\ missed' \subseteq Tickers
    BY <1>23, HeadType DEF LoseFrame, Taken, TypeOK
  <2>3. /\ chan' \in Seq(Frame) /\ lost' \in Nat
        /\ UNCHANGED <<stop, pc, backoff, sid, lastSeq, subscribed, books, snapshotted,
                       recv, recon, want, active, ver, srvSubs, srvSeq, owed, cmds,
                       faults, rejects, rolls>>
    <3>1. lost \in Nat /\ lost' = lost + 1 /\ chan' = Tail(chan)
      BY <1>23 DEF LoseFrame, TypeOK
    <3>2. UNCHANGED <<stop, loopVars, sid, lastSeq, subscribed, hookVars, taskVars,
                      active, serverVars, cmds, faults, rejects, rolls>>
      BY <1>23 DEF LoseFrame
    <3> QED
      BY <2>1, <3>1, <3>2 DEF loopVars, hookVars, taskVars, serverVars
  <2> QED
    BY <2>2, <2>3 DEF TypeOK
<1>24. ASSUME NEW t \in Tickers, SendSnapshot(t) PROVE TypeOK'
  <2>1. MarketFrame("orderbook_snapshot", t, srvSeq', ver[t]) \in Frame
    BY <1>24, WireTypes DEF SendSnapshot, MarketTypes, TypeOK
  <2>2. chan' \in Seq(Frame)
    <3>1. chan \in Seq(Frame)
      BY DEF TypeOK
    <3> QED
      BY <1>24, <2>1, <3>1 DEF SendSnapshot
  <2> QED
    BY <1>24, <2>2 DEF SendSnapshot, TypeOK
<1>25. ASSUME NEW t \in Tickers, MarketMoves(t) PROVE TypeOK'
  <2>1. ver' \in [Tickers -> Nat] /\ ver[t] + 1 \in Nat /\ srvSeq + 1 \in Nat
    BY <1>25 DEF MarketMoves, TypeOK
  <2>2. srvSeq' \in Nat /\ ver'[t] \in Nat
    BY <1>25, <2>1 DEF MarketMoves, TypeOK
  <2>3. MarketFrame("orderbook_delta", t, srvSeq', ver'[t]) \in Frame
    BY <2>2, WireTypes DEF MarketTypes
  <2>4. chan' \in Seq(Frame)
    <3>1. chan \in Seq(Frame)
      BY DEF TypeOK
    <3>2. chan' \in {chan,
                      Append(chan, MarketFrame("orderbook_delta", t, srvSeq', ver'[t]))}
      BY <1>25 DEF MarketMoves
    <3> QED
      BY <2>3, <3>1, <3>2
  <2> QED
    BY <1>25, <2>1, <2>2, <2>4 DEF MarketMoves, TypeOK
<1> QED
  BY NextCases, <1>1, <1>2, <1>3, <1>4, <1>5, <1>6, <1>7, <1>8, <1>9, <1>10,
     <1>11, <1>12, <1>13, <1>14, <1>15, <1>16, <1>17, <1>18, <1>19, <1>20, <1>21,
     <1>22, <1>23, <1>24, <1>25

\* The collector and the feed never leave the declared types: among others the
\* backoff stays within its limits, a watermark is a number or None, and every
\* market counted as snapshotted has a book for parse to update.
THEOREM TypeCorrect == Spec => []TypeOK
  BY TypeInit, TypeStep, PTL DEF Spec

-----------------------------------------------------------------------------
(***************************************************************************)
(* How a step changes the stream of one market.  Every action leaves the   *)
(* stream of market t alone, appends a frame of t, or takes one; Calm(t)   *)
(* says what a step that does neither keeps.                               *)
(***************************************************************************)
Stream(t) == Ordered(t) /\ Linked(t) /\ SentSinceConnect(t)

OfMarket(f, t) == f.type \in MarketTypes /\ f.ticker = t

Calm(t) ==
    /\ headVer'[t] = headVer[t]
    /\ ver'[t] = ver[t]
    /\ connVer' = connVer
    /\ Live' => Live
    /\ t \in srvSubs' \ owed' => t \in srvSubs \ owed

\* The market frames under way are positions of the stream.
LEMMA InFlightType ==
    ASSUME TypeOK, NEW t \in Tickers
    PROVE  /\ InFlight(t) \subseteq Nat \ {0}
           /\ \A i \in InFlight(t) : i <= Len(chan) /\ chan[i].ver \in Nat
<1>1. chan \in Seq(Frame) /\ Len(chan) \in Nat
  BY DEF TypeOK
<1>2. ASSUME NEW i \in InFlight(t) PROVE chan[i].ver \in Nat
  <2>1. chan[i] \in Frame
    BY <1>1 DEF InFlight
  <2> QED
    BY <2>1 DEF InFlight, Frame, SubscribedFrame, ErrorFrame, MarketTypes
<1> QED
  BY <1>1, <1>2 DEF InFlight

\* Appending a frame adds its position to its market's, and only to those.
LEMMA InFlightAppend ==
    ASSUME TypeOK, NEW e, chan' = Append(chan, e), NEW t
    PROVE  /\ \A i \in InFlight(t) : i \in InFlight(t)' /\ chan'[i] = chan[i]
           /\ \A i \in InFlight(t)' : i \in InFlight(t) \/ i = Len(chan) + 1
           /\ Len(chan) + 1 \in InFlight(t)' <=> OfMarket(e, t)
           /\ chan'[Len(chan) + 1] = e
           /\ \A i \in InFlight(t) : i <= Len(chan)
<1>1. chan \in Seq(Frame) /\ Len(chan) \in Nat
  BY DEF TypeOK
<1>2. Len(chan') = Len(chan) + 1
  BY <1>1
<1>3. \A i \in 1 .. Len(chan) : chan'[i] = chan[i]
  BY <1>1
<1>4. chan'[Len(chan) + 1] = e
  BY <1>1
<1> QED
  BY <1>1, <1>2, <1>3, <1>4 DEF InFlight, OfMarket

\* Taking the head moves every other frame one position forward.
LEMMA InFlightTail ==
    ASSUME TypeOK, chan # <<>>, chan' = Tail(chan), NEW t
    PROVE  /\ \A i \in InFlight(t)' : i + 1 \in InFlight(t) /\ chan'[i] = chan[i + 1]
           /\ \A i \in InFlight(t) : i # 1 => i - 1 \in InFlight(t)'
           /\ 1 \in InFlight(t) <=> OfMarket(Head(chan), t)
           /\ chan[1] = Head(chan)
<1>1. chan \in Seq(Frame) /\ Len(chan) \in Nat /\ Len(chan) > 0
  BY DEF TypeOK
<1>2. Len(chan') = Len(chan) - 1
  BY <1>1
<1>3. \A i \in 1 .. Len(chan) - 1 : chan'[i] = chan[i + 1]
  BY <1>1
<1>4. chan[1] = Head(chan)
  BY <1>1
<1> QED
  BY <1>1, <1>2, <1>3, <1>4 DEF InFlight, OfMarket

\* A step that leaves the stream alone.
LEMMA StreamQuiet ==
    ASSUME NEW t \in Tickers, Stream(t), Calm(t), chan' = chan
    PROVE  Stream(t)'
<1>1. InFlight(t)' = InFlight(t)
  BY DEF InFlight
<1>2. Ordered(t)'
  BY <1>1 DEF Stream, Ordered, Calm
<1>3. Linked(t)'
  BY <1>1 DEF Stream, Linked, Calm
<1>4. SentSinceConnect(t)'
  BY <1>1 DEF Stream, SentSinceConnect, Calm
<1> QED
  BY <1>2, <1>3, <1>4 DEF Stream

\* A step that appends a frame which is not one of market t.
LEMMA StreamAppendOther ==
    ASSUME TypeOK, NEW t \in Tickers, Stream(t), Calm(t),
           NEW e, chan' = Append(chan, e), ~OfMarket(e, t)
    PROVE  Stream(t)'
<1>1. /\ InFlight(t)' = InFlight(t)
      /\ \A i \in InFlight(t) : chan'[i] = chan[i]
  BY InFlightAppend
<1>2. Ordered(t)'
  BY <1>1 DEF Stream, Ordered, Calm
<1>3. Linked(t)'
  <2>1. \A j \in InFlight(t) :
          (chan'[j].type = "orderbook_delta" /\ \A k \in InFlight(t) : k >= j)
            => chan'[j].ver = headVer'[t] + 1
    BY <1>1 DEF Stream, Linked, Calm
  <2>2. \A i, j \in InFlight(t) :
          /\ i < j
          /\ chan'[j].type = "orderbook_delta"
          /\ \A k \in InFlight(t) : k <= i \/ k >= j
          => chan'[j].ver = chan'[i].ver + 1
    BY <1>1 DEF Stream, Linked
  <2>3. t \in srvSubs' \ owed' =>
          /\ InFlight(t) = {} => headVer'[t] = ver'[t]
          /\ \A i \in InFlight(t) :
                (\A k \in InFlight(t) : k <= i) => chan'[i].ver = ver'[t]
    BY <1>1 DEF Stream, Linked, Calm
  <2> QED
    BY <1>1, <2>1, <2>2, <2>3 DEF Linked
<1>4. SentSinceConnect(t)'
  BY <1>1 DEF Stream, SentSinceConnect, Calm
<1> QED
  BY <1>2, <1>3, <1>4 DEF Stream

\* A step that takes a frame which is not one of market t.
LEMMA StreamTakeOther ==
    ASSUME TypeOK, NEW t \in Tickers, Stream(t), Calm(t),
           chan # <<>>, chan' = Tail(chan), ~OfMarket(Head(chan), t)
    PROVE  Stream(t)'
<1>1. /\ \A i \in InFlight(t)' : i + 1 \in InFlight(t) /\ chan'[i] = chan[i + 1]
      /\ \A i \in InFlight(t) : i - 1 \in InFlight(t)'
      /\ InFlight(t) \subseteq Nat \ {0}
      /\ \A i \in InFlight(t)' : i \in Nat \ {0}
  BY InFlightTail, InFlightType DEF InFlight
<1> DEFINE F == InFlight(t)'
<1>2. Ordered(t)'
  <2>1. \A i \in F : headVer'[t] <= chan'[i].ver /\ chan'[i].ver <= ver'[t]
    BY <1>1 DEF Stream, Ordered, Calm
  <2>2. ASSUME NEW i \in F, NEW j \in F, i < j PROVE chan'[i].ver <= chan'[j].ver
    <3>1. i + 1 \in InFlight(t) /\ j + 1 \in InFlight(t) /\ i + 1 < j + 1
      BY <1>1, <2>2
    <3> QED
      BY <1>1, <3>1 DEF Stream, Ordered
  <2>3. headVer'[t] <= ver'[t]
    BY DEF Stream, Ordered, Calm
  <2> QED
    BY <2>1, <2>2, <2>3 DEF Ordered
<1>3. Linked(t)'
  <2>1. ASSUME NEW j \in F, chan'[j].type = "orderbook_delta",
               \A k \in F : k >= j
        PROVE  chan'[j].ver = headVer'[t] + 1
    <3>1. \A k \in InFlight(t) : k >= j + 1
      BY <1>1, <2>1
    <3>2. j + 1 \in InFlight(t) /\ chan[j + 1].type = "orderbook_delta"
      BY <1>1, <2>1
    <3>3. chan[j + 1].ver = headVer[t] + 1
      BY <3>1, <3>2 DEF Stream, Linked
    <3> QED
      BY <1>1, <2>1, <3>3 DEF Calm
  <2>2. ASSUME NEW i \in F, NEW j \in F, i < j,
               chan'[j].type = "orderbook_delta",
               \A k \in F : k <= i \/ k >= j
        PROVE  chan'[j].ver = chan'[i].ver + 1
    <3>1. \A k \in InFlight(t) : k <= i + 1 \/ k >= j + 1
      BY <1>1, <2>2
    <3>2. i + 1 \in InFlight(t) /\ j + 1 \in InFlight(t) /\ i + 1 < j + 1
      BY <1>1, <2>2
    <3>3. chan[j + 1].type = "orderbook_delta"
      BY <1>1, <2>2
    <3>4. chan[j + 1].ver = chan[i + 1].ver + 1
      BY <3>1, <3>2, <3>3 DEF Stream, Linked
    <3> QED
      BY <1>1, <2>2, <3>4
  <2>3. ASSUME t \in srvSubs' \ owed', F = {} PROVE headVer'[t] = ver'[t]
    <3>1. InFlight(t) = {}
      BY <1>1, <2>3
    <3> QED
      BY <2>3, <3>1 DEF Stream, Linked, Calm
  <2>4. ASSUME t \in srvSubs' \ owed', NEW i \in F, \A k \in F : k <= i
        PROVE  chan'[i].ver = ver'[t]
    <3>1. \A k \in InFlight(t) : k <= i + 1
      BY <1>1, <2>4
    <3>2. i + 1 \in InFlight(t) /\ t \in srvSubs \ owed
      BY <1>1, <2>4 DEF Calm
    <3>3. chan[i + 1].ver = ver[t]
      BY <3>1, <3>2 DEF Stream, Linked
    <3> QED
      BY <1>1, <2>4, <3>3 DEF Calm
  <2> QED
    BY <2>1, <2>2, <2>3, <2>4 DEF Linked
<1>4. SentSinceConnect(t)'
  BY <1>1 DEF Stream, SentSinceConnect, Calm
<1> QED
  BY <1>2, <1>3, <1>4 DEF Stream


\* A step that puts a frame of market t on the wire: it carries the exchange's
\* book, and it is a snapshot, or a delta one change ahead of the book the
\* last frame of a market that is owed nothing carries.
LEMMA StreamAppendOwn ==
    ASSUME TypeOK, TypeOK', NEW t \in Tickers, Stream(t),
           NEW e, chan' = Append(chan, e), OfMarket(e, t),
           headVer' = headVer, connVer' = connVer, Live' => Live,
           e.ver = ver'[t], ver'[t] >= ver[t],
           e.type = "orderbook_delta" =>
               t \in srvSubs \ owed /\ ver'[t] = ver[t] + 1
    PROVE  Stream(t)'
<1> DEFINE n == Len(chan) + 1
<1>1. /\ \A i \in InFlight(t) : /\ i \in InFlight(t)' /\ chan'[i] = chan[i]
                                /\ i < n /\ i \in Nat /\ chan[i].ver \in Nat
      /\ \A i \in InFlight(t)' : i \in InFlight(t) \/ i = n
      /\ n \in InFlight(t)' /\ chan'[n] = e /\ n \in Nat
  <2>1. chan \in Seq(Frame) /\ Len(chan) \in Nat
    BY DEF TypeOK
  <2> QED
    BY <2>1, InFlightAppend, InFlightType
<1>2. ver[t] \in Nat /\ ver'[t] \in Nat /\ headVer[t] \in Nat /\ connVer[t] \in Nat
  BY DEF TypeOK
<1>3. Ordered(t)'
  <2>1. headVer'[t] <= ver'[t]
    BY <1>2 DEF Stream, Ordered
  <2>2. ASSUME NEW i \in InFlight(t)'
        PROVE  headVer'[t] <= chan'[i].ver /\ chan'[i].ver <= ver'[t]
    <3>1. CASE i = n
      BY <1>1, <1>2, <2>1, <3>1
    <3>2. CASE i \in InFlight(t)
      <4>1. headVer[t] <= chan[i].ver /\ chan[i].ver <= ver[t]
        BY <3>2 DEF Stream, Ordered
      <4>2. chan'[i].ver = chan[i].ver /\ chan[i].ver \in Nat
        BY <1>1, <3>2
      <4> QED
        BY <1>2, <4>1, <4>2
    <3> QED
      BY <1>1, <3>1, <3>2
  <2>3. ASSUME NEW i \in InFlight(t)', NEW j \in InFlight(t)', i < j
        PROVE  chan'[i].ver <= chan'[j].ver
    <3>1. i \in InFlight(t)
      BY <1>1, <2>3
    <3>2. CASE j = n
      <4>1. chan[i].ver <= ver[t]
        BY <3>1 DEF Stream, Ordered
      <4>2. chan'[i].ver = chan[i].ver /\ chan[i].ver \in Nat
        BY <1>1, <3>1
      <4>3. chan'[j].ver = ver'[t]
        BY <1>1, <3>2
      <4> QED
        BY <1>2, <4>1, <4>2, <4>3
    <3>3. CASE j \in InFlight(t)
      <4>1. chan[i].ver <= chan[j].ver
        BY <2>3, <3>1, <3>3 DEF Stream, Ordered
      <4> QED
        BY <1>1, <3>1, <3>3, <4>1
    <3> QED
      BY <1>1, <3>2, <3>3
  <2> QED
    BY <2>1, <2>2, <2>3 DEF Ordered
<1>4. Linked(t)'
  <2>1. ASSUME NEW j \in InFlight(t)', chan'[j].type = "orderbook_delta",
               \A k \in InFlight(t)' : k >= j
        PROVE  chan'[j].ver = headVer'[t] + 1
    <3>1. CASE j = n
      <4>1. InFlight(t) = {}
        BY <1>1, <2>1, <3>1
      <4> QED
        BY <1>1, <2>1, <3>1, <4>1 DEF Stream, Linked
    <3>2. CASE j \in InFlight(t)
      <4>1. \A k \in InFlight(t) : k >= j
        BY <1>1, <2>1
      <4> QED
        BY <1>1, <2>1, <3>2, <4>1 DEF Stream, Linked
    <3> QED
      BY <1>1, <3>1, <3>2
  <2>2. ASSUME NEW i \in InFlight(t)', NEW j \in InFlight(t)', i < j,
               chan'[j].type = "orderbook_delta",
               \A k \in InFlight(t)' : k <= i \/ k >= j
        PROVE  chan'[j].ver = chan'[i].ver + 1
    <3>0. i \in InFlight(t)
      BY <1>1, <2>2
    <3>1. CASE j = n
      <4>1. \A k \in InFlight(t) : k <= i
        BY <1>1, <2>2, <3>1
      <4>2. chan[i].ver = ver[t]
        BY <1>1, <2>2, <3>0, <3>1, <4>1 DEF Stream, Linked
      <4> QED
        BY <1>1, <2>2, <3>0, <3>1, <4>2
    <3>2. CASE j \in InFlight(t)
      <4>1. \A k \in InFlight(t) : k <= i \/ k >= j
        BY <1>1, <2>2
      <4>2. chan[j].ver = chan[i].ver + 1
        BY <1>1, <2>2, <3>0, <3>2, <4>1 DEF Stream, Linked
      <4> QED
        BY <1>1, <3>0, <3>2, <4>2
    <3> QED
      BY <1>1, <3>1, <3>2
  <2>3. InFlight(t)' # {}
    BY <1>1
  <2>4. ASSUME NEW i \in InFlight(t)', \A k \in InFlight(t)' : k <= i
        PROVE  chan'[i].ver = ver'[t]
    BY <1>1, <2>4
  <2> QED
    BY <2>1, <2>2, <2>3, <2>4 DEF Linked
<1>5. SentSinceConnect(t)'
  <2> SUFFICES ASSUME Live'
               PROVE  /\ connVer'[t] <= ver'[t]
                      /\ \A i \in InFlight(t)' : connVer'[t] <= chan'[i].ver
    BY DEF SentSinceConnect
  <2>1. /\ connVer[t] <= ver[t]
        /\ \A i \in InFlight(t) : connVer[t] <= chan[i].ver
    BY DEF Stream, SentSinceConnect
  <2>2. connVer'[t] <= ver'[t]
    BY <1>2, <2>1
  <2>3. ASSUME NEW i \in InFlight(t)' PROVE connVer'[t] <= chan'[i].ver
    BY <1>1, <2>1, <2>2, <2>3
  <2> QED
    BY <2>2, <2>3
<1> QED
  BY <1>3, <1>4, <1>5 DEF Stream

\* A step that takes a frame of market t.  A delta is one change ahead of the
\* frame of t taken before it.
LEMMA StreamTakeOwn ==
    ASSUME TypeOK, NEW t \in Tickers, Stream(t),
           chan # <<>>, chan' = Tail(chan), OfMarket(Head(chan), t),
           headVer'[t] = Head(chan).ver, ver' = ver, connVer' = connVer,
           Live' => Live, srvSubs' = srvSubs, owed' = owed
    PROVE  /\ Stream(t)'
           /\ headVer[t] <= Head(chan).ver
           /\ Head(chan).ver <= ver[t]
           /\ Live => connVer[t] <= Head(chan).ver
           /\ Head(chan).type = "orderbook_delta" =>
                 Head(chan).ver = headVer[t] + 1
<1> DEFINE F == InFlight(t)'
<1>1. /\ \A i \in F : i + 1 \in InFlight(t) /\ chan'[i] = chan[i + 1] /\ i \in Nat \ {0}
      /\ \A i \in InFlight(t) : i # 1 => i - 1 \in F /\ (i - 1) + 1 = i
      /\ \A i \in F : 1 < i + 1
      /\ InFlight(t) \subseteq Nat \ {0}
      /\ \A i \in InFlight(t) : chan[i].ver \in Nat
      /\ 1 \in InFlight(t) /\ chan[1] = Head(chan)
  BY InFlightTail, InFlightType DEF InFlight
<1>2. /\ headVer[t] <= Head(chan).ver
      /\ Head(chan).ver <= ver[t]
      /\ Live => connVer[t] <= Head(chan).ver
  BY <1>1 DEF Stream, Ordered, SentSinceConnect
<1>3. Head(chan).type = "orderbook_delta" => Head(chan).ver = headVer[t] + 1
  <2>1. \A k \in InFlight(t) : k >= 1
    BY <1>1
  <2> QED
    BY <1>1, <2>1 DEF Stream, Linked
<1>4. Ordered(t)'
  <2>1. ASSUME NEW i \in F
        PROVE  headVer'[t] <= chan'[i].ver /\ chan'[i].ver <= ver'[t]
    <3>1. i + 1 \in InFlight(t) /\ 1 < i + 1 /\ chan'[i] = chan[i + 1]
      BY <1>1, <2>1
    <3> QED
      BY <1>1, <3>1 DEF Stream, Ordered
  <2>2. ASSUME NEW i \in F, NEW j \in F, i < j PROVE chan'[i].ver <= chan'[j].ver
    <3>1. i + 1 \in InFlight(t) /\ j + 1 \in InFlight(t) /\ i + 1 < j + 1
      BY <1>1, <2>2
    <3> QED
      BY <1>1, <3>1 DEF Stream, Ordered
  <2> QED
    BY <1>2, <2>1, <2>2 DEF Ordered
<1>5. Linked(t)'
  <2>1. ASSUME NEW j \in F, chan'[j].type = "orderbook_delta",
               \A k \in F : k >= j
        PROVE  chan'[j].ver = headVer'[t] + 1
    <3>1. ASSUME NEW k \in InFlight(t), k # 1 PROVE k >= j + 1
      BY <1>1, <2>1, <3>1
    <3>2. j + 1 \in InFlight(t) /\ chan[j + 1].type = "orderbook_delta" /\ 1 < j + 1
      BY <1>1, <2>1
    <3>3. chan[j + 1].ver = chan[1].ver + 1
      <4>1. \A k \in InFlight(t) : k <= 1 \/ k >= j + 1
        BY <3>1
      <4> QED
        BY <1>1, <3>2, <4>1 DEF Stream, Linked
    <3> QED
      BY <1>1, <2>1, <3>3
  <2>2. ASSUME NEW i \in F, NEW j \in F, i < j,
               chan'[j].type = "orderbook_delta",
               \A k \in F : k <= i \/ k >= j
        PROVE  chan'[j].ver = chan'[i].ver + 1
    <3>1. ASSUME NEW k \in InFlight(t) PROVE k <= i + 1 \/ k >= j + 1
      <4>1. CASE k = 1
        BY <1>1, <4>1
      <4>2. CASE k # 1
        BY <1>1, <2>2, <4>2
      <4> QED
        BY <4>1, <4>2
    <3>2. i + 1 \in InFlight(t) /\ j + 1 \in InFlight(t) /\ i + 1 < j + 1
      BY <1>1, <2>2
    <3>3. chan[j + 1].type = "orderbook_delta"
      BY <1>1, <2>2
    <3>4. chan[j + 1].ver = chan[i + 1].ver + 1
      BY <3>1, <3>2, <3>3 DEF Stream, Linked
    <3> QED
      BY <1>1, <2>2, <3>4
  <2>3. ASSUME t \in srvSubs' \ owed', F = {} PROVE headVer'[t] = ver'[t]
    <3>1. \A k \in InFlight(t) : k <= 1
      BY <1>1, <2>3
    <3> QED
      BY <1>1, <2>3, <3>1 DEF Stream, Linked
  <2>4. ASSUME t \in srvSubs' \ owed', NEW i \in F, \A k \in F : k <= i
        PROVE  chan'[i].ver = ver'[t]
    <3>1. \A k \in InFlight(t) : k <= i + 1
      BY <1>1, <2>4
    <3>2. i + 1 \in InFlight(t) /\ t \in srvSubs \ owed
      BY <1>1, <2>4
    <3>3. chan[i + 1].ver = ver[t]
      BY <3>1, <3>2 DEF Stream, Linked
    <3> QED
      BY <1>1, <2>4, <3>3
  <2> QED
    BY <2>1, <2>2, <2>3, <2>4 DEF Linked
<1>6. SentSinceConnect(t)'
  BY <1>1 DEF Stream, SentSinceConnect
<1> QED
  BY <1>2, <1>3, <1>4, <1>5, <1>6 DEF Stream


-----------------------------------------------------------------------------
(***************************************************************************)
(* The inductive invariant                                                 *)
(***************************************************************************)
LEMMA StreamInit == Init => StreamInv
<1> SUFFICES ASSUME Init PROVE StreamInv
  OBVIOUS
<1>1. \A t : InFlight(t) = {}
  <2>1. chan = <<>> /\ Len(chan) = 0
    BY DEF Init
  <2> QED
    BY <2>1 DEF InFlight
<1>2. NoStream
  BY DEF Init, NoStream
<1>3. ~Live
  BY DEF Init, Live
<1>4. ASSUME NEW t \in Tickers
      PROVE  Ordered(t) /\ Linked(t) /\ SentSinceConnect(t) /\ Mirrored(t)
  BY <1>1, <1>3, EmptyType DEF Init, Ordered, Linked, SentSinceConnect, Mirrored
<1> QED
  BY <1>2, <1>4 DEF StreamInv

\* A step that leaves the stream, the mirror and the liveness of the
\* connection alone.
LEMMA QuietStep ==
    ASSUME StreamInv, chan' = chan, Live' = Live, cmds' = cmds \/ Live,
           UNCHANGED <<headVer, connVer, ver, srvSubs, owed, hookVars, missed>>
    PROVE  StreamInv'
<1>1. NoStream'
  BY DEF StreamInv, NoStream
<1>2. ASSUME NEW t \in Tickers PROVE Stream(t)'
  BY StreamQuiet DEF StreamInv, Stream, Calm
<1>3. ASSUME NEW t \in Tickers PROVE Mirrored(t)'
  BY DEF StreamInv, Mirrored, hookVars
<1> QED
  BY <1>1, <1>2, <1>3 DEF StreamInv, Stream

\* The stream ends: nothing is left in flight.
LEMMA ClearStep ==
    ASSUME StreamInv, ~Live', chan' = <<>>, cmds' = <<>>, srvSubs' = {}, owed' = {},
           UNCHANGED <<headVer, connVer, ver, hookVars, missed>>
    PROVE  StreamInv'
<1>1. NoStream'
  BY DEF NoStream
<1>2. \A t : InFlight(t)' = {}
  BY DEF InFlight
<1>3. ASSUME NEW t \in Tickers PROVE Stream(t)'
  BY <1>2 DEF StreamInv, Stream, Ordered, Linked, SentSinceConnect
<1>4. ASSUME NEW t \in Tickers PROVE Mirrored(t)'
  BY DEF StreamInv, Mirrored, hookVars
<1> QED
  BY <1>1, <1>3, <1>4 DEF StreamInv, Stream

LEMMA ConnectStep == ASSUME TypeOK, StreamInv, ConnectOK PROVE StreamInv'
<1>1. Live' /\ ~Live /\ chan' = <<>> /\ srvSubs' = {}
  BY DEF ConnectOK, Live, StreamInv, NoStream, serverVars
<1>2. \A t : InFlight(t)' = {}
  BY <1>1 DEF InFlight
<1>3. /\ headVer' = headVer /\ ver' = ver /\ connVer' = ver
      /\ DOMAIN books' = {} /\ snapshotted' = {}
  BY EmptyType DEF ConnectOK, OnConnectReset, serverVars
<1>4. ASSUME NEW t \in Tickers PROVE Stream(t)'
  <2>1. ver[t] \in Nat
    BY DEF TypeOK
  <2> QED
    BY <1>1, <1>2, <1>3, <2>1 DEF StreamInv, Stream, Ordered, Linked, SentSinceConnect
<1>5. ASSUME NEW t \in Tickers PROVE Mirrored(t)'
  BY <1>3 DEF Mirrored
<1> QED
  BY <1>1, <1>4, <1>5 DEF StreamInv, Stream, NoStream

\* The server's answers to a command.
LEMMA ServeStep ==
    ASSUME TypeOK, StreamInv, ServeCommand \/ RejectCommand PROVE StreamInv'
<1> USE DEF hookVars, taskVars, loopVars, serverVars, historyVars, budgetVars
<1>1. Live /\ Live'
  BY DEF ServeCommand, RejectCommand, StreamInv, NoStream, Live
<1>2. /\ UNCHANGED <<headVer, connVer, ver, books, snapshotted, missed>>
      /\ chan' \in {chan, Append(chan, SubscribedFrame), Append(chan, ErrorFrame)}
  BY DEF ServeCommand, RejectCommand
<1>3. srvSubs' \ owed' \subseteq srvSubs \ owed
  BY DEF ServeCommand, RejectCommand
<1>4. ASSUME NEW t \in Tickers PROVE Stream(t)'
  <2>1. Stream(t) /\ Calm(t)
    BY <1>1, <1>2, <1>3 DEF StreamInv, Stream, Calm
  <2>2. ~OfMarket(SubscribedFrame, t) /\ ~OfMarket(ErrorFrame, t)
    BY DEF OfMarket, SubscribedFrame, ErrorFrame, MarketTypes
  <2> QED
    BY <1>2, <2>1, <2>2, StreamQuiet, StreamAppendOther
<1>5. ASSUME NEW t \in Tickers PROVE Mirrored(t)'
  BY <1>1, <1>2 DEF StreamInv, Mirrored
<1> QED
  BY <1>1, <1>4, <1>5 DEF StreamInv, Stream, NoStream

LEMMA SendSnapshotStep ==
    ASSUME TypeOK, TypeOK', StreamInv, NEW u \in Tickers, SendSnapshot(u)
    PROVE  StreamInv'
<1> USE DEF hookVars, taskVars, loopVars, serverVars, historyVars, budgetVars
<1> DEFINE e == MarketFrame("orderbook_snapshot", u, srvSeq', ver[u])
<1>1. Live /\ Live'
  BY DEF SendSnapshot, StreamInv, NoStream, Live
<1>2. /\ UNCHANGED <<headVer, connVer, ver, srvSubs, books, snapshotted, missed>>
      /\ chan' = Append(chan, e)
      /\ owed' = owed \ {u}
  BY DEF SendSnapshot
<1>3. ASSUME NEW t \in Tickers PROVE Stream(t)'
  <2>1. Stream(t)
    BY DEF StreamInv, Stream
  <2>2. CASE t = u
    <3>1. /\ OfMarket(e, t) /\ e.ver = ver'[t] /\ e.type # "orderbook_delta"
      BY <1>2, <2>2 DEF OfMarket, MarketFrame, MarketTypes
    <3>2. ver'[t] >= ver[t]
      BY <1>2 DEF TypeOK
    <3> HIDE DEF e
    <3> QED
      BY <1>1, <1>2, <2>1, <3>1, <3>2, StreamAppendOwn
  <2>3. CASE t # u
    <3>1. ~OfMarket(e, t)
      BY <2>3 DEF OfMarket, MarketFrame
    <3>2. Calm(t)
      BY <1>1, <1>2, <2>3 DEF Calm
    <3> HIDE DEF e
    <3> QED
      BY <1>2, <2>1, <3>1, <3>2, StreamAppendOther
  <2> QED
    BY <2>2, <2>3
<1>4. ASSUME NEW t \in Tickers PROVE Mirrored(t)'
  BY <1>1, <1>2 DEF StreamInv, Mirrored
<1> QED
  BY <1>1, <1>3, <1>4 DEF StreamInv, Stream, NoStream

LEMMA MarketMovesStep ==
    ASSUME TypeOK, TypeOK', StreamInv, NEW u \in Tickers, MarketMoves(u)
    PROVE  StreamInv'
<1> USE DEF hookVars, taskVars, loopVars, serverVars, historyVars, budgetVars
<1> DEFINE e == MarketFrame("orderbook_delta", u, srvSeq', ver'[u])
<1>1. /\ UNCHANGED <<headVer, connVer, srvSubs, owed, books, snapshotted, missed, pc, cmds>>
      /\ ver' = [ver EXCEPT ![u] = @ + 1]
      /\ u \notin owed
  BY DEF MarketMoves
<1>2. Live' = Live
  BY <1>1 DEF Live
<1>3. IF u \in srvSubs THEN chan' = Append(chan, e) ELSE chan' = chan
  BY DEF MarketMoves
<1>4. NoStream'
  BY <1>1, <1>2, <1>3 DEF StreamInv, NoStream
<1>5. ASSUME NEW t \in Tickers PROVE Stream(t)'
  <2>1. Stream(t)
    BY DEF StreamInv, Stream
  <2>2. CASE t = u /\ u \in srvSubs
    <3>1. ver'[t] = ver[t] + 1 /\ ver[t] \in Nat
      BY <1>1, <2>2 DEF TypeOK
    <3>2. OfMarket(e, t) /\ e.ver = ver'[t]
      BY <2>2 DEF OfMarket, MarketFrame, MarketTypes
    <3>3. t \in srvSubs \ owed /\ ver'[t] >= ver[t] /\ chan' = Append(chan, e)
      BY <1>1, <1>3, <2>2, <3>1
    <3> HIDE DEF e
    <3> QED
      BY <1>1, <1>2, <2>1, <3>1, <3>2, <3>3, StreamAppendOwn
  <2>3. CASE t = u /\ u \notin srvSubs
    <3>1. ver'[t] = ver[t] + 1 /\ ver[t] \in Nat /\ headVer[t] \in Nat /\ connVer[t] \in Nat
      BY <1>1, <2>3 DEF TypeOK
    <3>2. /\ InFlight(t)' = InFlight(t) /\ chan' = chan
          /\ \A i \in InFlight(t) : chan[i].ver \in Nat
      BY <1>3, <2>3, InFlightType DEF InFlight
    <3>3. Ordered(t)'
      BY <1>1, <2>1, <3>1, <3>2 DEF Stream, Ordered
    <3>4. Linked(t)'
      BY <1>1, <2>1, <2>3, <3>1, <3>2 DEF Stream, Linked
    <3>5. SentSinceConnect(t)'
      BY <1>1, <1>2, <2>1, <3>1, <3>2 DEF Stream, SentSinceConnect
    <3> QED
      BY <3>3, <3>4, <3>5 DEF Stream
  <2>4. CASE t # u
    <3>1. ~OfMarket(e, t)
      BY <2>4 DEF OfMarket, MarketFrame
    <3>2. Calm(t)
      BY <1>1, <1>2, <2>4 DEF Calm
    <3>3. chan' = chan \/ chan' = Append(chan, e)
      BY <1>3
    <3> HIDE DEF e
    <3> QED
      BY <2>1, <3>1, <3>2, <3>3, StreamAppendOther, StreamQuiet
  <2> QED
    BY <2>2, <2>3, <2>4
<1>6. ASSUME NEW t \in Tickers PROVE Mirrored(t)'
  BY <1>1, <1>2 DEF StreamInv, Mirrored
<1> QED
  BY <1>4, <1>5, <1>6 DEF StreamInv, Stream

\* The stream after a frame left it, whatever became of the frame.
LEMMA TakeStep ==
    ASSUME TypeOK, StreamInv, chan # <<>>, chan' = Tail(chan),
           IF Head(chan).type \in MarketTypes
             THEN Taken(Head(chan)) ELSE UNCHANGED <<headVer, connVer>>,
           UNCHANGED <<pc, ver, srvSubs, owed>>,
           NEW t \in Tickers
    PROVE  /\ Live /\ Live' /\ Stream(t)'
           /\ headVer[t] <= headVer'[t]
           /\ connVer' = connVer
           /\ OfMarket(Head(chan), t) =>
                 /\ headVer'[t] = Head(chan).ver
                 /\ Head(chan).type = "orderbook_delta" =>
                       headVer'[t] = headVer[t] + 1
                 /\ connVer[t] <= headVer'[t]
           /\ ~OfMarket(Head(chan), t) => headVer'[t] = headVer[t]
<1>1. Live /\ Live'
  BY DEF StreamInv, NoStream, Live
<1>2. Stream(t) /\ headVer \in [Tickers -> Nat]
  BY DEF StreamInv, Stream, TypeOK
<1>3. connVer' = connVer
  BY DEF Taken
<1>4. CASE OfMarket(Head(chan), t)
  <2>1. headVer'[t] = Head(chan).ver
    BY <1>2, <1>4 DEF Taken, OfMarket
  <2> QED
    BY <1>1, <1>2, <1>3, <1>4, <2>1, StreamTakeOwn
<1>5. CASE ~OfMarket(Head(chan), t)
  <2>1. headVer'[t] = headVer[t]
    BY <1>2, <1>5 DEF Taken, OfMarket
  <2>2. Calm(t)
    BY <1>1, <1>3, <2>1 DEF Calm
  <2>3. headVer[t] <= headVer'[t]
    BY <1>2, <2>1
  <2> QED
    BY <1>1, <1>2, <1>3, <1>5, <2>1, <2>2, <2>3, StreamTakeOther
<1> QED
  BY <1>4, <1>5


\* What the receive task does with a frame.
LEMMA HandleStep == ASSUME TypeOK, StreamInv, HandleRaw PROVE StreamInv'
<1> USE DEF hookVars, taskVars, loopVars, serverVars, historyVars, budgetVars
<1> DEFINE f == Head(chan)
<1>1. /\ chan # <<>> /\ chan' = Tail(chan)
      /\ IF f.type \in MarketTypes
           THEN Taken(f) ELSE UNCHANGED <<headVer, connVer>>
      /\ UNCHANGED <<pc, ver, srvSubs, owed>>
  BY DEF HandleRaw, HandleSubscribed, HandleError, HandleSnapshot, HandleDelta,
         HandleGap, Receive, MarketTypes
<1>2. ASSUME NEW t \in Tickers
      PROVE  /\ Live /\ Live' /\ Stream(t)'
             /\ headVer[t] <= headVer'[t]
             /\ connVer' = connVer
             /\ OfMarket(f, t) =>
                   /\ headVer'[t] = f.ver
                   /\ f.type = "orderbook_delta" => headVer'[t] = headVer[t] + 1
                   /\ connVer[t] <= headVer'[t]
             /\ ~OfMarket(f, t) => headVer'[t] = headVer[t]
  BY <1>1, TakeStep
<1>3. ASSUME NEW t \in Tickers PROVE Mirrored(t)'
  <2>1. /\ Mirrored(t) /\ headVer[t] \in Nat /\ headVer'[t] \in Nat
        /\ IsBooks(books) /\ connVer[t] \in Nat
        /\ f.type \in MarketTypes => f.ticker \in Tickers
    BY TypeStep, <1>1, <1>2, HeadType DEF StreamInv, TypeOK, HandleRaw, Next
  <2>2. CASE HandleSubscribed \/ HandleError
    <3>1. ~OfMarket(f, t) /\ UNCHANGED <<books, snapshotted, missed>>
      BY <2>2 DEF HandleSubscribed, HandleError, Receive, OfMarket, MarketTypes
    <3> QED
      BY <1>2, <2>1, <3>1 DEF Mirrored
  <2>3. CASE HandleSnapshot
    <3>1. /\ f.type = "orderbook_snapshot"
          /\ books' = Put(books, f.ticker, Book(f.ver))
          /\ snapshotted' = snapshotted \cup {f.ticker}
          /\ missed' = missed \ {f.ticker}
      BY <2>3 DEF HandleSnapshot, Receive
    <3>2. f.ver \in Nat /\ Book(f.ver) \subseteq Nat
      BY <1>1, <3>1, HeadType DEF Book, MarketTypes
    <3>3. /\ DOMAIN books' = DOMAIN books \cup {f.ticker}
          /\ books'[f.ticker] = Book(f.ver)
          /\ t \in DOMAIN books /\ t # f.ticker => books'[t] = books[t]
      <4> HIDE DEF f
      <4> QED
        BY <3>1 DEF Put
    <3>4. CASE f.ticker = t
      <4>1. OfMarket(f, t) /\ books'[t] = Book(headVer'[t]) /\ t \in snapshotted'
        BY <1>2, <3>1, <3>3, <3>4 DEF OfMarket, MarketTypes
      <4>2. Book(connVer'[t]) \subseteq Book(headVer'[t])
        BY <1>2, <2>1, <4>1 DEF Book
      <4> QED
        BY <3>3, <3>4, <4>1, <4>2 DEF Mirrored
    <3>5. CASE f.ticker # t
      <4>1. /\ ~OfMarket(f, t)
            /\ t \in DOMAIN books' <=> t \in DOMAIN books
            /\ t \in DOMAIN books => books'[t] = books[t]
            /\ t \in snapshotted' <=> t \in snapshotted
            /\ t \in missed' <=> t \in missed
        BY <3>1, <3>3, <3>5 DEF OfMarket
      <4> QED
        BY <1>2, <2>1, <4>1 DEF Mirrored
    <3> QED
      BY <3>4, <3>5
  <2>4. CASE HandleDelta
    <3>1. /\ f.type = "orderbook_delta"
          /\ ApplyDelta(f.ticker, f.ver)
          /\ UNCHANGED <<snapshotted, missed>>
      BY <2>4 DEF HandleDelta, Receive
    <3>2. DOMAIN books' = DOMAIN books
      BY <3>1 DEF ApplyDelta
    <3>3. CASE f.ticker = t /\ t \in snapshotted
      <4>1. OfMarket(f, t) /\ books'[t] = books[t] \cup {headVer'[t]}
        BY <1>2, <2>1, <3>1, <3>3 DEF OfMarket, MarketTypes, ApplyDelta, Mirrored
      <4>2. headVer'[t] = headVer[t] + 1
        BY <1>2, <3>1, <4>1
      <4>3. /\ books[t] \subseteq Book(headVer[t]) /\ Book(connVer[t]) \subseteq books[t]
            /\ t \notin missed => books[t] = Book(headVer[t])
        BY <1>2, <2>1, <3>3 DEF Mirrored
      <4>4. Book(headVer'[t]) = Book(headVer[t]) \cup {headVer'[t]}
        BY <2>1, <4>2 DEF Book
      <4>5. /\ books'[t] \subseteq Book(headVer'[t]) /\ Book(connVer'[t]) \subseteq books'[t]
            /\ t \notin missed => books'[t] = Book(headVer'[t])
        BY <1>2, <4>1, <4>3, <4>4
      <4> QED
        BY <2>1, <3>1, <3>2, <3>3, <4>5 DEF Mirrored
    <3>4. CASE f.ticker = t /\ t \notin snapshotted
      BY <1>2, <2>1, <3>1, <3>4 DEF Mirrored, ApplyDelta
    <3>5. CASE f.ticker # t
      <4>1. ~OfMarket(f, t) /\ books'[t] = books[t]
        BY <2>1, <3>1, <3>5 DEF OfMarket, ApplyDelta
      <4> QED
        BY <1>2, <2>1, <3>1, <3>2, <4>1 DEF Mirrored
    <3> QED
      BY <3>3, <3>4, <3>5
  <2>5. CASE HandleGap
    <3>1. missed' = missed \cup {f.ticker} /\ UNCHANGED <<books, snapshotted>>
      BY <2>5 DEF HandleGap
    <3>2. t \in snapshotted \ missed' => headVer'[t] = headVer[t]
      BY <1>2, <3>1 DEF OfMarket
    <3>3. Book(headVer[t]) \subseteq Book(headVer'[t])
      BY <1>2, <2>1 DEF Book
    <3> QED
      BY <1>2, <2>1, <3>1, <3>2, <3>3 DEF Mirrored
  <2> QED
    BY <2>2, <2>3, <2>4, <2>5 DEF HandleRaw
<1>4. NoStream'
  BY <1>1 DEF StreamInv, NoStream, Live, HandleRaw, HandleSubscribed, HandleError,
              HandleSnapshot, HandleDelta, HandleGap, Receive
<1> QED
  BY <1>2, <1>3, <1>4 DEF StreamInv, Stream

\* A frame lost on the way leaves the mirror as it is.
LEMMA LoseStep == ASSUME TypeOK, TypeOK', StreamInv, LoseFrame PROVE StreamInv'
<1> USE DEF hookVars, taskVars, loopVars, serverVars, historyVars, budgetVars
<1> DEFINE f == Head(chan)
<1>1. /\ chan # <<>> /\ chan' = Tail(chan)
      /\ IF f.type \in MarketTypes
           THEN Taken(f) /\ missed' = missed \cup {f.ticker}
           ELSE UNCHANGED <<headVer, connVer, missed>>
      /\ UNCHANGED <<pc, ver, srvSubs, owed, books, snapshotted>>
  BY DEF LoseFrame
<1>2. ASSUME NEW t \in Tickers
      PROVE  /\ Live /\ Live' /\ Stream(t)'
             /\ headVer[t] <= headVer'[t]
             /\ connVer' = connVer
             /\ ~OfMarket(f, t) => headVer'[t] = headVer[t]
  BY <1>1, TakeStep
<1>3. ASSUME NEW t \in Tickers PROVE Mirrored(t)'
  <2>1. Mirrored(t) /\ headVer[t] \in Nat /\ headVer'[t] \in Nat
    BY DEF StreamInv, TypeOK
  <2>2. t \in snapshotted \ missed' => headVer'[t] = headVer[t] /\ t \notin missed
    BY <1>1, <1>2 DEF OfMarket
  <2>3. Book(headVer[t]) \subseteq Book(headVer'[t])
    BY <1>2, <2>1 DEF Book
  <2> QED
    BY <1>1, <1>2, <2>1, <2>2, <2>3 DEF Mirrored
<1>4. NoStream'
  BY <1>1 DEF StreamInv, NoStream, Live
<1> QED
  BY <1>2, <1>3, <1>4 DEF StreamInv, Stream

LEMMA StreamStep == TypeOK /\ TypeOK' /\ StreamInv /\ [Next]_vars => StreamInv'
<1> SUFFICES ASSUME TypeOK, TypeOK', StreamInv, [Next]_vars PROVE StreamInv'
  OBVIOUS
<1> USE DEF hookVars, taskVars, loopVars, serverVars, historyVars, budgetVars
<1>1. CASE UNCHANGED vars
  BY <1>1, QuietStep DEF vars, Live
<1>2. CASE \/ LoopTop \/ SubscribeSent \/ BackoffDone \/ Stop \/ ResyncSent
           \/ Rollover \/ Finished \/ ReconIdle \/ ReconSent
  BY <1>2, QuietStep DEF LoopTop, SubscribeSent, BackoffDone, Stop, ResyncSent,
       Rollover, Finished, ReconIdle, ReconSent, vars, Live
<1>3. CASE ReconSubscribe \/ ReconUpdate \/ ReconDelete
  <2>1. Live /\ Live'
    BY <1>3 DEF ReconSubscribe, ReconUpdate, ReconDelete, ReconAwake, Live
  <2> QED
    BY <1>3, <2>1, QuietStep DEF ReconSubscribe, ReconUpdate, ReconDelete
<1>4. CASE ConnectOK
  BY <1>4, ConnectStep
<1>5. CASE ConnectionLost \/ StopExit
  BY <1>5, ClearStep DEF ConnectionLost, StopExit, Live
<1>6. CASE HandleRaw
  BY <1>6, HandleStep
<1>7. CASE ServeCommand \/ RejectCommand
  BY <1>7, ServeStep
<1>8. CASE LoseFrame
  BY <1>8, LoseStep
<1>9. CASE \E t \in Tickers : SendSnapshot(t) \/ MarketMoves(t)
  BY <1>9, SendSnapshotStep, MarketMovesStep
<1> QED
  BY <1>1, <1>2, <1>3, <1>4, <1>5, <1>6, <1>7, <1>8, <1>9, NextCases DEF HandleRaw

\* On every market's stream the frames under way carry the exchange's books in
\* order and without a hole, and the mirror stands where the last frame taken
\* left it (parse, _handle_raw, _on_connect_reset).
THEOREM StreamInvariant == Spec => []StreamInv
<1>1. Init => TypeOK /\ StreamInv
  BY TypeInit, StreamInit
<1>2. (TypeOK /\ StreamInv) /\ [Next]_vars => (TypeOK /\ StreamInv)'
  BY TypeStep, StreamStep
<1> QED
  BY <1>1, <1>2, PTL DEF Spec

\* A book the collector emits is the exchange's as of the last frame of its
\* market, unless a frame of that market itself was lost or dropped.
THEOREM MirrorIsExact == Spec => []MirrorExact
<1>1. TypeOK /\ StreamInv => MirrorExact
  BY DEF StreamInv, Mirrored, MirrorExact, TypeOK
<1> QED
  BY <1>1, TypeCorrect, StreamInvariant, PTL

\* With nothing owed or in flight, that is the exchange's current book.
THEOREM MirrorCatchesUp == Spec => []MirrorCaughtUp
<1>1. TypeOK /\ StreamInv => MirrorCaughtUp
  BY DEF StreamInv, Mirrored, Linked, MirrorCaughtUp, TypeOK
<1> QED
  BY <1>1, TypeCorrect, StreamInvariant, PTL

\* No book survives the connection it was received on.
THEOREM NoOldBooks == Spec => []BooksOfThisConnection
<1>1. TypeOK /\ StreamInv => BooksOfThisConnection
  BY DEF StreamInv, Mirrored, BooksOfThisConnection, Live, TypeOK, IsBooks
<1> QED
  BY <1>1, TypeCorrect, StreamInvariant, PTL

-----------------------------------------------------------------------------
(***************************************************************************)
(* Refinement                                                              *)
(***************************************************************************)
LEMMA LaggingInit == Init => Lagging!Init
BY DEF Init, NoBooks, Lagging!Init, Lagging!Empty

\* A snapshot rebuilds the mirror of its market from a book that is no older
\* than what it shows.
LEMMA LaggingSnapshot ==
    ASSUME TypeOK, StreamInv, HandleSnapshot
    PROVE  \E t \in Tickers : Lagging!Rebuild(t)
<1> USE DEF hookVars, taskVars, loopVars, serverVars, historyVars, budgetVars
<1> DEFINE f == Head(chan)
<1>1. /\ chan # <<>> /\ f.type = "orderbook_snapshot" /\ ver' = ver /\ chan' = Tail(chan)
      /\ books' = Put(books, f.ticker, Book(f.ver))
      /\ missed' = missed \ {f.ticker}
  BY DEF HandleSnapshot, Receive
<1>2. f.ticker \in Tickers /\ f.ver \in Nat
  BY <1>1, HeadType DEF MarketTypes
<1>3. PICK t \in Tickers : t = f.ticker
  BY <1>2
<1>4. /\ Ordered(t) /\ Mirrored(t)
      /\ headVer[t] \in Nat /\ ver[t] \in Nat
  BY DEF StreamInv, TypeOK
<1>5. headVer[t] <= f.ver /\ f.ver <= ver[t]
  <2>1. 1 \in InFlight(t) /\ chan[1] = f
    <3>1. OfMarket(f, t)
      BY <1>1, <1>3 DEF OfMarket, MarketTypes
    <3> QED
      BY <1>1, <3>1, InFlightTail
  <2> QED
    BY <1>4, <2>1 DEF Ordered
<1>6. t \in DOMAIN books => books[t] \subseteq Book(f.ver)
  <2>1. Book(headVer[t]) \subseteq Book(f.ver)
    BY <1>2, <1>4, <1>5 DEF Book
  <2> QED
    BY <1>4, <2>1 DEF Mirrored
<1>7. PICK v \in 0 .. ver[t] : v = f.ver
  BY <1>2, <1>4, <1>5
<1> QED
  BY <1>1, <1>3, <1>6, <1>7
     DEF Lagging!Rebuild, Lagging!With, Lagging!Book, Put, Book

\* A delta adds the change after the last one taken: the next one of a book that
\* missed none.
LEMMA LaggingDelta ==
    ASSUME TypeOK, TypeOK', StreamInv, StreamInv', HandleDelta,
           Head(chan).ticker \in snapshotted
    PROVE  \E t \in Tickers : Lagging!Add(t)
<1> USE DEF hookVars, taskVars, loopVars, serverVars, historyVars, budgetVars
<1> DEFINE f == Head(chan)
<1>1. /\ chan # <<>> /\ f.type = "orderbook_delta" /\ chan' = Tail(chan)
      /\ ApplyDelta(f.ticker, f.ver) /\ Taken(f)
      /\ UNCHANGED <<pc, ver, srvSubs, owed, missed>>
  BY DEF HandleDelta, Receive
<1>2. f.ticker \in Tickers /\ f.ver \in Nat
  BY <1>1, HeadType DEF MarketTypes
<1>3. PICK t \in Tickers : t = f.ticker
  BY <1>2
<1>4. /\ Mirrored(t) /\ Ordered(t)'
      /\ headVer[t] \in Nat /\ ver[t] \in Nat
  BY DEF StreamInv, TypeOK
<1>5. headVer'[t] = f.ver /\ f.ver = headVer[t] + 1
  BY <1>1, <1>3, TakeStep DEF OfMarket, MarketTypes
<1>6. f.ver <= ver[t]
  BY <1>1, <1>4, <1>5 DEF Ordered
<1>7. PICK c \in 1 .. ver[t] : c = f.ver
  BY <1>2, <1>4, <1>5, <1>6
<1>8. Book(c - 1) = Book(headVer[t])
  <2>1. c - 1 = headVer[t]
    BY <1>4, <1>5, <1>7
  <2> QED
    BY <2>1
<1>9. /\ t \in DOMAIN books
      /\ books[t] \subseteq Book(c - 1)
      /\ t \notin missed => books[t] = Book(c - 1)
  BY <1>3, <1>4, <1>8 DEF Mirrored
<1>10. books' = Lagging!With(t, books[t] \cup {c})
  BY <1>1, <1>3, <1>7, <1>9 DEF ApplyDelta, Lagging!With, TypeOK
<1> QED
  BY <1>1, <1>9, <1>10 DEF Lagging!Add, Lagging!Book, Book

\* A step that touches neither the mirror nor the exchange nor what is missing
\* is a stutter, a change of the exchange a Move, a new connection a Forget, a
\* snapshot a Rebuild, a delta an Add (or a stutter, when it is dropped before
\* the snapshot), and a frame that is lost or dropped by the gap check a Lose.
LEMMA LaggingStep ==
    ASSUME TypeOK, TypeOK', StreamInv, StreamInv', [Next]_vars
    PROVE  [Lagging!Next]_(Lagging!vars)
<1> USE DEF hookVars, taskVars, loopVars, serverVars, historyVars, budgetVars
<1>1. CASE UNCHANGED <<ver, books, missed>>
  BY <1>1 DEF Lagging!vars
<1>2. CASE ConnectOK
  BY <1>2 DEF ConnectOK, OnConnectReset, NoBooks, Lagging!Next, Lagging!Forget, Lagging!Empty
<1>3. ASSUME NEW t \in Tickers, MarketMoves(t) PROVE Lagging!Next
  BY <1>3 DEF MarketMoves, Lagging!Next, Lagging!Move
<1>4. CASE HandleSnapshot
  BY <1>4, LaggingSnapshot DEF Lagging!Next
<1>5. CASE HandleDelta
  <2>1. CASE Head(chan).ticker \in snapshotted
    BY <1>5, <2>1, LaggingDelta DEF Lagging!Next
  <2>2. CASE Head(chan).ticker \notin snapshotted
    BY <1>5, <2>2 DEF HandleDelta, ApplyDelta, Lagging!vars
  <2> QED
    BY <2>1, <2>2
<1>6. CASE HandleGap \/ (LoseFrame /\ Head(chan).type \in MarketTypes)
  <2>1. Head(chan).ticker \in Tickers
    BY <1>6, HeadType DEF HandleGap, LoseFrame, Receive, MarketTypes
  <2>2. missed' = missed \cup {Head(chan).ticker} /\ UNCHANGED <<ver, books>>
    BY <1>6 DEF HandleGap, LoseFrame
  <2> QED
    BY <2>1, <2>2 DEF Lagging!Next, Lagging!Lose
<1>7. CASE \/ LoopTop \/ SubscribeSent \/ ConnectionLost \/ BackoffDone \/ Stop
           \/ StopExit \/ Finished \/ ReconIdle \/ ReconSubscribe \/ ReconUpdate
           \/ ReconDelete \/ ReconSent \/ ResyncSent \/ Rollover \/ ServeCommand
           \/ RejectCommand \/ HandleSubscribed \/ HandleError
           \/ (LoseFrame /\ Head(chan).type \notin MarketTypes)
           \/ (\E t \in Tickers : SendSnapshot(t))
  <2>1. UNCHANGED <<ver, books, missed>>
    BY <1>7 DEF LoopTop, SubscribeSent, ConnectionLost, BackoffDone, Stop, StopExit,
         Finished, vars, ReconIdle, ReconSubscribe, ReconUpdate, ReconDelete,
         ReconSent, ResyncSent, Rollover, ServeCommand, RejectCommand,
         HandleSubscribed, HandleError, LoseFrame, SendSnapshot
  <2> QED
    BY <1>1, <2>1
<1>8. CASE UNCHANGED vars
  BY <1>8 DEF vars, Lagging!vars
<1> QED
  BY <1>2, <1>3, <1>4, <1>5, <1>6, <1>7, <1>8, NextCases

\* The book collector implements LaggingMirror: it shows a past or present book of
\* the exchange for every market that missed nothing, admits no change twice, out
\* of order or ahead of the exchange in any book, and only a snapshot makes whole
\* a book that missed one.
THEOREM Refinement == Spec => RefinesLaggingMirror
<1>1. TypeOK /\ TypeOK' /\ StreamInv /\ StreamInv' /\ [Next]_vars
        => [Lagging!Next]_(Lagging!vars)
  BY LaggingStep
<1> QED
  BY <1>1, LaggingInit, TypeCorrect, StreamInvariant, PTL
     DEF Spec, RefinesLaggingMirror, Lagging!Spec

=============================================================================
