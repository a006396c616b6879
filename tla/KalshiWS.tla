------------------------------ MODULE KalshiWS ------------------------------
(***************************************************************************)
(* The WebSocket order-book collector (collectors.py, class               *)
(* _KalshiWSCollector with the hooks of KalshiBookCollector) talking to    *)
(* the Kalshi feed.                                                        *)
(*                                                                         *)
(* The collector is one asyncio program: the connect loop _ws_loop and,    *)
(* while a connection is up, the two tasks _recv_loop and _reconcile_loop. *)
(* They interleave only where the code awaits, so an action below runs     *)
(* from one await to the next.  A command is on the wire as soon as        *)
(* ws.send is called; what the code does after "await ws.send(...)" is a   *)
(* later action, and the other task may run in between.                    *)
(*                                                                         *)
(* The content of a market's order book is abstracted to the exchange's    *)
(* changes it was built from.  The exchange numbers the changes of a       *)
(* market; its book after v of them is the set 1 .. v, which a snapshot    *)
(* carries; a delta carries one change, and applying it adds that change.  *)
(* A mirror that has changes after one it lacks is a set with a hole, not  *)
(* a state of the exchange's book.  Module BookMirror justifies the        *)
(* abstraction: with the operators of orderbook.py a mirror that starts    *)
(* exact and takes every delta stays exact.                                *)
(*                                                                         *)
(* The feed is not part of the repository.  It is modelled from how the    *)
(* code and its tests use it: commands are answered in order on one FIFO   *)
(* stream, snapshots and deltas of a subscription share one sequence       *)
(* counter, a newly subscribed market gets its snapshot before its         *)
(* deltas.  Frames may be lost (that is what the gap check is for) and     *)
(* commands may be answered by an error frame.                             *)
(***************************************************************************)
EXTENDS Naturals, Sequences

CONSTANTS
    Tickers,          \* market tickers
    None,             \* Python's None
    INITIAL_BACKOFF,  \* base.Collector.INITIAL_BACKOFF
    MAX_BACKOFF,      \* base.Collector.MAX_BACKOFF
    InitActive,       \* what discovery has resolved when the collector starts
    LossyTypes,       \* the types of frame that can be lost
    MaxVer,           \* bound: changes of each market's book
    MaxLoss,          \* bound: lost frames
    MaxFaults,        \* bound: failed handshakes and dropped connections
    MaxReject,        \* bound: commands answered by an error frame
    MaxRoll,          \* bound: changes of the discovery map
    MayStop           \* whether stop() may be called

FrameTypes == {"subscribed", "error", "orderbook_snapshot", "orderbook_delta"}

ASSUME NoneAssumption == None \notin Nat \cup Tickers
ASSUME BackoffAssumption ==
    /\ INITIAL_BACKOFF \in Nat \ {0}
    /\ MAX_BACKOFF \in Nat
    /\ INITIAL_BACKOFF <= MAX_BACKOFF
ASSUME EnvironmentAssumption ==
    /\ InitActive \subseteq Tickers
    /\ LossyTypes \subseteq FrameTypes
ASSUME BoundAssumption ==
    /\ {MaxVer, MaxLoss, MaxFaults, MaxReject, MaxRoll} \subseteq Nat
    /\ MayStop \in BOOLEAN

VARIABLES
    \* _KalshiWSCollector and KalshiBookCollector
    stop,         \* the event self._stop
    pc,           \* the await at which _ws_loop is suspended
    backoff,      \* local variable of _ws_loop
    sid,          \* self._sid
    lastSeq,      \* self._last_seq
    subscribed,   \* self._subscribed
    books,        \* self._books: a function on its keys, the changes in each
    snapshotted,  \* self._snapshotted
    recv,         \* the await at which _recv_loop is suspended
    recon,        \* the await at which _reconcile_loop is suspended
    want,         \* local "tickers" of _subscribe, "desired" of _reconcile_loop
    \* KalshiMarketDiscovery, as the collector reads it
    active,       \* discovery.active_tickers()
    \* the feed
    ver,          \* per ticker, how many changes its book has had so far
    srvSubs,      \* markets the server streams on this connection
    srvSeq,       \* last sequence number the server used
    owed,         \* markets whose snapshot the server still has to send
    cmds,         \* commands on their way to the server
    chan,         \* frames on their way to the collector
    \* history of the stream, for the properties
    headSeq,      \* sequence number of the last frame taken from chan
    headVer,      \* per ticker, the exchange's book as of the last such frame
    connVer,      \* per ticker, the exchange's book when this connection opened
    missed,       \* tickers with a frame that did not reach the mirror
    lost, faults, rejects, rolls   \* how much of each bound is used

hookVars   == <<books, snapshotted>>
taskVars   == <<recv, recon, want>>
loopVars   == <<pc, backoff>>
serverVars == <<ver, srvSubs, srvSeq, owed>>
historyVars == <<headSeq, headVer, connVer, missed>>
budgetVars == <<lost, faults, rejects, rolls>>
vars == <<stop, pc, backoff, sid, lastSeq, subscribed, books, snapshotted,
          recv, recon, want, active, ver, srvSubs, srvSeq, owed, cmds, chan,
          headSeq, headVer, connVer, missed, lost, faults, rejects, rolls>>

-----------------------------------------------------------------------------
(***************************************************************************)
(* Commands and frames                                                     *)
(***************************************************************************)
Actions == {"subscribe", "add_markets", "delete_markets", "get_snapshot"}
Command == [action : Actions, tickers : SUBSET Tickers]

Cmd(action, tickers) == [action |-> action, tickers |-> tickers]

SubscribedFrame     == [type |-> "subscribed", sid |-> 1]
ErrorFrame          == [type |-> "error"]
MarketFrame(type, t, n, v) ==
    [type |-> type, ticker |-> t, seq |-> n, ver |-> v]

\* The frames that carry a sequence number and speak of one market.
MarketTypes == {"orderbook_snapshot", "orderbook_delta"}

\* The exchange's book after v changes, by the changes it contains.
Book(v) == 1 .. v

\* The dictionary f with the entry of key t set to b; the empty dictionary.
Put(f, t, b) == [u \in DOMAIN f \cup {t} |-> IF u = t THEN b ELSE f[u]]
NoBooks == [t \in {} |-> {}]

Frame ==
    {SubscribedFrame, ErrorFrame}
    \cup [type : MarketTypes, ticker : Tickers, seq : Nat, ver : Nat]

-----------------------------------------------------------------------------
Init ==
    /\ stop = FALSE
    /\ pc = "top"
    /\ backoff = INITIAL_BACKOFF
    /\ sid = None
    /\ lastSeq = None
    /\ subscribed = {}
    /\ books = NoBooks
    /\ snapshotted = {}
    /\ recv = "next"
    /\ recon = "sleep"
    /\ want = {}
    /\ active = InitActive
    /\ ver = [t \in Tickers |-> 0]
    /\ srvSubs = {}
    /\ srvSeq = 0
    /\ owed = {}
    /\ cmds = <<>>
    /\ chan = <<>>
    /\ headSeq = 0
    /\ headVer = [t \in Tickers |-> 0]
    /\ connVer = [t \in Tickers |-> 0]
    /\ missed = {}
    /\ lost = 0 /\ faults = 0 /\ rejects = 0 /\ rolls = 0

-----------------------------------------------------------------------------
(***************************************************************************)
(* _ws_loop: connect, subscribe, run the two tasks, back off, reconnect    *)
(***************************************************************************)

\* while not self._stop.is_set()
LoopTop ==
    /\ pc = "top"
    /\ pc' = IF stop THEN "done" ELSE "connect"
    /\ UNCHANGED <<stop, backoff, sid, lastSeq, subscribed, hookVars, taskVars,
                   active, serverVars, cmds, chan, historyVars, budgetVars>>

\* Variant for the checks: the books survive the connection.
OnConnectResetKeepsBooks == UNCHANGED hookVars

\* KalshiBookCollector._on_connect_reset
OnConnectReset ==
    /\ books' = NoBooks
    /\ snapshotted' = {}

\* The handshake succeeds: the per-connection state is reset and _subscribe
\* runs up to its send.  With no active ticker it returns without sending and
\* the two tasks start at once.
ConnectOK ==
    /\ pc = "connect"
    /\ sid' = None
    /\ lastSeq' = None
    /\ subscribed' = {}
    /\ OnConnectReset
    /\ IF active = {}
         THEN /\ pc' = "running"
              /\ backoff' = INITIAL_BACKOFF
              /\ UNCHANGED <<cmds, want>>
         ELSE /\ pc' = "subscribe"
              /\ cmds' = Append(cmds, Cmd("subscribe", active))
              /\ want' = active
              /\ UNCHANGED backoff
    /\ headSeq' = 0
    /\ connVer' = ver
    /\ missed' = {}
    /\ UNCHANGED <<stop, recv, recon, active, serverVars, chan, headVer,
                   budgetVars>>

\* Variant: the active tickers are read again after the send.
SubscribeSentReread ==
    /\ pc = "subscribe"
    /\ subscribed' = active
    /\ backoff' = INITIAL_BACKOFF
    /\ pc' = "running"
    /\ UNCHANGED <<stop, sid, lastSeq, hookVars, taskVars, active, serverVars,
                   cmds, chan, historyVars, budgetVars>>

\* The send of the initial _subscribe returns; the tasks are created.
SubscribeSent ==
    /\ pc = "subscribe"
    /\ subscribed' = want
    /\ backoff' = INITIAL_BACKOFF
    /\ pc' = "running"
    /\ UNCHANGED <<stop, sid, lastSeq, hookVars, taskVars, active, serverVars,
                   cmds, chan, historyVars, budgetVars>>

\* The handshake fails, or the connection ends under a send or a receive (with
\* an error or cleanly: both raise into the handler).  The tasks are cancelled;
\* what was in flight in either direction is gone, the server forgets the
\* subscription.  The collector's own state stays until the next connect.
ConnectionLost ==
    /\ pc \in {"connect", "subscribe", "running"}
    /\ faults < MaxFaults
    /\ faults' = faults + 1
    /\ pc' = "backoff"
    /\ recv' = "next" /\ recon' = "sleep" /\ want' = {}
    /\ srvSubs' = {} /\ srvSeq' = 0 /\ owed' = {}
    /\ cmds' = <<>> /\ chan' = <<>>
    /\ UNCHANGED <<stop, backoff, sid, lastSeq, subscribed, hookVars, active,
                   ver, historyVars, lost, rejects, rolls>>

\* Variant: the backoff is doubled without a cap.
BackoffDoneUncapped ==
    /\ pc = "backoff"
    /\ pc' = IF stop THEN "done" ELSE "top"
    /\ backoff' = IF stop THEN backoff ELSE backoff * 2
    /\ UNCHANGED <<stop, sid, lastSeq, subscribed, hookVars, taskVars, active,
                   serverVars, cmds, chan, historyVars, budgetVars>>

\* if await self._sleep_or_stop(backoff): break; backoff = min(backoff * 2, ...)
BackoffDone ==
    /\ pc = "backoff"
    /\ IF stop
         THEN /\ pc' = "done"
              /\ UNCHANGED backoff
         ELSE /\ pc' = "top"
              /\ backoff' = IF backoff * 2 < MAX_BACKOFF THEN backoff * 2
                                                         ELSE MAX_BACKOFF
    /\ UNCHANGED <<stop, sid, lastSeq, subscribed, hookVars, taskVars, active,
                   serverVars, cmds, chan, historyVars, budgetVars>>

\* stop(): only sets the event; the loops notice it where they look at it.
Stop ==
    /\ MayStop
    /\ ~stop
    /\ stop' = TRUE
    /\ UNCHANGED <<loopVars, sid, lastSeq, subscribed, hookVars, taskVars,
                   active, serverVars, cmds, chan, historyVars, budgetVars>>

\* Variant: stop is noticed by _recv_loop only.
StopExitOnFrame ==
    /\ pc = "running"
    /\ stop
    /\ recv = "next" /\ chan # <<>>
    /\ pc' = "done"
    /\ recv' = "next" /\ recon' = "sleep" /\ want' = {}
    /\ srvSubs' = {} /\ srvSeq' = 0 /\ owed' = {}
    /\ cmds' = <<>> /\ chan' = <<>>
    /\ UNCHANGED <<stop, backoff, sid, lastSeq, subscribed, hookVars, active,
                   ver, historyVars, budgetVars>>

\* A task ends because of stop: _reconcile_loop out of its sleep, _recv_loop on
\* the next frame (which it does not handle).  _ws_loop cancels the other task
\* and breaks; leaving the "async with" closes the socket.
StopExit ==
    /\ pc = "running"
    /\ stop
    /\ recon = "sleep" \/ (recv = "next" /\ chan # <<>>)
    /\ pc' = "done"
    /\ recv' = "next" /\ recon' = "sleep" /\ want' = {}
    /\ srvSubs' = {} /\ srvSeq' = 0 /\ owed' = {}
    /\ cmds' = <<>> /\ chan' = <<>>
    /\ UNCHANGED <<stop, backoff, sid, lastSeq, subscribed, hookVars, active,
                   ver, historyVars, budgetVars>>

\* run() has returned.
Finished ==
    /\ pc = "done"
    /\ UNCHANGED vars

-----------------------------------------------------------------------------
(***************************************************************************)
(* _reconcile_loop                                                         *)
(***************************************************************************)

\* _send_update: a no-op without a sid or without tickers.
UpdateCmds(action, tickers) ==
    IF sid = None \/ tickers = {} THEN cmds
                                  ELSE Append(cmds, Cmd(action, tickers))

ReconAwake == pc = "running" /\ recon = "sleep" /\ ~stop

\* Nothing to do, or the initial subscribe is still unanswered: continue.
ReconIdle ==
    /\ ReconAwake
    /\ active = subscribed \/ (sid = None /\ (active = {} \/ subscribed # {}))
    /\ UNCHANGED vars

\* No ticker was known at connect: _subscribe runs up to its send.
ReconSubscribe ==
    /\ ReconAwake
    /\ sid = None /\ active # {} /\ subscribed = {}
    /\ cmds' = Append(cmds, Cmd("subscribe", active))
    /\ want' = active
    /\ recon' = "subscribe"
    /\ UNCHANGED <<stop, loopVars, sid, lastSeq, subscribed, hookVars, recv,
                   active, serverVars, chan, historyVars, budgetVars>>

\* The window rolled over: send add_markets if there is something to add,
\* otherwise delete_markets (the two sets are not both empty).
ReconUpdate ==
    /\ ReconAwake
    /\ active # subscribed
    /\ sid # None
    /\ want' = active
    /\ IF active \ subscribed # {}
         THEN /\ cmds' = UpdateCmds("add_markets", active \ subscribed)
              /\ recon' = "add"
         ELSE /\ cmds' = UpdateCmds("delete_markets", subscribed \ active)
              /\ recon' = "delete"
    /\ UNCHANGED <<stop, loopVars, sid, lastSeq, subscribed, hookVars, recv,
                   active, serverVars, chan, historyVars, budgetVars>>

\* The send of add_markets returns and there are markets to remove.
ReconDelete ==
    /\ pc = "running"
    /\ recon = "add"
    /\ subscribed \ want # {}
    /\ cmds' = UpdateCmds("delete_markets", subscribed \ want)
    /\ recon' = "delete"
    /\ UNCHANGED <<stop, loopVars, sid, lastSeq, subscribed, hookVars, recv,
                   want, active, serverVars, chan, historyVars, budgetVars>>

\* Variant: a round that has added markets removes none.
ReconSentEitherOr ==
    /\ pc = "running"
    /\ recon \in {"subscribe", "delete", "add"}
    /\ subscribed' = want
    /\ recon' = "sleep"
    /\ want' = {}
    /\ UNCHANGED <<stop, loopVars, sid, lastSeq, hookVars, recv, active,
                   serverVars, cmds, chan, historyVars, budgetVars>>

\* The last send of the round returns: self._subscribed = desired.
ReconSent ==
    /\ pc = "running"
    /\ \/ recon \in {"subscribe", "delete"}
       \/ recon = "add" /\ subscribed \subseteq want
    /\ subscribed' = want
    /\ recon' = "sleep"
    /\ want' = {}
    /\ UNCHANGED <<stop, loopVars, sid, lastSeq, hookVars, recv, active,
                   serverVars, cmds, chan, historyVars, budgetVars>>

-----------------------------------------------------------------------------
(***************************************************************************)
(* _recv_loop: one action per type of frame handled by _handle_raw         *)
(***************************************************************************)

\* History: market frame f has left the stream.
Taken(f) ==
    /\ headSeq' = f.seq
    /\ headVer' = [headVer EXCEPT ![f.ticker] = f.ver]
    /\ UNCHANGED connVer

\* The receive task takes a frame of this type off the stream.
Receive(type) ==
    /\ pc = "running"
    /\ recv = "next"
    /\ ~stop
    /\ chan # <<>>
    /\ Head(chan).type = type
    /\ chan' = Tail(chan)

HandleSubscribed ==
    /\ Receive("subscribed")
    /\ sid' = Head(chan).sid
    /\ lastSeq' = None
    /\ UNCHANGED <<stop, loopVars, subscribed, hookVars, taskVars, active,
                   serverVars, cmds, historyVars, budgetVars>>

\* A server error is logged, nothing else.
HandleError ==
    /\ Receive("error")
    /\ UNCHANGED <<stop, loopVars, sid, lastSeq, subscribed, hookVars,
                   taskVars, active, serverVars, cmds, historyVars,
                   budgetVars>>

\* Variant: only the first snapshot of a market is taken.
HandleSnapshotOnce ==
    /\ Receive("orderbook_snapshot")
    /\ lastSeq' = Head(chan).seq
    /\ IF Head(chan).ticker \in snapshotted
         THEN UNCHANGED <<hookVars, missed>>
         ELSE /\ books' = Put(books, Head(chan).ticker, Book(Head(chan).ver))
              /\ snapshotted' = snapshotted \cup {Head(chan).ticker}
              /\ missed' = missed \ {Head(chan).ticker}
    /\ Taken(Head(chan))
    /\ UNCHANGED <<stop, loopVars, sid, subscribed, taskVars, active,
                   serverVars, cmds, budgetVars>>

\* A snapshot sets the watermark and replaces the book.
HandleSnapshot ==
    /\ Receive("orderbook_snapshot")
    /\ lastSeq' = Head(chan).seq
    /\ books' = Put(books, Head(chan).ticker, Book(Head(chan).ver))
    /\ snapshotted' = snapshotted \cup {Head(chan).ticker}
    /\ Taken(Head(chan))
    /\ missed' = missed \ {Head(chan).ticker}
    /\ UNCHANGED <<stop, loopVars, sid, subscribed, taskVars, active,
                   serverVars, cmds, budgetVars>>

\* Variant: one frame may be missing.
GapTolerant(seq) == lastSeq # None /\ seq > lastSeq + 2

Gap(seq) == lastSeq # None /\ seq # lastSeq + 1

\* Variant: a delta of a market that is not in self._subscribed is dropped.
ApplyDeltaIfSubscribed(t, change) ==
    books' = IF t \in snapshotted \cap subscribed
               THEN [books EXCEPT ![t] = @ \cup {change}]
               ELSE books

\* Variant: a delta that comes before the snapshot is applied too.
ApplyDeltaUnchecked(t, change) ==
    books' = Put(books, t, (IF t \in DOMAIN books THEN books[t] ELSE {}) \cup {change})

\* parse() on a delta: dropped unless this connection has a snapshot.
ApplyDelta(t, change) ==
    books' = IF t \in snapshotted THEN [books EXCEPT ![t] = @ \cup {change}]
                                  ELSE books

\* A delta in sequence (or the first frame of the subscription) is applied.
HandleDelta ==
    /\ Receive("orderbook_delta")
    /\ ~Gap(Head(chan).seq)
    /\ lastSeq' = Head(chan).seq
    /\ ApplyDelta(Head(chan).ticker, Head(chan).ver)
    /\ Taken(Head(chan))
    /\ UNCHANGED <<stop, loopVars, sid, subscribed, snapshotted, taskVars,
                   active, serverVars, cmds, missed, budgetVars>>

\* A delta out of sequence: the watermark moves to it, _resync asks for the
\* snapshots of self._subscribed, the frame itself is dropped.  The task is
\* suspended in the send, if there was one.
HandleGap ==
    /\ Receive("orderbook_delta")
    /\ Gap(Head(chan).seq)
    /\ lastSeq' = Head(chan).seq
    /\ cmds' = UpdateCmds("get_snapshot", subscribed)
    /\ recv' = IF cmds' = cmds THEN "next" ELSE "resync"
    /\ Taken(Head(chan))
    /\ missed' = missed \cup {Head(chan).ticker}
    /\ UNCHANGED <<stop, loopVars, sid, subscribed, hookVars, recon, want,
                   active, serverVars, budgetVars>>

\* The send of get_snapshot returns.
ResyncSent ==
    /\ pc = "running"
    /\ recv = "resync"
    /\ recv' = "next"
    /\ UNCHANGED <<stop, loopVars, sid, lastSeq, subscribed, hookVars, recon,
                   want, active, serverVars, cmds, chan, historyVars,
                   budgetVars>>

-----------------------------------------------------------------------------
(***************************************************************************)
(* Discovery, the feed and the network                                     *)
(***************************************************************************)

\* refresh_once installs another map.
Rollover ==
    \E S \in SUBSET Tickers :
        /\ rolls < MaxRoll
        /\ rolls' = rolls + 1
        /\ S # active
        /\ active' = S
        /\ UNCHANGED <<stop, loopVars, sid, lastSeq, subscribed, hookVars,
                       taskVars, serverVars, cmds, chan, historyVars, lost,
                       faults, rejects>>

\* The server carries out the next command.
ServeCommand ==
    /\ cmds # <<>>
    /\ cmds' = Tail(cmds)
    /\ LET c == Head(cmds) IN
         \/ /\ c.action = "subscribe"
            /\ srvSubs' = c.tickers
            /\ owed' = c.tickers
            /\ chan' = Append(chan, SubscribedFrame)
         \/ /\ c.action = "add_markets"
            /\ srvSubs' = srvSubs \cup c.tickers
            /\ owed' = owed \cup (c.tickers \ srvSubs)
            /\ UNCHANGED chan
         \/ /\ c.action = "delete_markets"
            /\ srvSubs' = srvSubs \ c.tickers
            /\ owed' = owed \ c.tickers
            /\ UNCHANGED chan
         \/ /\ c.action = "get_snapshot"
            /\ owed' = owed \cup (c.tickers \cap srvSubs)
            /\ UNCHANGED <<srvSubs, chan>>
    /\ UNCHANGED <<stop, loopVars, sid, lastSeq, subscribed, hookVars,
                   taskVars, active, ver, srvSeq, historyVars, budgetVars>>

\* The server answers the next command with an error frame.
RejectCommand ==
    /\ cmds # <<>>
    /\ rejects < MaxReject
    /\ rejects' = rejects + 1
    /\ cmds' = Tail(cmds)
    /\ chan' = Append(chan, ErrorFrame)
    /\ UNCHANGED <<stop, loopVars, sid, lastSeq, subscribed, hookVars,
                   taskVars, active, serverVars, historyVars, lost, faults,
                   rolls>>

SendSnapshot(t) ==
    /\ t \in owed
    /\ owed' = owed \ {t}
    /\ srvSeq' = srvSeq + 1
    /\ chan' = Append(chan, MarketFrame("orderbook_snapshot", t, srvSeq', ver[t]))
    /\ UNCHANGED <<stop, loopVars, sid, lastSeq, subscribed, hookVars,
                   taskVars, active, ver, srvSubs, cmds, historyVars,
                   budgetVars>>

\* The exchange's book of t changes; a subscriber is told.
MarketMoves(t) ==
    /\ ver[t] < MaxVer
    /\ t \notin owed
    /\ ver' = [ver EXCEPT ![t] = @ + 1]
    /\ IF t \in srvSubs
         THEN /\ srvSeq' = srvSeq + 1
              /\ chan' = Append(chan, MarketFrame("orderbook_delta", t, srvSeq', ver'[t]))
         ELSE UNCHANGED <<srvSeq, chan>>
    /\ UNCHANGED <<stop, loopVars, sid, lastSeq, subscribed, hookVars,
                   taskVars, active, srvSubs, owed, cmds, historyVars,
                   budgetVars>>

\* The next frame never reaches _handle_raw's sequence check: dropped on the
\* way, or not decodable as JSON.
LoseFrame ==
    /\ chan # <<>>
    /\ Head(chan).type \in LossyTypes
    /\ lost < MaxLoss
    /\ lost' = lost + 1
    /\ chan' = Tail(chan)
    /\ LET f == Head(chan) IN
         IF f.type \in MarketTypes
           THEN /\ Taken(f)
                /\ missed' = missed \cup {f.ticker}
           ELSE UNCHANGED historyVars
    /\ UNCHANGED <<stop, loopVars, sid, lastSeq, subscribed, hookVars,
                   taskVars, active, serverVars, cmds, faults, rejects,
                   rolls>>

-----------------------------------------------------------------------------
Loop      == LoopTop \/ ConnectOK \/ SubscribeSent \/ BackoffDone \/ StopExit
Reconcile == ReconIdle \/ ReconSubscribe \/ ReconUpdate \/ ReconDelete
             \/ ReconSent
HandleRaw == HandleSubscribed \/ HandleError \/ HandleSnapshot \/ HandleDelta
             \/ HandleGap
Feed      == ServeCommand \/ \E t \in Tickers : SendSnapshot(t)
Faults    == ConnectionLost \/ LoseFrame \/ RejectCommand

Next ==
    \/ Loop \/ Reconcile \/ HandleRaw \/ ResyncSent \/ Finished
    \/ Feed \/ Faults
    \/ Stop \/ Rollover
    \/ \E t \in Tickers : MarketMoves(t)

Spec == Init /\ [][Next]_vars

(***************************************************************************)
(* Fairness: the event loop runs every task that is ready, a handshake     *)
(* ends (WS_OPEN_TIMEOUT) and succeeds once the faults are used up, the    *)
(* server answers commands and sends the snapshots it owes.  Nothing       *)
(* obliges the market to move, discovery to change its mind, a fault to    *)
(* happen or stop() to be called.                                          *)
(***************************************************************************)
Fairness ==
    /\ WF_vars(Loop)
    /\ WF_vars(ReconSubscribe \/ ReconUpdate \/ ReconDelete \/ ReconSent)
    /\ WF_vars(HandleRaw)
    /\ WF_vars(ResyncSent)
    /\ WF_vars(ServeCommand)
    /\ \A t \in Tickers : WF_vars(SendSnapshot(t))

FairSpec == Spec /\ Fairness

-----------------------------------------------------------------------------
\* A dictionary from tickers to sets of changes.
IsBooks(f) == f \in [DOMAIN f -> SUBSET Nat] /\ DOMAIN f \subseteq Tickers

TypeOK ==
    /\ stop \in BOOLEAN
    /\ pc \in {"top", "connect", "subscribe", "running", "backoff", "done"}
    /\ backoff \in INITIAL_BACKOFF .. MAX_BACKOFF
    /\ sid \in {None, 1}
    /\ lastSeq \in Nat \cup {None}
    /\ subscribed \subseteq Tickers
    /\ IsBooks(books)
    /\ snapshotted \subseteq Tickers
    /\ snapshotted \subseteq DOMAIN books
    /\ recv \in {"next", "resync"}
    /\ recon \in {"sleep", "subscribe", "add", "delete"}
    /\ want \subseteq Tickers
    /\ active \subseteq Tickers
    /\ ver \in [Tickers -> Nat]
    /\ srvSubs \subseteq Tickers
    /\ srvSeq \in Nat
    /\ owed \subseteq Tickers
    /\ cmds \in Seq(Command)
    /\ chan \in Seq(Frame)
    /\ headSeq \in Nat
    /\ headVer \in [Tickers -> Nat]
    /\ connVer \in [Tickers -> Nat]
    /\ missed \subseteq Tickers
    /\ lost \in Nat /\ faults \in Nat /\ rejects \in Nat /\ rolls \in Nat

-----------------------------------------------------------------------------
(***************************************************************************)
(* Safety                                                                  *)
(***************************************************************************)

\* Market t's frames on their way to the collector.
InFlight(t) == {i \in 1 .. Len(chan) :
                  chan[i].type \in MarketTypes /\ chan[i].ticker = t}

\* The book the collector emits for a market is the exchange's book as of the
\* last frame of that market, unless a frame of that same market was lost or
\* dropped since its last snapshot.  Losses in other markets, rejected
\* commands, rollovers, reconnects and the resync do not disturb it (parse,
\* _handle_raw, _on_connect_reset).
MirrorExact ==
    \A t \in snapshotted \ missed : books[t] = Book(headVer[t])

\* Once nothing of a streamed market is owed or in flight, such a book is the
\* exchange's current one.
MirrorCaughtUp ==
    pc = "running" =>
        \A t \in ((snapshotted \ missed) \cap srvSubs) \ owed :
            InFlight(t) = {} => books[t] = Book(ver[t])

\* No book from before a disconnection survives it: whatever is lost, what
\* the collector holds for a market has every change made before the connection
\* (_on_connect_reset, and the drop of deltas before the snapshot in parse).
BooksOfThisConnection ==
    pc \in {"subscribe", "running"} =>
        \A t \in DOMAIN books : Book(connVer[t]) \subseteq books[t]

\* What the server will stream once it has carried out the commands under way: a
\* market that one of them adds, or that it streams already, and none after that
\* removes.
Adds(c, t) == c.action \in {"subscribe", "add_markets"} /\ t \in c.tickers
Removes(c, t) ==
    \/ c.action = "delete_markets" /\ t \in c.tickers
    \/ c.action = "subscribe" /\ t \notin c.tickers
Pending ==
    {t \in Tickers :
        \/ /\ t \in srvSubs
           /\ \A i \in 1 .. Len(cmds) : ~Removes(cmds[i], t)
        \/ \E i \in 1 .. Len(cmds) :
              /\ Adds(cmds[i], t)
              /\ \A j \in i + 1 .. Len(cmds) : ~Removes(cmds[j], t)}

\* As long as no command was rejected, what _reconcile_loop believes to be
\* subscribed between two rounds (self._subscribed) is what the server streams
\* once it has caught up with the commands sent.
SubscriptionAgreement ==
    (pc = "running" /\ recon = "sleep" /\ rejects = 0) => Pending = subscribed

(***************************************************************************)
(* The inductive invariant behind MirrorExact, MirrorCaughtUp,             *)
(* BooksOfThisConnection and RefinesLaggingMirror                          *)
(***************************************************************************)
Live == pc \in {"subscribe", "running"}

\* Without a connection there is no stream.
NoStream == ~Live => chan = <<>> /\ cmds = <<>> /\ srvSubs = {} /\ owed = {}

\* The frames of t carry books in the order the exchange had them, between the
\* last frame taken and the exchange's current book.
Ordered(t) ==
    /\ headVer[t] <= ver[t]
    /\ \A i \in InFlight(t) : headVer[t] <= chan[i].ver /\ chan[i].ver <= ver[t]
    /\ \A i, j \in InFlight(t) : i < j => chan[i].ver <= chan[j].ver

\* A delta is one change ahead of the frame of t before it, and the last frame
\* of a market that is owed no snapshot is the exchange's current book.
Linked(t) ==
    /\ \A j \in InFlight(t) :
          (chan[j].type = "orderbook_delta" /\ \A k \in InFlight(t) : k >= j)
            => chan[j].ver = headVer[t] + 1
    /\ \A i, j \in InFlight(t) :
          /\ i < j
          /\ chan[j].type = "orderbook_delta"
          /\ \A k \in InFlight(t) : k <= i \/ k >= j
          => chan[j].ver = chan[i].ver + 1
    /\ t \in srvSubs \ owed =>
          /\ InFlight(t) = {} => headVer[t] = ver[t]
          /\ \A i \in InFlight(t) :
                (\A k \in InFlight(t) : k <= i) => chan[i].ver = ver[t]

\* Every frame under way was sent on this connection.
SentSinceConnect(t) ==
    Live => /\ connVer[t] <= ver[t]
            /\ \A i \in InFlight(t) : connVer[t] <= chan[i].ver

\* A book exists from its first snapshot on, has no change later than the last
\* frame taken and all those from before the connection, and is exact unless a
\* frame is missed.
Mirrored(t) ==
    /\ t \in snapshotted <=> t \in DOMAIN books
    /\ t \in snapshotted => books[t] \subseteq Book(headVer[t])
    /\ t \in snapshotted \ missed => books[t] = Book(headVer[t])
    /\ (Live /\ t \in snapshotted) => Book(connVer[t]) \subseteq books[t]

StreamInv ==
    /\ NoStream
    /\ \A t \in Tickers : Ordered(t) /\ Linked(t) /\ SentSinceConnect(t)
                          /\ Mirrored(t)

\* A snapshot of market t is on its way: asked for, owed or in flight.
AskedFor(t) ==
    \E i \in 1 .. Len(cmds) :
        cmds[i].action = "get_snapshot" /\ t \in cmds[i].tickers
SnapshotComing(t) ==
    \/ AskedFor(t)
    \/ t \in owed
    \/ \E i \in InFlight(t) : chan[i].type = "orderbook_snapshot"

\* The next delta will be seen as out of sequence.
GapAhead == lastSeq # None /\ headSeq # lastSeq

NoticeComing(t) == SnapshotComing(t) \/ GapAhead

Damaged == missed \cap snapshotted \cap srvSubs

\* A loss does not go unnoticed as long as its market is the only one this
\* connection has a book for, and is subscribed at connect: a snapshot is on its
\* way, or the next delta shows the gap (the sequence check of _handle_raw and
\* the watermark a snapshot leaves behind).
LossIsNoticed ==
    (pc = "running" /\ rolls = 0 /\ rejects = 0) =>
        \A t \in Damaged \cap InitActive : snapshotted = {t} => NoticeComing(t)

\* The same for any number of markets, whenever they are subscribed.
EveryLossIsNoticed == pc = "running" => \A t \in Damaged : NoticeComing(t)

(***************************************************************************)
(* What a step may never do                                                *)
(***************************************************************************)

\* A book known to have missed a change is not updated until its snapshot (or
\* a new connection) rebuilds it.
NoUpdateWhileStale ==
    [][\A t \in missed \cap DOMAIN books :
         t \in missed' => books'[t] = books[t]]_vars

(***************************************************************************)
(* Refinement                                                              *)
(***************************************************************************)
Lagging == INSTANCE LaggingMirror WITH shown <- books, missing <- missed

\* The book collector implements LaggingMirror: a book that missed nothing is one
\* the exchange has or had; one that did is made whole by its next snapshot and by
\* nothing else; and no frame order, loss, resync, rollover or reconnect makes
\* a book take a change twice or out of order, or lose one it had on the same
\* connection (parse, _handle_raw, _on_connect_reset).
RefinesLaggingMirror == Lagging!Spec

(***************************************************************************)
(* Liveness, under FairSpec                                                *)
(***************************************************************************)

\* The feed ends up streaming exactly the markets discovery has resolved,
\* unless the collector is stopped (_subscribe, _reconcile_loop, reconnect).
Converges == <>[](pc = "done" \/ (pc = "running" /\ srvSubs = active))

\* If no frame is lost, every active market ends up mirrored exactly.
ActiveMarketsMirrored ==
    <>[](\/ pc = "done" \/ lost > 0
         \/ pc = "running" /\ \A t \in active : t \in DOMAIN books /\ books[t] = Book(ver[t]))

\* A resync does its work: a market with a missed frame that _resync asks for
\* is rebuilt, or no longer streamed, or dropped with its connection.
GapRepaired ==
    \A t \in Tickers :
        (t \in missed /\ AskedFor(t)) ~> (t \notin missed \/ t \notin srvSubs)

\* stop() ends run(), wherever the loops are suspended.
StopTerminates == stop ~> (pc = "done")

=============================================================================
