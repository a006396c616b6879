----------------------------- MODULE Discovery -----------------------------
(***************************************************************************)
(* KalshiMarketDiscovery (discovery.py): a REST poller that resolves the   *)
(* open market of each series, publishes the map the WebSocket collectors  *)
(* read, and writes an open marker for each window.                        *)
(*                                                                         *)
(* Time is discrete.  A window is Window ticks long and the windows are    *)
(* numbered from 0; a market is the pair of its asset and its window.  The *)
(* poller is cut at its awaits: one request per series, and the sleep      *)
(* between two rounds.  Time passes only there.                            *)
(*                                                                         *)
(* The exchange is external: after a boundary a series may for a while     *)
(* still list the old market, or none, then lists the new one; the         *)
(* reference price of a market is set some time after it is listed.        *)
(***************************************************************************)
EXTENDS Integers, Sequences, SequencesExt

CONSTANTS
    Series,          \* the assets, in the order of self._series
    None,            \* Python's None
    Window,          \* WINDOW_SECONDS
    FastInterval,    \* FAST_INTERVAL
    FastWindow,      \* FAST_WINDOW_SEC
    Lead,            \* POST_BOUNDARY_LEAD
    RestTimeout,     \* REST_TIMEOUT
    INITIAL_BACKOFF, MAX_BACKOFF,
    ListedBy,        \* ticks into a window by which its markets are listed
    StrikeBy,        \* ticks into a window by which reference prices are set
    StartTimes,      \* when the poller may be started
    MaybeUndated,    \* the assets whose markets may come without open_time
    MaxTime,         \* bound: time
    MaxFaults,       \* bound: failed requests, malformed answers, lack of a key
    MaxSinkFaults,   \* bound: writes on which the sink raises
    MaxRestarts      \* bound: restarts of the process

Assets  == ToSet(Series)
Windows == 0 .. MaxTime \div Window

\* A market and what parse_open_market makes of it: its window, the window_start
\* it is given, and whether it has its reference price.
Info == [window : Windows, start : Windows, ref : BOOLEAN]

ASSUME TimeAssumption ==
    /\ {Window, FastInterval, RestTimeout, INITIAL_BACKOFF} \subseteq Nat \ {0}
    /\ {FastWindow, Lead, MAX_BACKOFF, ListedBy, StrikeBy, MaxTime} \subseteq Nat
    /\ FastWindow < Window /\ Lead < Window
    /\ StartTimes \subseteq 0 .. MaxTime
ASSUME SeriesAssumption ==
    /\ Series \in Seq(Assets) /\ Series # <<>>
    /\ None \notin Windows /\ None \notin Info
    /\ MaybeUndated \subseteq Assets
ASSUME BoundAssumption == {MaxFaults, MaxSinkFaults, MaxRestarts} \subseteq Nat

VARIABLES
    now,                 \* the clock
    listed,              \* exchange: asset -> window of the open market, or None
    strike,              \* exchange: asset -> whether its reference price is set
    undated,             \* exchange: the assets whose markets have no open_time
    stop, pc, backoff,
    key,                 \* whether the private key has been loaded
    timer,               \* when the request or the sleep under way ends
    todo,                \* refresh_once: the series still to be fetched
    newActive,           \* refresh_once: the map under construction
    active,              \* self._active: asset -> MarketInfo, or None
    seenOpen,            \* self._seen_open
    markers,             \* open markers in the sink: <<asset, window>> -> number
    faults, sinkFaults, restarts

exchangeVars == <<listed, strike, undated>>
budgetVars   == <<faults, sinkFaults, restarts>>
vars == <<now, listed, strike, undated, stop, pc, backoff, key, timer, todo,
          newActive, active, seenOpen, markers, faults, sinkFaults, restarts>>

CurrentWindow(t) == t \div Window      \* floor_15m
Offset(t)        == t % Window
NoMarkets        == [a \in Assets |-> None]

-----------------------------------------------------------------------------
(***************************************************************************)
(* The cadence                                                             *)
(***************************************************************************)
SecondsToNextBoundary(t) == Window - Offset(t)

\* Variant for the checks: a market without its reference price will do.
AllCurrentCapturedAnyRef(map, t) ==
    \A a \in Assets : map[a] # None /\ map[a].start = CurrentWindow(t)

\* Variant: the market of an earlier window will do.
AllCurrentCapturedAnyWindow(map, t) ==
    \A a \in Assets : map[a] # None /\ map[a].ref

AllCurrentCaptured(map, t) ==
    \A a \in Assets :
        /\ map[a] # None
        /\ map[a].start = CurrentWindow(t)
        /\ map[a].ref

NextPollDelay(map, t) ==
    IF Offset(t) < FastWindow /\ ~AllCurrentCaptured(map, t)
      THEN FastInterval
      ELSE SecondsToNextBoundary(t) + Lead

-----------------------------------------------------------------------------
Init ==
    /\ now \in StartTimes
    /\ strike = [a \in Assets |-> Offset(now) >= StrikeBy]
    /\ listed = [a \in Assets |-> IF strike[a] THEN CurrentWindow(now) ELSE None]
    /\ undated \in SUBSET MaybeUndated
    /\ stop = FALSE
    /\ pc = "top"
    /\ backoff = INITIAL_BACKOFF
    /\ key = FALSE
    /\ timer = 0
    /\ todo = <<>>
    /\ newActive = NoMarkets
    /\ active = NoMarkets
    /\ seenOpen = {}
    /\ markers = [m \in Assets \X Windows |-> 0]
    /\ faults = 0 /\ sinkFaults = 0 /\ restarts = 0

(***************************************************************************)
(* _discovery_loop and refresh_once                                        *)
(***************************************************************************)

\* The head of the loop, _ensure_creds and the first request.
StartRefresh ==
    /\ pc = "top"
    /\ IF stop
         THEN /\ pc' = "done"
              /\ UNCHANGED <<key, timer, todo, newActive>>
         ELSE /\ pc' = "fetch"
              /\ key' = TRUE
              /\ timer' = now + RestTimeout
              /\ todo' = Series
              /\ newActive' = NoMarkets
    /\ UNCHANGED <<now, exchangeVars, stop, backoff, active, seenOpen, markers,
                   budgetVars>>

\* Variant: the loop goes on with the series it was at.
RoundFailsKeepsTodo ==
    /\ faults < MaxFaults
    /\ faults' = faults + 1
    /\ pc' = "sleep"
    /\ timer' = now + backoff
    /\ backoff' = IF backoff * 2 < MAX_BACKOFF THEN backoff * 2 ELSE MAX_BACKOFF
    /\ UNCHANGED <<now, exchangeVars, stop, key, todo, newActive, active, seenOpen,
                   markers, sinkFaults, restarts>>

\* The round is over because something raised: sleep for the backoff.  The map
\* under construction is dropped; markers already written stay written.
RoundFails ==
    /\ faults < MaxFaults
    /\ faults' = faults + 1
    /\ pc' = "sleep"
    /\ timer' = now + backoff
    /\ backoff' = IF backoff * 2 < MAX_BACKOFF THEN backoff * 2 ELSE MAX_BACKOFF
    /\ todo' = <<>>
    /\ newActive' = NoMarkets
    /\ UNCHANGED <<now, exchangeVars, stop, key, active, seenOpen, markers,
                   sinkFaults, restarts>>

\* _ensure_creds cannot load the key, or an answer cannot be interpreted.
CredsFail     == pc = "top" /\ ~stop /\ ~key /\ RoundFails
AnswerInvalid == pc = "fetch" /\ RoundFails

\* On to the next series; after the last one the map is installed and the loop
\* goes to sleep.
NextSeries(map) ==
    IF Len(todo) > 1
      THEN /\ todo' = Tail(todo)
           /\ newActive' = map
           /\ timer' = now + RestTimeout
           /\ UNCHANGED <<pc, backoff, active>>
      ELSE /\ todo' = <<>>
           /\ newActive' = NoMarkets
           /\ active' = map
           /\ backoff' = INITIAL_BACKOFF
           /\ pc' = "sleep"
           /\ timer' = now + NextPollDelay(map, now)

\* parse_open_market: window_start is the market's open_time, or else the window
\* it is looked at in.
ParseOpenMarket(a) ==
    [window |-> listed[a], ref |-> strike[a],
     start  |-> IF a \in undated THEN CurrentWindow(now) ELSE listed[a]]

\* Variant: the ticker is not marked as seen.
WriteOpenMarkerUnseen(a, w) ==
    /\ markers' = [markers EXCEPT ![<<a, w>>] = @ + 1]
    /\ UNCHANGED <<seenOpen, sinkFaults>>

\* _write_open_marker: the ticker is marked as seen, then the row is emitted;
\* _emit swallows what the sink raises.
WriteOpenMarker(a, w) ==
    /\ seenOpen' = seenOpen \cup {<<a, w>>}
    /\ \/ /\ markers' = [markers EXCEPT ![<<a, w>>] = @ + 1]
          /\ UNCHANGED sinkFaults
       \/ /\ sinkFaults < MaxSinkFaults
          /\ sinkFaults' = sinkFaults + 1
          /\ UNCHANGED markers

\* Variant: a market is marked as seen before its reference price is set.
FetchOKSeenEarly ==
    /\ pc = "fetch"
    /\ LET a == Head(todo)
           w == listed[a]
       IN  /\ NextSeries(IF w = None THEN newActive
                         ELSE [newActive EXCEPT ![a] = ParseOpenMarket(a)])
           /\ CASE w # None /\ strike[a] /\ <<a, w>> \notin seenOpen ->
                      WriteOpenMarker(a, w)
                [] w # None /\ ~strike[a] ->
                      /\ seenOpen' = seenOpen \cup {<<a, w>>}
                      /\ UNCHANGED <<markers, sinkFaults>>
                [] OTHER -> UNCHANGED <<seenOpen, markers, sinkFaults>>
    /\ UNCHANGED <<now, exchangeVars, stop, key, faults, restarts>>

\* The request for Head(todo) is answered.
FetchOK ==
    /\ pc = "fetch"
    /\ LET a == Head(todo)
           w == listed[a]
       IN  /\ NextSeries(IF w = None THEN newActive
                         ELSE [newActive EXCEPT ![a] = ParseOpenMarket(a)])
           /\ IF w # None /\ strike[a] /\ <<a, w>> \notin seenOpen
                THEN WriteOpenMarker(a, w)
                ELSE UNCHANGED <<seenOpen, markers, sinkFaults>>
    /\ UNCHANGED <<now, exchangeVars, stop, key, faults, restarts>>

\* It fails: the last known market is retained.
FetchFails ==
    /\ pc = "fetch"
    /\ faults < MaxFaults
    /\ faults' = faults + 1
    /\ NextSeries([newActive EXCEPT ![Head(todo)] = active[Head(todo)]])
    /\ UNCHANGED <<now, exchangeVars, stop, key, seenOpen, markers, sinkFaults,
                   restarts>>

\* _sleep_or_stop
SleepEnds ==
    /\ pc = "sleep"
    /\ now >= timer \/ stop
    /\ pc' = IF stop THEN "done" ELSE "top"
    /\ UNCHANGED <<now, exchangeVars, stop, backoff, key, timer, todo,
                   newActive, active, seenOpen, markers, budgetVars>>

Stop ==
    /\ ~stop
    /\ stop' = TRUE
    /\ UNCHANGED <<now, exchangeVars, pc, backoff, key, timer, todo, newActive,
                   active, seenOpen, markers, budgetVars>>

\* A new process, primed with the tickers whose markers are stored.
Restart ==
    /\ restarts < MaxRestarts
    /\ restarts' = restarts + 1
    /\ stop' = FALSE /\ pc' = "top" /\ backoff' = INITIAL_BACKOFF
    /\ key' = FALSE /\ timer' = 0 /\ todo' = <<>>
    /\ newActive' = NoMarkets /\ active' = NoMarkets
    /\ seenOpen' = {m \in DOMAIN markers : markers[m] > 0}
    /\ UNCHANGED <<now, exchangeVars, markers, faults, sinkFaults>>

-----------------------------------------------------------------------------
(***************************************************************************)
(* The exchange and the clock                                              *)
(***************************************************************************)
programVars == <<stop, pc, backoff, key, timer, todo, newActive, active,
                 seenOpen, markers, budgetVars>>

Delist(a) ==
    /\ listed[a] # None /\ listed[a] # CurrentWindow(now)
    /\ listed' = [listed EXCEPT ![a] = None]
    /\ UNCHANGED <<now, strike, undated, programVars>>

List(a) ==
    /\ listed[a] # CurrentWindow(now)
    /\ listed' = [listed EXCEPT ![a] = CurrentWindow(now)]
    /\ strike' = [strike EXCEPT ![a] = FALSE]
    /\ UNCHANGED <<now, undated, programVars>>

SetStrike(a) ==
    /\ listed[a] = CurrentWindow(now) /\ ~strike[a]
    /\ strike' = [strike EXCEPT ![a] = TRUE]
    /\ UNCHANGED <<now, listed, undated, programVars>>

Punctual(a) ==
    /\ Offset(now) >= ListedBy => listed[a] = CurrentWindow(now)
    /\ Offset(now) >= StrikeBy => listed[a] = CurrentWindow(now) /\ strike[a]

\* A request ends by its timeout, a sleep at its timer; between awaits the
\* poller takes no time.
Tick ==
    /\ now < MaxTime
    /\ pc \in {"fetch", "sleep"} => now < timer
    /\ pc # "top"
    /\ \A a \in Assets : Punctual(a)
    /\ now' = now + 1
    /\ UNCHANGED <<exchangeVars, programVars>>

Horizon == now = MaxTime /\ UNCHANGED vars

Refresh == StartRefresh \/ FetchOK \/ FetchFails \/ CredsFail \/ AnswerInvalid
           \/ SleepEnds
Exchange == \E a \in Assets : Delist(a) \/ List(a) \/ SetStrike(a)

Next == Refresh \/ Stop \/ Restart \/ Exchange \/ Tick \/ Horizon

Spec == Init /\ [][Next]_vars

-----------------------------------------------------------------------------
MarketInfo == Info \cup {None}

TypeOK ==
    /\ now \in 0 .. MaxTime
    /\ listed \in [Assets -> Windows \cup {None}]
    /\ strike \in [Assets -> BOOLEAN] /\ undated \subseteq Assets
    /\ stop \in BOOLEAN
    /\ pc \in {"top", "fetch", "sleep", "done"}
    /\ backoff \in Nat /\ timer \in Nat
    /\ key \in BOOLEAN
    /\ todo \in Seq(Assets)
    /\ pc = "fetch" <=> todo # <<>>
    /\ newActive \in [Assets -> MarketInfo]
    /\ active \in [Assets -> MarketInfo]
    /\ seenOpen \subseteq Assets \X Windows
    /\ markers \in [Assets \X Windows -> Nat]
    /\ faults \in Nat /\ sinkFaults \in Nat /\ restarts \in Nat

\* A window's open marker is in the sink at most once, however many polls, failed
\* rounds and restarts it takes (refresh_once with _seen_open).
MarkedOnce == \A m \in DOMAIN markers : markers[m] <= 1

\* A market the poller takes as seen has its marker in the sink, unless the sink
\* refused it: no failed round or restart makes it skip a marker.
SeenIsMarked == sinkFaults = 0 => \A m \in seenOpen : markers[m] = 1

Running == ~stop /\ pc # "done"

\* When the fast polling after a boundary is over, the map of a poller that has
\* been up since the start holds the market of the running window, with its
\* reference price, for every series: it does not sleep through a rollover
\* (_next_poll_delay).  A series without open_time can be taken for captured
\* while it still lists the old market; it is one window behind then, never two,
\* and the other series are current all the same.
FastPhaseOver == FastWindow + FastInterval + Len(Series) * RestTimeout
MapIsCurrent ==
    (Running /\ restarts = 0 /\ Offset(now) >= FastPhaseOver) =>
        \A a \in Assets :
            /\ active[a] # None /\ active[a].ref
            /\ active[a].start = CurrentWindow(now)
            /\ \/ active[a].window = CurrentWindow(now)
               \/ a \in undated /\ active[a].window = CurrentWindow(now) - 1

\* Every window gone by since such a poller was started at a boundary has its
\* marker, if the market has an open_time, unless the sink refused it.
EveryWindowMarked ==
    (Running /\ restarts = 0 /\ sinkFaults = 0) =>
        \A m \in (Assets \ undated) \X (0 .. CurrentWindow(now) - 1) : markers[m] = 1

=============================================================================
