----------------------------- MODULE Settlement -----------------------------
(***************************************************************************)
(* KalshiSettlementPoller (settlement.py): a REST poller that looks at the *)
(* markets each series lists as settled and writes one label row per       *)
(* market, together with discovery's open markers, which go to the same    *)
(* data type, and the sink both write to, taken by its contract            *)
(* (DurableLog).  A crash ends the process; the next one primes the seen   *)
(* sets from what is stored.                                               *)
(*                                                                         *)
(* The windows of a series are numbered from 1; a market is a series and a *)
(* window, and the market of the running window is the one after the last  *)
(* settled one.  The exchange is external: it lists a market as settled    *)
(* when its window is over, newest first, and as open until its result is  *)
(* determined, at once or later.  The poller is cut at its awaits: one     *)
(* request per series, and the sleep between two rounds.                   *)
(***************************************************************************)
EXTENDS Integers, FiniteSets, Sequences, SequencesExt

CONSTANTS
    Series,          \* the assets, in the order of self._series
    Lookback,        \* self._lookback
    INITIAL_BACKOFF, MAX_BACKOFF,
    Undated,         \* the markets that are listed without an open_time
    MaxWindows,      \* bound: windows per series, and of each of them
    LastWindow,
    Earlier,         \* asset -> number of windows over at the start
    MaxFaults,       \* bound: failed requests, malformed answers, lack of a key
    MaxSinkFaults,   \* bound: writes on which the sink raises
    MaxRestarts      \* bound: crashes, each followed by a new process

Assets  == ToSet(Series)
Windows == 1 .. MaxWindows
Markets == Assets \X Windows

ASSUME SeriesAssumption == Series \in Seq(Assets) /\ Series # <<>> /\ Undated \subseteq Markets
ASSUME LookbackAssumption == Lookback \in Nat \ {0}
ASSUME BackoffAssumption ==
    INITIAL_BACKOFF \in Nat \ {0} /\ MAX_BACKOFF \in Nat /\ INITIAL_BACKOFF <= MAX_BACKOFF
ASSUME BoundAssumption ==
    /\ {MaxWindows, MaxFaults, MaxSinkFaults, MaxRestarts} \subseteq Nat
    /\ LastWindow \in [Assets -> 0 .. MaxWindows]
    /\ Earlier \in [Assets -> 0 .. MaxWindows]

VARIABLES
    settled,       \* exchange: asset -> number of windows that are over
    decidedIn,     \* exchange: market -> window in which its result came, or 0
    log, durable,  \* the sink: rows per asset, and how many survive a crash
    seen,          \* self._settled_seen
    seenOpen,      \* discovery's self._seen_open
    refused,       \* the labels the sink refused in this process
    stop, pc, backoff,
    key,           \* whether the private key has been loaded
    todo,          \* poll_once: the series still to be asked for
    faults, sinkFaults, restarts

exchangeVars == <<settled, decidedIn>>
sinkVars     == <<log, durable>>
pollVars     == <<stop, pc, backoff, key, todo>>
vars == <<settled, decidedIn, log, durable, seen, seenOpen, refused, stop, pc,
          backoff, key, todo, faults, sinkFaults, restarts>>

\* A kalshi_settle row: the market it is about and its window_start.
Row == [kind : {"marker", "label"}, of : Windows, window : Windows \cup {MaxWindows + 1}]

Sink == INSTANCE DurableLog WITH Keys <- Assets, Rows <- Row

Init ==
    /\ settled = Earlier
    /\ decidedIn = [m \in Markets |-> 0]
    /\ Sink!Init
    /\ seen = {} /\ seenOpen = {} /\ refused = {}
    /\ stop = FALSE /\ pc = "top" /\ backoff = INITIAL_BACKOFF
    /\ key = FALSE /\ todo = <<>>
    /\ faults = 0 /\ sinkFaults = 0 /\ restarts = 0

-----------------------------------------------------------------------------
(***************************************************************************)
(* _poll_loop and poll_once                                                *)
(***************************************************************************)

\* The head of the loop, _ensure_creds and the first request.
StartRound ==
    /\ pc = "top"
    /\ IF stop THEN pc' = "done" /\ UNCHANGED <<key, todo>>
               ELSE pc' = "fetch" /\ key' = TRUE /\ todo' = Series
    /\ UNCHANGED <<exchangeVars, sinkVars, seen, seenOpen, refused, stop, backoff,
                   faults, sinkFaults, restarts>>

\* Variant for the checks: the backoff is not capped.
RoundFailsUncapped ==
    /\ faults < MaxFaults
    /\ faults' = faults + 1
    /\ pc' = "sleep"
    /\ todo' = <<>>
    /\ backoff' = backoff * 2

\* The round is over because something raised: sleep for the backoff.
RoundFails ==
    /\ faults < MaxFaults
    /\ faults' = faults + 1
    /\ pc' = "sleep"
    /\ todo' = <<>>
    /\ backoff' = IF backoff * 2 < MAX_BACKOFF THEN backoff * 2 ELSE MAX_BACKOFF

CredsFail ==
    /\ pc = "top" /\ ~stop /\ ~key
    /\ RoundFails
    /\ UNCHANGED <<exchangeVars, sinkVars, seen, seenOpen, refused, stop, key,
                   sinkFaults, restarts>>

\* On to the next series; after the last one the loop goes to sleep.
NextSeries ==
    /\ todo' = Tail(todo)
    /\ IF Len(todo) > 1 THEN UNCHANGED <<pc, backoff>>
                        ELSE pc' = "sleep" /\ backoff' = INITIAL_BACKOFF

\* The most recent settled markets, newest first, as limited by the request.
Listed(a) ==
    [i \in 1 .. IF settled[a] < Lookback THEN settled[a] ELSE Lookback |->
        settled[a] + 1 - i]

\* Variant: the window is always taken from the time of determination.
ParseSettledByResult(a, w) ==
    [kind |-> "label", of |-> w, window |-> decidedIn[<<a, w>>]]

\* parse_settled_market: the window is the market's open_time, or else the
\* window of the time at which the result was determined.
ParseSettled(a, w) ==
    [kind |-> "label", of |-> w,
     window |-> IF <<a, w>> \in Undated THEN decidedIn[<<a, w>>] ELSE w]

\* The windows of W as the loop over the answer meets them: each once, in
\* descending order (there is exactly one such sequence).
NewestFirst(W) ==
    {s \in [1 .. Cardinality(W) -> W] :
        ToSet(s) = W /\ \A i, j \in DOMAIN s : i < j => s[i] > s[j]}

\* Variant: whatever is listed is marked as seen.
HandleSeenEarly(a, n) ==
    LET listed == {Listed(a)[i] : i \in 1 .. n}
        fresh  == {w \in listed : decidedIn[<<a, w>>] # 0 /\ <<a, w>> \notin seen}
    IN  /\ seen' = seen \cup {<<a, w>> : w \in listed}
        /\ \E lost \in SUBSET fresh :
              /\ sinkFaults' = sinkFaults + Cardinality(lost)
              /\ sinkFaults' <= MaxSinkFaults
              /\ refused' = refused \cup {<<a, w>> : w \in lost}
              /\ \E kept \in NewestFirst(fresh \ lost) :
                    log' = [log EXCEPT ![a] =
                              @ \o [i \in DOMAIN kept |-> ParseSettled(a, kept[i])]]

\* The first n markets of the answer: one without a result is skipped, the
\* others are marked as seen and then emitted; _emit swallows what the sink
\* raises.
Handle(a, n) ==
    LET fresh == {w \in {Listed(a)[i] : i \in 1 .. n} :
                    decidedIn[<<a, w>>] # 0 /\ <<a, w>> \notin seen}
    IN  /\ seen' = seen \cup {<<a, w>> : w \in fresh}
        /\ \E lost \in SUBSET fresh :
              /\ sinkFaults' = sinkFaults + Cardinality(lost)
              /\ sinkFaults' <= MaxSinkFaults
              /\ refused' = refused \cup {<<a, w>> : w \in lost}
              /\ \E kept \in NewestFirst(fresh \ lost) :
                    log' = [log EXCEPT ![a] =
                              @ \o [i \in DOMAIN kept |-> ParseSettled(a, kept[i])]]

FetchOK ==
    /\ pc = "fetch"
    /\ NextSeries
    /\ Handle(Head(todo), Len(Listed(Head(todo))))
    /\ UNCHANGED <<exchangeVars, durable, seenOpen, stop, key, faults, restarts>>

\* A request that fails: the series has to wait for the next round.
FetchFails ==
    /\ pc = "fetch"
    /\ faults < MaxFaults
    /\ faults' = faults + 1
    /\ NextSeries
    /\ UNCHANGED <<exchangeVars, sinkVars, seen, seenOpen, refused, stop, key,
                   sinkFaults, restarts>>

\* An answer that raises at one of its entries: what came before it is written.
AnswerInvalid ==
    /\ pc = "fetch"
    /\ \E n \in 0 .. Len(Listed(Head(todo))) : Handle(Head(todo), n)
    /\ RoundFails
    /\ UNCHANGED <<exchangeVars, durable, seenOpen, stop, key, restarts>>

\* _sleep_or_stop
SleepEnds ==
    /\ pc = "sleep"
    /\ pc' = IF stop THEN "done" ELSE "top"
    /\ UNCHANGED <<exchangeVars, sinkVars, seen, seenOpen, refused, stop, backoff,
                   key, todo, faults, sinkFaults, restarts>>

Stop ==
    /\ ~stop
    /\ stop' = TRUE
    /\ UNCHANGED <<exchangeVars, sinkVars, seen, seenOpen, refused, pc, backoff, key,
                   todo, faults, sinkFaults, restarts>>

-----------------------------------------------------------------------------
(***************************************************************************)
(* Discovery, the sink, the exchange and the process                       *)
(***************************************************************************)

\* parse_open_market: the window is the market's open_time, or else the window
\* the market is looked at in.
ParseOpenMarket(a, w) ==
    [kind |-> "marker", of |-> w,
     window |-> IF <<a, w>> \in Undated THEN settled[a] + 1 ELSE w]

\* The markets a series may list: the running window's or, for a while after a
\* boundary, still the one before.
Recent(a) == {settled[a], settled[a] + 1} \cap (1 .. LastWindow[a])

\* Variant: markets are not asked for by their status.
OpenMarkerAnyStatus(a) ==
    /\ \E w \in Recent(a) :
          /\ <<a, w>> \notin seenOpen
          /\ seenOpen' = seenOpen \cup {<<a, w>>}
          /\ log' = [log EXCEPT ![a] = Append(@, ParseOpenMarket(a, w))]
    /\ UNCHANGED <<exchangeVars, durable, seen, refused, pollVars, faults, sinkFaults,
                   restarts>>

\* Discovery, which asks for open markets, sees one with its reference price: it
\* is marked as seen, then its marker is emitted; _emit swallows what the sink
\* raises.  Module Discovery has the polls.
OpenMarker(a) ==
    /\ \E w \in Recent(a) :
          /\ decidedIn[<<a, w>>] = 0 /\ <<a, w>> \notin seenOpen
          /\ seenOpen' = seenOpen \cup {<<a, w>>}
          /\ \/ /\ log' = [log EXCEPT ![a] = Append(@, ParseOpenMarket(a, w))]
                /\ UNCHANGED sinkFaults
             \/ /\ sinkFaults < MaxSinkFaults
                /\ sinkFaults' = sinkFaults + 1
                /\ UNCHANGED log
    /\ UNCHANGED <<exchangeVars, durable, seen, refused, pollVars, faults, restarts>>

\* Flushes, by the idle-flush tasks, by a full buffer or at the end.
Flush(a) ==
    /\ Sink!Persist(a)
    /\ UNCHANGED <<exchangeVars, seen, seenOpen, refused, pollVars, faults, sinkFaults,
                   restarts>>

\* A window ends: its market is settled, the next window runs.
Settle(a) ==
    /\ settled[a] < LastWindow[a]
    /\ settled' = [settled EXCEPT ![a] = @ + 1]
    /\ UNCHANGED <<decidedIn, sinkVars, seen, seenOpen, refused, pollVars, faults,
                   sinkFaults, restarts>>

Determine(a, w) ==
    /\ w <= settled[a] /\ decidedIn[<<a, w>>] = 0
    /\ decidedIn' = [decidedIn EXCEPT ![<<a, w>>] = settled[a] + 1]
    /\ UNCHANGED <<settled, sinkVars, seen, seenOpen, refused, pollVars, faults,
                   sinkFaults, restarts>>

\* One of the first n rows of the asset is a record of the kind on window w.
Has(kind, a, w, n) == \E i \in 1 .. n : log[a][i].kind = kind /\ log[a][i].of = w

\* Variant: primed from all the tickers that are stored, whatever the row.
PrimedWithMarkers(kind) ==
    {m \in Markets : \E any \in {"marker", "label"} :
        Has(any, m[1], m[2], durable[m[1]])}

\* Variant: nothing is primed.
PrimedNot(kind) == {}

\* The tickers a new process is primed with: those stored with a row of its kind.
Primed(kind) ==
    {m \in Markets : Has(kind, m[1], m[2], durable[m[1]])}

Restart ==
    /\ restarts < MaxRestarts
    /\ restarts' = restarts + 1
    /\ Sink!Crash
    /\ seen' = Primed("label") /\ seenOpen' = Primed("marker") /\ refused' = {}
    /\ stop' = FALSE /\ pc' = "top" /\ backoff' = INITIAL_BACKOFF
    /\ key' = FALSE /\ todo' = <<>>
    /\ UNCHANGED <<exchangeVars, faults, sinkFaults>>

Finished == pc = "done" /\ UNCHANGED vars

Poll == StartRound \/ FetchOK \/ SleepEnds
PollFaults == CredsFail \/ FetchFails \/ AnswerInvalid
Exchange == \E a \in Assets : Settle(a) \/ \E w \in Windows : Determine(a, w)

Next == \/ Poll \/ PollFaults \/ Stop \/ Restart \/ Exchange \/ Finished
        \/ \E a \in Assets : OpenMarker(a) \/ Flush(a)

Spec == Init /\ [][Next]_vars

\* A request ends by REST_TIMEOUT, a sleep by its interval; the sink is flushed
\* again and again and does not fail for ever.
FairSpec == Spec /\ WF_vars(Poll) /\ WF_vars(\E a \in Assets : Flush(a))

-----------------------------------------------------------------------------
TypeOK ==
    /\ settled \in [Assets -> 0 .. MaxWindows]
    /\ decidedIn \in [Markets -> 0 .. MaxWindows + 1]
    /\ log \in [Assets -> Seq(Row)]
    /\ durable \in [Assets -> Nat]
    /\ \A a \in Assets : durable[a] <= Len(log[a])
    /\ seen \subseteq Markets /\ seenOpen \subseteq Markets /\ refused \subseteq Markets
    /\ stop \in BOOLEAN /\ key \in BOOLEAN
    /\ pc \in {"top", "fetch", "sleep", "done"}
    /\ backoff \in INITIAL_BACKOFF .. MAX_BACKOFF
    /\ todo \in Seq(Assets) /\ (pc = "fetch" <=> todo # <<>>)
    /\ faults \in Nat /\ sinkFaults \in Nat /\ restarts \in Nat

\* A window has at most one marker and at most one label, over all the rows that
\* were not lost, however many rounds, failures and restarts it takes: what is
\* stored primes the next process, what is not stored is lost with the process.
OneRecordPerWindow ==
    \A a \in Assets : \A i, j \in 1 .. Len(log[a]) :
        (log[a][i].kind = log[a][j].kind /\ log[a][i].of = log[a][j].of) => i = j

\* The poller skips a market exactly if its label is in the sink or the sink
\* refused it: no failed round, malformed answer or restart makes it skip another.
SeenIsLabelled ==
    seen = refused \cup {m \in Markets : Has("label", m[1], m[2], Len(log[m[1]]))}

\* The record of a market opens with its marker and closes with its label, though
\* two pollers write them and a crash may take back either and have it written
\* again: no marker comes after the label or carries a later window_start, and a
\* market with an open_time has the same window_start in both.
RecordsOrdered ==
    \A a \in Assets : \A i, j \in 1 .. Len(log[a]) :
        LET marker == log[a][i]
            label  == log[a][j]
        IN  (marker.kind = "marker" /\ label.kind = "label" /\ marker.of = label.of) =>
              /\ i < j
              /\ marker.window <= label.window
              /\ <<a, label.of>> \notin Undated => marker.window = label.window

\* A market owes its label from the determination of its result until the label
\* is on the disk, unless lookback windows pass first or the sink refuses the row.
Owes(a, w) ==
    /\ decidedIn[<<a, w>>] # 0
    /\ settled[a] - w < Lookback
    /\ <<a, w>> \notin refused
    /\ ~Has("label", a, w, durable[a])

\* No label is owed for ever, across failed requests, rounds and crashes, unless
\* the collector is stopped.
EveryLabelStored ==
    \A a \in Assets : \A w \in 1 .. LastWindow[a] : []<>(stop \/ ~Owes(a, w))

=============================================================================
