# A specification of kalshi-ws-collector

TLA+ modules, TLC configurations and TLAPS proofs for the collectors of this
repository. Paths like `collectors.py:287` are relative to
`src/kalshi_ws_collector/`.

## The system

Everything runs in one asyncio event loop: tasks interleave at awaits only. A
collector is an object with a `run()` coroutine and a `stop()` that sets an
event; the application starts several and gives them one sink.

| component | state it keeps | operations | what is hard |
|---|---|---|---|
| WebSocket driver, `_KalshiWSCollector` (`collectors.py`) | `_sid`, `_last_seq`, `_subscribed`, the backoff | connect loop, initial subscribe, reconcile loop, receive loop with sequence check, resync | two tasks per connection that suspend in sends; lost frames; failed handshakes and connections dropped at any await; a command answered by an error; stop anywhere |
| Book collector, `KalshiBookCollector` | `_books`, `_snapshotted`, per connection | snapshot and delta handling, the row emitted | a book must be exact or known to be wrong; nothing survives a connection |
| Trade collector, `KalshiTradeCollector` | none | `parse` | - |
| Order book arithmetic (`orderbook.py`, `coerce_price`) | two stacks of price key to size | snapshot, delta, top of book | one price has several spellings |
| Discovery, `KalshiMarketDiscovery` (`discovery.py`) | `_active`, `_seen_open` | `refresh_once`, cadence around the 15-minute boundary, open markers | a market is listed and priced some time after the boundary; failing requests; restarts |
| Settlement poller, `KalshiSettlementPoller` (`settlement.py`) | `_settled_seen` | `poll_once`, `parse_settled_market` | results come late, only the newest `lookback` markets are listed; failing requests; restarts primed from what is stored |
| Parquet sink (`sinks.py`) | `_buffers`; the part files | `write`, `flush`, `close`, `read_parquet` | threads (a lock), I/O failures, crashes between rename and reset |
| JSONL sink, memory sink (`sinks.py`) | open files; a list | `write`, `flush`, `close`, `read_jsonl` | what the file has of a line when the process dies; writes after `close` |
| Lifecycle, `Collector` (`base.py`) | `_stop`, two background tasks | `_run_lifecycle`, idle flush, heartbeat, final flush, `stop`, backoff sleep | stop, exceptions and cancellation at any await; the order of the shutdown |
| Example, `examples/run_collectors.py` | its tasks | starts the collectors on one sink, handles signals, closes the sink | one collector raises while the others write |
| Auth, schemas | - | signing, declarations | - |

How they interact: discovery publishes the map of open markets
(`active_tickers()`); each WebSocket collector reads it at connect and in every
reconcile round and adjusts its subscription; the driver passes frames to the
book collector's `parse`, which updates the books of `orderbook.py` and yields
a row; every collector writes rows to the shared sink through `_emit`, which
swallows the sink's exceptions; every collector's idle-flush task flushes the
whole sink each 5 s.

What makes each part correct:

- driver and books: a mirrored book equals the exchange's unless one of its own
  frames is missing; a missing frame is noticed; nothing of an old connection is
  used on a new one; `_subscribed` is what the server streams; the subscription
  follows discovery; `stop()` ends `run()`.
- arithmetic: a mirror that starts exact stays exact, and its quotes are the
  exchange's, whichever spelling of a price each message uses.
- discovery: one marker per window and no more, across failures and restarts;
  no boundary is slept through.
- settlement: one label per window and no more, across failures and restarts,
  after its marker and, if the market has an `open_time`, under the same window;
  none is skipped.
- lifecycle and example: rows are in the file when a collector says it stopped;
  a stop request ends the process; a crash spoils no more than it must.
- sink: every row accepted is on disk or in memory exactly once and in order,
  only buffered rows are lost in a crash, and buffered rows do reach the disk.

## Modules

| module | what it is |
|---|---|
| `KalshiWS` | the driver, the book collector's state, and the feed they talk to |
| `LaggingMirror` | abstract: what a collector promises about each market's book, and what it does not after a loss |
| `BookMirror` | order book arithmetic and the emitted quotes, one contract |
| `ParquetSink` | the Parquet sink on a file system that can fail, in a process that can die |
| `DurableLog` | abstract: what a sink promises |
| `Discovery` | discovery in discrete time against an exchange that lists and prices markets late |
| `Settlement` | the settlement poller with discovery's markers, the exchange's results and a sink that is a `DurableLog` |
| `JsonlSink` | the JSONL sink and its reader on a buffered file |
| `Runner` | the example's `main` and `_run_lifecycle` of every collector, on a `JsonlSink` |
| `MC*` | values for model checking |
| `KalshiWSProofs`, `SubscriptionProofs` | theorems about the driver: streams and books; subscriptions and losses |
| `BookMirrorProofs`, `ParquetSinkProofs`, `DiscoveryProofs`, `SettlementProofs`, `JsonlSinkProofs`, `RunnerProofs` | theorems about those modules (`JsonlSinkProofs`: the lemmas that `RunnerProofs` uses) |

Operators commented "Variant" are plausible mistakes in the operator that
follows them (a missing reset, a dropped guard). No specification uses them: a
property is kept only if replacing the operator by its variant violates it.

### KalshiWS

`pc`, `recv` and `recon` are the awaits at which `_ws_loop`, `_recv_loop` and
`_reconcile_loop` are suspended; every action runs from one await to the next,
so the interleavings of the model are those of the event loop. A command is in
`cmds` from the moment `ws.send` is called; the code after the await is a later
action (`SubscribeSent`, `ReconSent`, `ResyncSent`), and the other task may run
in between. `ConnectionLost` covers a failed handshake and the end of a
connection in any of the awaits; `StopExit` covers both ways a task notices
`_stop` while a connection is up.

A book is abstracted to the set of the exchange's changes it contains, and
`books` is the dictionary of the code: a market without a book is not in its
domain. A snapshot after v changes puts `Book(v) = 1 .. v` in place of what was
there, a delta adds its change to whatever the collector holds. A delta applied
to a book that misses an earlier change gives a set with a hole, a torn book:
levels the exchange need never have had. It differs from every `Book(v)`, and the
run reaches it. `BookMirror` justifies the abstraction: with the code's
arithmetic an exact book stays exact under deltas, and what missed one is made
exact by a snapshot.

`LaggingMirror` says what is promised of such books. While nothing of a market is
missing its book is one the exchange has or had. After a loss (`Lose`) the code
goes on taking changes, later than those it has (`Add`), so a torn book is
allowed, as `ws_stale` shows it must be; it is made whole by a snapshot
(`Rebuild`) or dropped with the connection (`Forget`), in no other way.

The feed is external, modelled from how the code and its tests use it: commands
are answered in order on one FIFO stream, all markets of a subscription share
one sequence counter, a newly subscribed market gets its snapshot before its
deltas. Frames can be lost (`LoseFrame`, which also stands for a frame that does
not decode), commands can be rejected. `headSeq`, `headVer`, `connVer` and
`missed` are history for the properties.

### BookMirror

Prices are integers in 1/10000 dollar, the resolution of the code's 4-decimal
keys. `CoercePrice` has the case distinction of `coerce_price`: a dollar string
passes, a bare number above 1.5 is cents, any other is dollars. Every message
picks its spelling independently. The four quotes of a row are compared with the
exchange's book directly: its best bid, and for an ask the lowest of the prices
at which the side can be bought from the other side's bidders (`BestOffer`).
Changes may be lost; what a snapshot makes of
a book that missed some is part of `BookExact`.

### ParquetSink and DurableLog

`write` and `flush` hold the lock from beginning to end, so at most one call is
under way (`op`); it is cut where it can fail, where the process can die and
where a reader can look: table built and temporary file written (`WriteTable`),
renamed (`Replace`), buffer reset (`Reset`). A row may not fit its schema
(`TableFails`). A crash leaves what was renamed and starts an empty sink on the
same directory; loss of the file system's own cache is not modelled. `Log` maps
the sink to `DurableLog`: the log of a key is what `read_parquet` returns
followed by the rows that are in no part; between rename and reset those are
the rows behind the ones just renamed, of which the lock allows none.

### Discovery

Time is discrete and passes at awaits only. A market is an asset and a window.
The exchange may keep listing the old market after a boundary, list none, then
list the new one, and sets the reference price later (`ListedBy`, `StrikeBy`
bound the delays). A request is answered or fails within `RestTimeout`; a failed
request keeps the last known market, an exception ends the round. `Restart`
is a new process primed with the tickers whose markers are stored, as
`seen_tickers` is meant to be used. A series may come without `open_time`
(`undated`): `ParseOpenMarket` then takes the window it is looked at in, so the
map distinguishes the market (`window`) from its `window_start` (`start`), which
is what the cadence looks at.

### Settlement

The composition that gives every window its full record: discovery writes the
marker of a market it is listed as open (`OpenMarker`, at most once per process,
which is what `Discovery` shows), of the running window or, for a while, of the
one before, as long as its result is not determined; the sink may refuse it. The
poller writes the label, and both go to the same
file of the asset. The sink is taken by its contract, `Sink == INSTANCE
DurableLog`, which `ParquetSink` implements: rows are appended, a prefix of them
is durable, a crash cuts the log to that prefix. `Restart` is a crash followed by
a process primed from what is durable. The windows of a series are numbered; the
exchange settles them in order and determines their results in any order
(`Settle`, `Determine`). The poller is cut at its awaits: `StartRound`, one
`FetchOK`, `FetchFails` or `AnswerInvalid` per series, `SleepEnds`. `Handle` is the
loop over an answer; on `AnswerInvalid` it has handled some of the entries
before one raised. A market listed without `open_time` is in
`Undated`: its marker gets the window it is looked at in, its label the one in
which its result came. `RecordsOrdered` relates the two rows, which two pollers
write without knowing of each other: marker before label, no later
`window_start`, the same one for a market with `open_time`.

### JsonlSink and Runner

`JsonlSink` has the operations of the sink as operators that `Runner` calls, each
in one step: all collectors run on one event loop and no operation awaits. A row
is three tokens (some of its text, the rest, the newline), so that a buffer that
is passed to the file in part can tear a line; `Move` passes on a part of the
buffers, `FailAt` is an I/O error that loses some of one. `ReadJsonl` says that
`read_jsonl` returns. `Runner` is `main` with its collectors: a collector begins,
works, is torn down (`WorkEnds`, `TasksEnd`, `LastFlush`) and is done; its
idle-flush and heartbeat tasks run from `Begin` until the tear-down cancels them.
Its work is reduced to what it does to the sink and the heartbeat; that it ends
after `stop` is `StopTerminates` of `KalshiWS` and the loops of `Discovery` and
`Settlement`. `main` goes from `gather` to `closed` when all collectors are done or
the first of them has raised; `asyncio.run` then cancels the others (`CancelAll`)
and waits for them. A signal sets every `_stop` (`RequestStop`); without signal
handlers an interrupt cancels the gather (`Interrupt`).

## Runs

| run | shows |
|---|---|
| `ws_safety` | two markets, nothing resolved at start, two rollovers, one lost frame of any type, one dropped connection, one rejected command, two changes per book: `MirrorExact`, `MirrorCaughtUp`, `BooksOfThisConnection`, `SubscriptionAgreement`, the inductive `StreamInv`, and refinement of `LaggingMirror` (1.35 million states up to the symmetry of the markets) |
| `ws_liveness` | two markets, one active at start, a rollover, a lost delta, a dropped connection, `stop()` at any time: `Converges`, `ActiveMarketsMirrored`, `GapRepaired`, `StopTerminates`, `LossIsNoticed` (208 thousand states) |
| `book_exact` | prices of 2, 49 and 98 cents, all spellings, up to two contracts per level, two lost changes: `BookExact`, `QuotesTrue` |
| `sink` | two keys, rows that fit and rows that do not, buffers of two, three rows per key, an I/O failure and a crash at any step: `RowsOnceInOrder`, `BoundedBuffers`, `FlushEmptiesBuffers`, `RefinesDurableLog`, `ReachesDisk` |
| `discovery` | two series, one of them possibly without `open_time`, two boundaries and the fast phase after the second, fast polling for 8 of 14 ticks, one failed request or round, one refused marker, one restart: `MarkedOnce`, `SeenIsMarked`, `MapIsCurrent`, `EveryWindowMarked` (2 million states) |
| `settlement` | a series with three windows, two of them over at the start, and one that lists nothing, a lookback of two, one market without `open_time`, one failed request or round, one refused row, one crash: `OneRecordPerWindow`, `SeenIsLabelled`, `RecordsOrdered`, `EveryLabelStored` (331 thousand states) |
| `runner` | two collectors with two rows and one, one I/O failure or crash at any step, one exception or interrupt, stop at any time: `DamageIsLocal`, `StoppedIsLast`, `StoppedMeansStored`, `RowsReachFile`, `StopEndsMain` (469 thousand states) |
| `ws_stale`, `ws_masked`, `book_one_cent`, `sink_one_fails`, `discovery_late_strike` | what the code does against what its documents say, below |

Why the bounds are enough. The hazards of the driver need two markets (one
whose loss another one masks, one added while another is removed), two changes
of a book (a lost one and the one that shows the gap), and one fault of a kind
between any two steps; two rollovers are needed to change the wanted set while a
round is suspended and again after it. `ws_safety` starts with no market, which
is the only way to the subscribe sent from the reconcile loop. The symmetry of
the markets is sound there because the initial set is empty and only safety
properties are checked. The sink's interleavings involve one key being flushed
and another one; three rows are a full buffer and one more. Discovery needs
two boundaries: one to be rolled over and one to see what was left behind.
Discovery's constants keep the proportions that matter: with one failure a round
and its retry still fit in the fast window (they satisfy `Cadence`, below); time
ends after the fast phase of
the third window, where an undated series could be two windows behind.
Settlement needs a window that leaves the lookback (three windows, lookback two),
a window whose market is listed as open on both sides of a boundary before its
label comes (the undated one), and a round with a second request in it, whose
answer need not list anything: a label depends on the windows of its own series
only. The runner needs a collector that raises and
one that goes on, a row before a torn line and one after it.

`Converges` and `ActiveMarketsMirrored` are claimed with a fault budget that
runs out, and the second only if nothing was lost. `LossIsNoticed` is claimed
for a market that is the only one the connection has a book for and was
subscribed at connect: with a second market a loss can be masked
(`ws_masked`), and while the reconcile loop is suspended in the send of the first
subscribe a resync asks for nothing, because `_subscribed` is still empty.
`MapIsCurrent` and `EveryWindowMarked` are claimed for a process that was up
since a boundary; after a restart late in a window the fast polling is over.
`EveryLabelStored` is claimed while the market is among the `lookback` newest and
the sink did not refuse its label; `StoppedMeansStored` in the absence of I/O
failures, in which case the final flush is logged and given up; `RowsReachFile`
as long as the process runs: if a collector raises, `main` closes the sink
while others still write, and if the last flush of those fails too, their rows
are in memory when `asyncio.run` returns. `DamageIsLocal` allows one row per crash or failure beyond those
that were in the buffer: `JsonlSink` appends to the file it finds, so the first
row after a torn line shares its line.

Fairness. `KalshiWS`: the event loop runs every task that is ready, so each
task's actions are weakly fair; a handshake ends, by `WS_OPEN_TIMEOUT` at the
latest, and `async for` raises or yields once the ping interval finds a dead
peer; the server answers commands and sends the snapshots it owes. Nothing obliges
the market to move, discovery to change its mind, a fault to happen or `stop()`
to be called. `ParquetSink`: a call under way goes on, and a flush is started
again and again (`_idle_flush_loop`, every 5 s, while any collector runs).
`Settlement`: a request ends by `REST_TIMEOUT` and a sleep at its interval, so the
poller's own steps (`Poll`) are weakly fair, and each flush of the sink comes
again; windows need not end and results need not come. `Runner`: what is ready
on the event loop runs (`Main`, `Lifecycle`), and each idle-flush task flushes again
and again while it runs; no row, heartbeat, exception or signal is obliged to
come. `Discovery` and `BookMirror` need none: their properties are safety
properties, with time explicit in `Discovery`.

Deadlock is checked in every run: `Finished` and `Horizon` are the only states
in which nothing goes on, and they stutter explicitly.

## Where the code and its documents disagree

- `ws_stale` (`collectors.py:291`). After a gap the watermark moves on and the
  book stays marked as snapshotted, so deltas before the resync's snapshot are
  applied to, and rows emitted from, a book known to be wrong. The README says a
  stale book can never be updated.
- `ws_masked` (`collectors.py:284`). A snapshot sets the watermark shared by all
  markets; a delta of another market lost just before it is never noticed.
- `book_one_cent` (`parsing.py:61`). The bare number 1 is one dollar, so in the
  cent spelling a level at one cent is kept under 1.0000.
- `sink_one_fails` (`sinks.py:151`). `flush` and `close` stop at the first key
  that raises; the keys after it are not flushed.
- `discovery_late_strike` (`discovery.py:210`). A reference price set after the
  fast window leaves its window without a marker.

Smaller ones that no run shows: a market whose first snapshot is lost drops its
deltas and asks for nothing (`collectors.py:345`); a rejected command is taken
as carried out and never repeated on that connection (`collectors.py:256`);
past 99999 parts the order of the file names is not the order of the parts
(`sinks.py:168`); after a torn line `read_jsonl` raises for the whole file
(`sinks.py:200`); a settled market without `open_time` is filed under the window in
which its result was determined, not its own (`settlement.py:93`), and an open
one makes discovery miss the next market (`discovery.py:79`); priming the
settlement poller "from tickers already stored" (`settlement.py:8-9`) must leave
out the tickers stored only with a marker, which are in the same data type, or
their labels are never written (the mutant `PrimedWithMarkers` of
`EveryLabelStored` shows it); the WebSocket collectors ignore `stale_seconds`,
which only the base class's `_handle` looks at (`collectors.py:304`); the heartbeat
task reports running while a collector reconnects (`base.py:251`); the poller wakes just after a boundary, the README says before
(`discovery.py:212`).

## What is proved

For all constants that satisfy the named assumptions (any set of markets, series
or keys, any bounds, any backoff with `INITIAL_BACKOFF <= MAX_BACKOFF`), and for
hypotheses stated in the theorem where it has any. Each inductive invariant was
an invariant of a run before it was proved. All safety invariants and action
properties of the passing runs, and both refinements, are theorems.

`KalshiWSProofs` - `TypeCorrect`, `StreamInvariant`, `MirrorIsExact`,
`MirrorCatchesUp`, `NoOldBooks`, `Refinement`. `MirrorExact` is not inductive:
that applying a delta gives the exchange's book depends on the frames still in
flight. `StreamInv` ties the stream together: without a connection there is no
stream (`NoStream`); the frames of a market are in the order of its changes
(`Ordered`), each delta is one change ahead of the frame of that market before
it and the last frame is current (`Linked`); every frame was sent after the
connection opened (`SentSinceConnect`); a book is exact unless a frame is
missed, never ahead of the last frame taken and never older than the
connection (`Mirrored`). The proof has one lemma per kind of step: a frame
appended, a frame taken, a reset, a step that leaves the stream alone.
`Refinement` maps `shown` to `books` and `missing` to `missed`: a snapshot is
`Rebuild`, a delta that is applied `Add`, a lost frame or a delta dropped at a gap
`Lose`, a connect `Forget`, a change of the exchange's book `Move`, everything
else stutters. That a delta is `Add` needs `Mirrored` and `Linked`: it is the very
next change if nothing was missed, and a later one than the book has otherwise.

`SubscriptionProofs` - `SubscriptionsAgree` (`SubscriptionAgreement`) and
`LossesAreNoticed` (`LossIsNoticed`).
`SubscriptionAgreement` speaks of the moments between two rounds only; its
invariant `Agreement` says what the server will have once it has answered the
commands under way (`Pending`) at every await: `_subscribed` between rounds, the
local `desired` in a round, both while only `add_markets` was sent (`Believed`).
`LossIsNoticed` rests on three invariants. `SequenceInv` and `Watermark`: the
frames under way carry increasing numbers above the last frame taken, and the
watermark is never ahead of that frame, so a frame that was lost leaves a gap.
`Opening`: until discovery changes its mind or a command is rejected, a
connection is in one of three stages, the subscribe under way (`Requested`), its
answer ahead of every frame (`Answered`), the `sid` and from the first snapshot on
the watermark known (`Established`). `Notice`: when the only mirrored book is
damaged, a frame that shows the gap, a request for a snapshot or the snapshot
is under way. The hypothesis `"subscribed" \notin LossyTypes` says that the answer
to subscribe is not lost; without the `sid` a gap cannot be repaired on that
connection (`collectors.py:221`). `ws_liveness` satisfies it.

`BookMirrorProofs` - `TypeCorrect`, `BookIsExact`, `QuotesAreTrue`. With no price of
one cent in the cent spelling (`Unambiguous`), `CoercePrice` maps every spelling
of a price to its key, and a book that is exact for that reason stays exact
(`BookInv`). The row is that of the book as it is (`RowInv`), so its best bids are
the exchange's, and its asks are the exchange's lowest offers, as the offers are
a dollar less the other side's bids (`OfferFacts`). The one-cent run shows that the
hypothesis is needed.

`ParquetSinkProofs` - `TypeCorrect`, `RowsKept`, `BuffersBounded`,
`FlushIsComplete`, from one inductive invariant: `CallInv` (what a call under
way has done so far), `FlushInv` (a buffer with rows belongs to a key that the
flush still has to visit), `FillInv` (only the buffer being flushed is full),
`ResetInv` (between rename and reset the new part holds exactly the buffer),
`RowsInv` (parts are numbered without a gap, the index chosen is free, and rows
in parts and buffers are in order of their writes). `Refinement`: the sink
implements `DurableLog` in every behaviour in which the part indices fit the
padding of the file names (`NamesSuffice`): a `Write` appends, a `Replace` makes a
longer prefix durable and leaves the log as it is, because the rows of the new
part are no longer counted as buffered, `Crash` cuts the log to what
`read_parquet` returns. `RefinementWithinLimit` discharges the hypothesis: the
i-th part of a key holds a row numbered above i (`CountInv`), so `MaxWritten <= Limit`
rows do not need more names than there are. Past that limit the property is false
(`sinks.py:168`).

`DiscoveryProofs` - `TypeCorrect`, `OneMarkerPerWindow`, `SkippedMarketsAreMarked`:
`MarkedOnce` is inductive with `MarkedIsSeen`, the seen set covers the markers in
the sink, which a restart keeps because it is primed with them.
`IdleEndsInNextWindow`: a sleep that is not fast polling ends `POST_BOUNDARY_LEAD`
after the next boundary, from any position in the window. `MapStaysCurrent` and
`WindowsAreMarked` carry this over time. `FirstGood` is the latest offset at which
a round starts that finds every market listed and priced: one that starts at the
lead, or the one after a round that came too early. Each of f failures delays it by
a round and a pause (`Latest(f)`), and `Cadence` says that `Latest(MaxFaults)` is
within the fast window and that a round started then ends before the boundary.
`TimingInv`: in a window, a round starts by `Latest(faults)`; one that has missed
a market ends so early that the next does too, so it is followed by a fast poll;
the poller sleeps over a boundary only with a map it found complete. With
`ExchangeInv` (what the exchange may list when) and `EntryInv` (a market in a map
is of its `window_start` or, undated, of the window before, and a priced one has
been seen) this gives `MapIsCurrent`, and at each boundary `SeenSoFar`: every window
gone by has been seen. The discovery run has `FirstGood` = 4, `Latest(1)` = 8 =
`FastWindow` and a round of 2 in windows of 14; in `discovery_late_strike`, where
`StrikeBy` is past the fast window, the hypothesis and the property are false.
`RestTimeout` stands for the longest a request takes: with the code's 45 s and one
second a request, the four series and markets priced 2 s into the window,
`FirstGood` is 7 s and one failure, with the longest backoff, still fits
(`Latest(1)` = 41 s); with requests that take their whole 10 s `FirstGood` is 34 s
and no failure fits.

`SettlementProofs` - `TypeCorrect`, `RecordsAreSingle` (`OneRecordPerWindow`),
`NothingElseIsSkipped` (`SeenIsLabelled`), `RecordsAreOrdered` (`RecordsOrdered`). The
rows of a window are single because two sets cover them: `SeenIsLabelled` the
labels, `MarkersSeen` the markers; a crash and restart keeps both, as the new
process is primed from what the crash left. `Handle` is followed entry by entry
through an answer that may end in an exception (`Answered`). 
`RecordsOrdered` is not inductive: a label to come must not be dated before a
marker that is there already. The window in which the result came ties the two
(`WellDated`): a label exists only once there is one, a marker is dated no later
than it, or than the running window while there is none.

`JsonlSinkProofs`, `RunnerProofs` - `TypeCorrect`, `StoppedIsStored`,
`DamageStaysLocal`, `StoppedIsTheLastBeat`. `StoppedMeansStored` is inductive with
`StoppedIsDone`; for `DamageIsLocal`, `LineInv` describes the stream of a file and
its buffer token by token: the whole lines are rows in order, and each crash or
failure has broken at most one row besides those it hit in the buffer, or has left
a torn line that will break the next. A step
keeps a stream, lengthens it by a line, or cuts it (`Kept`, `Lengthened`, `Cut`),
whatever operation of the sink it is.

Two forms the proofs use because the library's induction theorems take an
operator as a parameter, which the provers cannot instantiate: an induction is a
contradiction with the smallest counterexample (lemma `Smallest`), and the parts
of a key in order are `SortedParts`, a `CHOOSE` characterised by what it returns,
instead of a fold.

Only model-checked: the liveness properties `Converges`, `ActiveMarketsMirrored`,
`GapRepaired`, `StopTerminates`, `ReachesDisk`, `EveryLabelStored`, `RowsReachFile`
and `StopEndsMain` (they need fairness and `ENABLED`), and the counterexamples of the
five violation runs. Outside of liveness, the theorems with a hypothesis say
nothing where it fails: a lost answer to subscribe, a one-cent price in cents,
more parts than names, failures that fill the fast phase.

## What is not modelled

Authentication (cryptography and I/O), the schema declarations, the memory
sink (a list whose `flush` and `close` do nothing), the row labels of the book
rows (asset, window, timestamps) and the JSON dump of the levels; malformed rows
and messages, which the code skips; the example's argument parsing; the base
class's own `_ws_loop` and its hooks, which every class of the repository overrides
or replaces (it would notice `stop()` only after a frame, `base.py:164`); two sinks on
one directory. The trade collector is a stateless parse on the driver of `KalshiWS`
with `RESYNC_ON_GAP = False`; it is planned. Market frames always carry a `seq` and a
timestamp in the model: the branches for `seq is None` (`collectors.py:284-290`) and
for rows dated by the clock (`settlement.py:94`) are left out.

## Plan

1. The trade channel as a second kind of channel in `KalshiWS`: gaps are noticed
   and the trade is taken all the same, the tape is the feed but for what was
   lost, a late trade keeps the window of its market.
2. `StoppedMeansStored` and the shutdown of `Runner` with `ParquetSink` in the place
   of `JsonlSink`.
3. Proofs: `Runner` on `DurableLog`, so that what is proved of the shutdown holds
   for every sink that implements it; a `Cadence` that follows the doubling of
   the backoff instead of its maximum.
