---------------------------- MODULE ParquetSink ----------------------------
(***************************************************************************)
(* ParquetSink of sinks.py with read_parquet: rows buffered per key        *)
(* (data_type, symbol), written to numbered part files that are renamed    *)
(* into place.                                                             *)
(*                                                                         *)
(* write and flush hold self._lock from beginning to end, so at most one   *)
(* of them is under way; it is cut into steps at the points where it can   *)
(* fail, where the process can die and where a reader of the directory can *)
(* look.  A crash is the end of the process: what was renamed into place   *)
(* stays (loss of the file system's own cache is not modelled).  A new     *)
(* process starts with an empty ParquetSink on the same root.              *)
(*                                                                         *)
(* A row is a number, its place in the order of the writes to its key, and *)
(* whether it fits the schema: pa.Table.from_pylist raises on a row that   *)
(* does not.                                                               *)
(***************************************************************************)
EXTENDS Naturals, Sequences, SequencesExt

CONSTANTS
    Keys,        \* the (data_type, symbol) pairs written
    MaxRows,     \* self._max_rows
    Base, Limit, \* part names pad the index to the digits of Limit - 1
    Fits,        \* the possible values of "the row fits the schema"
    MaxWritten,  \* bound: rows written to each key
    MaxFaults,   \* bound: I/O failures
    MaxCrashes   \* bound: crashes

ASSUME RowsAssumption == MaxRows \in Nat \ {0}
ASSUME NamesAssumption == Base \in Nat \ {0, 1} /\ Limit \in Nat \ {0}
ASSUME FitsAssumption == Fits \subseteq BOOLEAN
ASSUME BoundAssumption == {MaxWritten, MaxFaults, MaxCrashes} \subseteq Nat

VARIABLES
    buffers,  \* self._buffers; an absent key has an empty buffer
    order,    \* the keys of self._buffers, in insertion order
    parts,    \* the part files: key -> index -> rows
    op,       \* the call that holds self._lock
    stage,    \* how far _flush_key(Head(todo)) has got
    todo,     \* the keys the call still has to flush
    index,    \* local variable of _flush_key
    written,  \* rows written so far, per key
    faults, crashes

sinkVars  == <<buffers, order>>
callVars  == <<op, stage, todo, index>>
vars == <<buffers, order, parts, op, stage, todo, index, written, faults,
          crashes>>

Row == [n : 1 .. MaxWritten, fits : Fits]

-----------------------------------------------------------------------------
\* Variant for the checks: the highest index itself.
NextPartIndexNotAdvanced(k) ==
    IF DOMAIN parts[k] = {} THEN 0 - 1
    ELSE CHOOSE i \in DOMAIN parts[k] : \A j \in DOMAIN parts[k] : j <= i

\* _next_part_index: one more than the highest index in the directory.
NextPartIndex(k) ==
    IF DOMAIN parts[k] = {} THEN 0
    ELSE 1 + CHOOSE i \in DOMAIN parts[k] : \A j \in DOMAIN parts[k] : j <= i

\* sorted(part_dir.glob(...)) compares names: an index that outgrew the padding
\* has one more digit than the others.
Leading(i)   == IF i < Limit THEN i * Base ELSE i
Before(i, j) == Leading(i) < Leading(j) \/ (Leading(i) = Leading(j) /\ i < j)

SortedParts(D) ==
    CHOOSE s \in [1 .. Cardinality(D) -> D] :
        \A a, b \in DOMAIN s : a < b => Before(s[a], s[b])

\* read_parquet
ReadParquet(k) ==
    LET files == SortedParts(DOMAIN parts[k])
    IN  FlattenSeq([m \in DOMAIN files |-> parts[k][files[m]]])

-----------------------------------------------------------------------------
Init ==
    /\ buffers = [k \in Keys |-> <<>>]
    /\ order = <<>>
    /\ parts = [k \in Keys |-> <<>>]
    /\ op = "none" /\ stage = "start" /\ todo = <<>> /\ index = 0
    /\ written = [k \in Keys |-> 0]
    /\ faults = 0 /\ crashes = 0

Start(name, keys) ==
    /\ op' = name
    /\ todo' = keys

Return == Start("none", <<>>) /\ stage' = "start"

\* Variant: write does not take the lock.
WriteUnlocked(k) ==
    /\ written[k] < MaxWritten
    /\ written' = [written EXCEPT ![k] = @ + 1]
    /\ \E fits \in Fits :
          buffers' = [buffers EXCEPT ![k] =
                        Append(@, [n |-> written'[k], fits |-> fits])]
    /\ order' = IF k \in ToSet(order) THEN order ELSE Append(order, k)
    /\ IF op = "none" /\ Len(buffers'[k]) >= MaxRows
         THEN Start("write", <<k>>)
         ELSE UNCHANGED <<op, todo>>
    /\ UNCHANGED <<parts, stage, index, faults, crashes>>

\* Variant: a buffer is flushed when it is more than full.
WriteOverfull(k) ==
    /\ op = "none"
    /\ written[k] < MaxWritten
    /\ written' = [written EXCEPT ![k] = @ + 1]
    /\ \E fits \in Fits :
          buffers' = [buffers EXCEPT ![k] =
                        Append(@, [n |-> written'[k], fits |-> fits])]
    /\ order' = IF k \in ToSet(order) THEN order ELSE Append(order, k)
    /\ IF Len(buffers'[k]) > MaxRows THEN Start("write", <<k>>)
                                     ELSE UNCHANGED <<op, todo>>
    /\ UNCHANGED <<parts, stage, index, faults, crashes>>

\* write: the row is buffered; a full buffer is flushed before write returns.
Write(k) ==
    /\ op = "none"
    /\ written[k] < MaxWritten
    /\ written' = [written EXCEPT ![k] = @ + 1]
    /\ \E fits \in Fits :
          buffers' = [buffers EXCEPT ![k] =
                        Append(@, [n |-> written'[k], fits |-> fits])]
    /\ order' = IF k \in ToSet(order) THEN order ELSE Append(order, k)
    /\ IF Len(buffers'[k]) >= MaxRows THEN Start("write", <<k>>)
                                      ELSE UNCHANGED <<op, todo>>
    /\ UNCHANGED <<parts, stage, index, faults, crashes>>

\* Variant: only the first key is flushed.
FlushFirstKey ==
    /\ op = "none"
    /\ IF order = <<>> THEN UNCHANGED <<op, todo>>
                       ELSE Start("flush", <<Head(order)>>)
    /\ UNCHANGED <<sinkVars, parts, stage, index, written, faults, crashes>>

\* flush (and close, which is a flush): every key, in the order of the dict.
Flush ==
    /\ op = "none"
    /\ IF order = <<>> THEN UNCHANGED <<op, todo>> ELSE Start("flush", order)
    /\ UNCHANGED <<sinkVars, parts, stage, index, written, faults, crashes>>

\* Variant: the call returns after one key.
NextKeyReturns == Return

\* The call goes on with the key after Head(todo), or returns.
NextKey ==
    IF Len(todo) = 1 THEN Return
                     ELSE Start(op, Tail(todo)) /\ stage' = "start"

AllFit(rows) == \A i \in 1 .. Len(rows) : rows[i].fits

\* _flush_key: nothing to do.
SkipKey ==
    /\ op # "none" /\ stage = "start"
    /\ buffers[Head(todo)] = <<>>
    /\ NextKey
    /\ UNCHANGED <<sinkVars, parts, index, written, faults, crashes>>

\* _flush_key: the table is built, the index chosen, the temporary file written.
WriteTable ==
    /\ op # "none" /\ stage = "start"
    /\ buffers[Head(todo)] # <<>>
    /\ AllFit(buffers[Head(todo)])
    /\ index' = NextPartIndex(Head(todo))
    /\ stage' = "replace"
    /\ UNCHANGED <<sinkVars, parts, op, todo, written, faults, crashes>>

\* from_pylist raises: the call ends there, nothing is reset.
TableFails ==
    /\ op # "none" /\ stage = "start"
    /\ ~AllFit(buffers[Head(todo)])
    /\ Return
    /\ UNCHANGED <<sinkVars, parts, index, written, faults, crashes>>

\* mkdir, write_table or os.replace raises.
WriteFails ==
    /\ op # "none"
    /\ \/ stage = "start" /\ buffers[Head(todo)] # <<>> /\ AllFit(buffers[Head(todo)])
       \/ stage = "replace"
    /\ faults < MaxFaults
    /\ faults' = faults + 1
    /\ Return
    /\ UNCHANGED <<sinkVars, parts, index, written, crashes>>

\* os.replace(tmp, final)
Replace ==
    /\ op # "none" /\ stage = "replace"
    /\ parts' = [parts EXCEPT ![Head(todo)] =
                    [i \in DOMAIN @ \cup {index} |->
                        IF i = index THEN buffers[Head(todo)] ELSE @[i]]]
    /\ stage' = "reset"
    /\ UNCHANGED <<sinkVars, op, todo, index, written, faults, crashes>>

\* Variant: the buffer is not emptied.
ResetMissing ==
    /\ op # "none" /\ stage = "reset"
    /\ NextKey
    /\ UNCHANGED <<sinkVars, parts, index, written, faults, crashes>>

\* self._buffers[key] = []
Reset ==
    /\ op # "none" /\ stage = "reset"
    /\ buffers' = [buffers EXCEPT ![Head(todo)] = <<>>]
    /\ NextKey
    /\ UNCHANGED <<order, parts, index, written, faults, crashes>>

\* The process dies and a new one starts on the same root.
Crash ==
    /\ crashes < MaxCrashes
    /\ crashes' = crashes + 1
    /\ buffers' = [k \in Keys |-> <<>>]
    /\ order' = <<>>
    /\ Return
    /\ index' = 0
    /\ UNCHANGED <<parts, written, faults>>

FlushKey == SkipKey \/ WriteTable \/ TableFails \/ WriteFails \/ Replace \/ Reset

Next == Flush \/ FlushKey \/ Crash \/ \E k \in Keys : Write(k)

Spec == Init /\ [][Next]_vars

\* A call that has begun goes on; the idle-flush task of every collector calls
\* flush every IDLE_FLUSH_INTERVAL.
FairSpec == Spec /\ WF_vars(FlushKey) /\ WF_vars(Flush)

-----------------------------------------------------------------------------
Sublogs == Seq([n : Nat, fits : Fits])

TypeOK ==
    /\ buffers \in [Keys -> Sublogs]
    /\ order \in Seq(Keys)
    /\ DOMAIN parts = Keys
    /\ \A k \in Keys : /\ DOMAIN parts[k] \subseteq Nat
                       /\ \A i \in DOMAIN parts[k] : parts[k][i] \in Sublogs
    /\ op \in {"none", "write", "flush"}
    /\ stage \in {"start", "replace", "reset"}
    /\ todo \in Seq(Keys)
    /\ op = "none" <=> todo = <<>>
    /\ index \in Nat
    /\ written \in [Keys -> Nat]
    /\ faults \in Nat /\ crashes \in Nat

\* Parts are numbered without a gap from 0, each holds rows of its key in the
\* order of their writes, later than those of every part before it and earlier
\* than those still buffered: no row is on disk twice (_next_part_index, the
\* reset of the buffer after os.replace).
Increasing(rows) == \A i, j \in 1 .. Len(rows) : i < j => rows[i].n < rows[j].n
AllBefore(rows, later) ==
    \A i \in 1 .. Len(rows), j \in 1 .. Len(later) : rows[i].n < later[j].n

Buffered(k) == IF stage = "reset" /\ k = Head(todo) THEN <<>> ELSE buffers[k]

RowsOnceInOrder ==
    \A k \in Keys :
        /\ \A i \in DOMAIN parts[k] : 0 .. i \subseteq DOMAIN parts[k]
        /\ Increasing(buffers[k])
        /\ \A i \in DOMAIN parts[k] :
              /\ Increasing(parts[k][i])
              /\ AllBefore(parts[k][i], Buffered(k))
              /\ \A j \in DOMAIN parts[k] : i < j => AllBefore(parts[k][i], parts[k][j])

\* While no I/O fails, a key none of whose buffered rows is unfit has fewer than
\* max_rows rows in memory between calls, whatever becomes of the other keys.
BoundedBuffers ==
    (op = "none" /\ faults = 0) =>
        \A k \in Keys : AllFit(buffers[k]) => Len(buffers[k]) < MaxRows

\* A flush that returns without an exception leaves nothing in memory.
FlushEmptiesBuffers ==
    [][(op = "flush" /\ (SkipKey \/ Reset) /\ op' = "none")
         => \A k \in Keys : buffers'[k] = <<>>]_vars

\* A flush persists the buffer of every key, but for the one that fails.
FlushReachesEveryKey ==
    [][(op = "flush" /\ (SkipKey \/ Reset \/ TableFails \/ WriteFails) /\ op' = "none")
         => \A k \in Keys \ {Head(todo)} : buffers'[k] = <<>>]_vars

\* The rows of a key that are in no part: while its buffer is about to be reset,
\* those behind the rows of the part just renamed.
Unwritten(k) ==
    IF stage = "reset" /\ k = Head(todo)
      THEN SubSeq(buffers[k], Len(parts[k][index]) + 1, Len(buffers[k]))
      ELSE buffers[k]

\* The sink implements DurableLog: the log of a key is what read_parquet gives
\* followed by the rows that are in no part.
Log == INSTANCE DurableLog WITH
            Rows    <- Row,
            log     <- [k \in Keys |-> ReadParquet(k) \o Unwritten(k)],
            durable <- [k \in Keys |-> Len(ReadParquet(k))]

\* Whatever fails, and wherever the process dies, every row accepted since the
\* last crash is on disk or in memory exactly once and in order, and what is on
\* disk is never lost, repeated or rewritten.
RefinesDurableLog == Log!Spec

\* With the idle flush, a row does not stay in memory: it reaches the disk (or
\* is lost in a crash), I/O failures being finitely many, unless a row that does
\* not fit is buffered for some key.
ReachesDisk ==
    \A k \in Keys : buffers[k] # <<>> ~>
        (Buffered(k) = <<>> \/ \E j \in Keys : ~AllFit(buffers[j]))

=============================================================================
