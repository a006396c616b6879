----------------------------- MODULE JsonlSink -----------------------------
(***************************************************************************)
(* JsonlSink of sinks.py with read_jsonl: one file per key, opened for     *)
(* appending and written through Python's buffer.  The operators below are *)
(* the operations; Runner calls them, each in one step, since all          *)
(* collectors run on one event loop.                                       *)
(*                                                                         *)
(* A row is a number, its place in the order of the writes to its key, and *)
(* goes through the buffer as three tokens: some of its JSON text, the     *)
(* rest of the text, the newline.  The buffer may pass any part of what it *)
(* holds to the file at any write.  What is in the file survives the       *)
(* process.  A row that json.dumps refuses changes nothing and is left     *)
(* out.                                                                    *)
(***************************************************************************)
EXTENDS Naturals, Sequences, SequencesExt

CONSTANTS
    Keys,      \* the (data_type, symbol) pairs written
    MaxRows    \* bound: key -> rows

ASSUME RowsAssumption == MaxRows \in [Keys -> Nat]

VARIABLES
    handles,  \* the keys of self._handles, in insertion order
    pending,  \* key -> tokens in the buffer of its handle
    file,     \* key -> tokens in the file
    written,  \* key -> rows written so far
    hit       \* history: key -> rows that were in the buffer in a crash or failure

sinkVars == <<handles, pending, file, written, hit>>

Token   == Nat \X (1 .. 3)
Newline == 3

SinkInit ==
    /\ handles = <<>>
    /\ pending = [k \in Keys |-> <<>>]
    /\ file = [k \in Keys |-> <<>>]
    /\ written = [k \in Keys |-> 0]
    /\ hit = [k \in Keys |-> {}]

\* Variant for the checks: the newline is missing.
LineUnended(n) == <<<<n, 1>>, <<n, 2>>>>

\* The text of a row and its newline.
Line(n) == <<<<n, 1>>, <<n, 2>>, <<n, Newline>>>>

RowsIn(tokens) == {tokens[i][1] : i \in DOMAIN tokens}

\* Per key, the first passed[k] tokens go to the file and those behind kept[k]
\* are dropped.
Move(tokens, passed, kept) ==
    /\ file' = [k \in Keys |-> file[k] \o SubSeq(tokens[k], 1, passed[k])]
    /\ pending' = [k \in Keys |-> SubSeq(tokens[k], passed[k] + 1, kept[k])]

All(tokens) == [k \in Keys |-> Len(tokens[k])]

\* An I/O failure at key k: some of its tokens are passed on, some dropped.
FailAt(k, tokens, passed) ==
    /\ \E i \in 0 .. Len(tokens[k]) : \E j \in i .. Len(tokens[k]) :
          Move(tokens, [passed EXCEPT ![k] = i], [All(tokens) EXCEPT ![k] = j])
    /\ hit' = [hit EXCEPT ![k] = @ \cup RowsIn(tokens[k])]

Nothing == [k \in Keys |-> 0]

Buffered(k) == [pending EXCEPT ![k] = @ \o Line(written[k] + 1)]

\* _handle: the file is opened when the key has no handle.
Open(k) ==
    /\ written[k] < MaxRows[k]
    /\ written' = [written EXCEPT ![k] = @ + 1]
    /\ handles' = IF k \in ToSet(handles) THEN handles ELSE Append(handles, k)

\* write
Write(k) ==
    /\ Open(k)
    /\ \E i \in 0 .. Len(Buffered(k)[k]) :
          Move(Buffered(k), [Nothing EXCEPT ![k] = i], All(Buffered(k)))
    /\ UNCHANGED hit

WriteFails(k) == Open(k) /\ FailAt(k, Buffered(k), Nothing)

\* flush
Flush == Move(pending, All(pending), All(pending)) /\ UNCHANGED <<handles, written, hit>>

\* The n-th handle fails: those before it are flushed, those after it are not.
FlushFails ==
    /\ \E n \in DOMAIN handles :
          FailAt(handles[n], pending,
                 [k \in Keys |-> IF \E m \in 1 .. n - 1 : handles[m] = k
                                   THEN Len(pending[k]) ELSE 0])
    /\ UNCHANGED <<handles, written>>

\* close: every handle is flushed and closed, then all are forgotten.
Close ==
    /\ Move(pending, All(pending), All(pending))
    /\ handles' = <<>>
    /\ UNCHANGED <<written, hit>>

\* Closing one handle fails: that is swallowed, the others are closed.
CloseFails ==
    /\ \E k \in ToSet(handles) :
          /\ \E i \in 0 .. Len(pending[k]) :
                Move(pending, [All(pending) EXCEPT ![k] = i], [All(pending) EXCEPT ![k] = i])
          /\ hit' = [hit EXCEPT ![k] = @ \cup RowsIn(pending[k])]
    /\ handles' = <<>>
    /\ UNCHANGED written

\* The process dies.
SinkCrash ==
    /\ Move(pending, Nothing, Nothing)
    /\ handles' = <<>>
    /\ hit' = [k \in Keys |-> hit[k] \cup RowsIn(pending[k])]
    /\ UNCHANGED written

-----------------------------------------------------------------------------
(***************************************************************************)
(* Reading                                                                 *)
(***************************************************************************)

\* Row n is a line of its own; the newline of the last line may be missing.
Readable(k, n) ==
    \E i \in DOMAIN file[k] :
        LET f == file[k]
        IN  /\ f[i] = <<n, 1>>
            /\ i = 1 \/ f[i - 1][2] = Newline
            /\ i < Len(f) /\ f[i + 1] = <<n, 2>>
            /\ i + 2 <= Len(f) => f[i + 2] = <<n, Newline>>

\* read_jsonl returns: every line is a row.
ReadJsonl(k) == \A n \in RowsIn(file[k]) : Readable(k, n)

\* What passes through the handle of the key, in the order of the writes.
Stream(k) == file[k] \o pending[k]

Position(token) == 3 * token[1] + token[2]

InOrder(k) ==
    \A i, j \in DOMAIN Stream(k) :
        i < j => Position(Stream(k)[i]) < Position(Stream(k)[j])

\* The rows that cannot be read although the buffer does not hold them and did
\* not in a crash or failure.
Collateral(k) ==
    {n \in 1 .. written[k] : /\ n \notin hit[k] /\ n \notin RowsIn(pending[k])
                             /\ ~Readable(k, n)}

SinkTypeOK ==
    /\ handles \in Seq(Keys)
    /\ pending \in [Keys -> Seq(Token)] /\ file \in [Keys -> Seq(Token)]
    /\ written \in [Keys -> Nat]
    /\ \A k \in Keys : written[k] <= MaxRows[k]
    /\ hit \in [Keys -> SUBSET Nat]
    /\ \A k \in Keys : pending[k] # <<>> => k \in ToSet(handles)

=============================================================================
