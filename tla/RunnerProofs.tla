---------------------------- MODULE RunnerProofs ----------------------------
(***************************************************************************)
(* Runner keeps its types, its collectors are silent after "stopped", have *)
(* stored all their rows by then, and a failure or crash costs one row     *)
(* besides those that were in the buffer.                                  *)
(*                                                                         *)
(* The argument is one inductive invariant, IInv.  For the rows it says of *)
(* every key what LineInv of JsonlSinkProofs says of its stream: each      *)
(* failure or crash has broken a row, or has left a torn line behind which *)
(* the next row will be broken, or did neither.                            *)
(***************************************************************************)
EXTENDS Runner, JsonlSinkProofs

\* Only the end of run() beats "stopped".
StoppedIsDone == \A c \in Collectors : beat[c] = "stopped" => phase[c] = "done"

DamageInv == \A k \in Keys : LineInv(k, faults + crashes)

IInv == TypeOK /\ StoppedIsDone /\ StoppedMeansStored /\ DamageInv

-----------------------------------------------------------------------------
(***************************************************************************)
(* The sink in a step                                                      *)
(***************************************************************************)

\* Nothing fails.
Harmless ==
    /\ SinkTypeOK'
    /\ \A j \in Keys : Kept(j) \/ Lengthened(j)
    /\ faults' = faults /\ crashes' = crashes

\* A failure or a crash.
Harmful ==
    /\ SinkTypeOK'
    /\ \A j \in Keys : Kept(j) \/ Cut(j) \/ LengthenedAndCut(j)
    /\ faults' \in Nat /\ crashes' \in Nat /\ faults' + crashes' = faults + crashes + 1

LEMMA SinkStep ==
    ASSUME TypeOK, DamageInv, Harmless \/ Harmful
    PROVE  SinkTypeOK' /\ DamageInv'
<1>. DEFINE d == faults + crashes
<1>1. SinkTypeOK /\ faults \in Nat /\ crashes \in Nat
  BY DEF TypeOK, RunTypeOK
<1>2. d \in Nat
  BY <1>1
<1>3. ASSUME NEW k \in Keys
      PROVE  Lines(Stream(k)', written'[k], hit'[k], faults' + crashes')
  <2>1. LineInv(k, d)
    BY DEF DamageInv
  <2>. HIDE DEF d
  <2>2. CASE Harmless
    <3>1. faults' + crashes' = d /\ (Kept(k) \/ Lengthened(k))
      BY <2>2 DEF Harmless, d
    <3>. QED  BY <1>1, <1>2, <2>1, <3>1, LineInvKept, LineInvLengthened
  <2>3. CASE Harmful
    <3>1. /\ faults' + crashes' = d + 1
          /\ Kept(k) \/ Cut(k) \/ LengthenedAndCut(k)
      BY <2>3 DEF Harmful, d
    <3>2. CASE Kept(k)
      <4>1. Lines(Stream(k)', written'[k], hit'[k], d)
        BY <2>1, <3>2, LineInvKept
      <4>2. written'[k] \in Nat /\ d + 1 \in Nat /\ d <= d + 1
        BY <1>2, <2>3 DEF Harmful, SinkTypeOK
      <4>3. Lines(Stream(k)', written'[k], hit'[k], d + 1)
        BY <1>2, <4>1, <4>2, LinesMore
      <4>. QED  BY <3>1, <4>3
    <3>3. CASE Cut(k) \/ LengthenedAndCut(k)
      BY <1>1, <1>2, <2>1, <3>1, <3>3, LineInvCut, LineInvLengthenedAndCut
    <3>. QED  BY <3>1, <3>2, <3>3
  <2>. QED  BY <2>2, <2>3
<1>4. SinkTypeOK'
  BY DEF Harmless, Harmful
<1>. QED  BY <1>3, <1>4 DEF DamageInv, LineInv

LEMMA Quiet ==
    ASSUME TypeOK, UNCHANGED <<sinkVars, faults, crashes>>
    PROVE  Harmless /\ pending' = pending
<1>1. SinkTypeOK'
  BY DEF TypeOK, SinkTypeOK, sinkVars
<1>. QED  BY <1>1 DEF Harmless, Kept, Stream, sinkVars

LEMMA Flushing ==
    ASSUME TypeOK, Flush \/ Close, UNCHANGED <<faults, crashes>>
    PROVE  Harmless /\ \A k \in Keys : pending'[k] = <<>>
BY FlushFacts DEF TypeOK, Harmless

LEMMA OneMore ==
    ASSUME TypeOK
    PROVE  /\ faults' = faults + 1 /\ crashes' = crashes
                 => faults' \in Nat /\ crashes' \in Nat /\ faults' + crashes' = faults + crashes + 1
                    /\ faults' # 0
           /\ faults' = faults /\ crashes' = crashes + 1
                 => faults' \in Nat /\ crashes' \in Nat /\ faults' + crashes' = faults + crashes + 1
                    /\ crashes' # crashes
BY DEF TypeOK, RunTypeOK

LEMMA FailedFlushing ==
    ASSUME TypeOK, FlushFails \/ CloseFails, faults' = faults + 1, crashes' = crashes
    PROVE  Harmful /\ faults' # 0
BY OneMore, FlushFailsFacts, CloseFailsFacts DEF TypeOK, Harmful

LEMMA Emitting ==
    ASSUME TypeOK, NEW c \in Collectors, Emit(c)
    PROVE  /\ Harmless \/ Harmful
           /\ faults' = 0 => \A j \in Keys \ {KeyOf[c]} : pending[j] = <<>> => pending'[j] = <<>>
           /\ faults' = 0 => faults = 0
           /\ UNCHANGED <<runVars, raises, crashes>>
           /\ faults' \in Nat
<1>1. SinkTypeOK /\ KeyOf[c] \in Keys /\ faults \in Nat
  BY KeysAssumption DEF TypeOK, RunTypeOK
<1>2. UNCHANGED <<runVars, raises, crashes>>
  BY DEF Emit
<1>3. CASE Write(KeyOf[c]) /\ faults' = faults
  BY <1>1, <1>2, <1>3, WriteFacts DEF Harmless
<1>4. CASE faults' = faults + 1 /\ WriteFails(KeyOf[c])
  BY <1>1, <1>2, <1>4, OneMore, WriteFailsFacts DEF Harmful
<1>. QED  BY <1>3, <1>4 DEF Emit, Try

-----------------------------------------------------------------------------
(***************************************************************************)
(* The invariant                                                           *)
(***************************************************************************)
LEMMA InitInv == Init => IInv
<1>. SUFFICES ASSUME Init PROVE IInv
  OBVIOUS
<1>. USE DEF Init, SinkInit, Fresh
<1>1. SinkTypeOK
  BY RowsAssumption, EmptySeq DEF SinkTypeOK
<1>2. TypeOK
  BY <1>1 DEF TypeOK, RunTypeOK, Tasks
<1>3. StoppedIsDone
  BY DEF StoppedIsDone
<1>4. StoppedMeansStored
  BY DEF StoppedMeansStored
<1>5. ASSUME NEW k \in Keys
      PROVE  LineInv(k, faults + crashes)
  <2>1. Stream(k) = <<>> /\ written[k] = 0 /\ hit[k] = {}
    BY DEF Stream
  <2>2. Broken(<<>>, 0, {}) = {} /\ ~Torn(<<>>)
    BY DEF Broken, Torn
  <2>3. Lines(<<>>, 0, {}, 0)
    <3>1. Len(<<>>) = 0 /\ 1 .. 0 = {}
      OBVIOUS
    <3>2. Cardinality(Broken(<<>>, 0, {})) + (IF Torn(<<>>) THEN 1 ELSE 0) <= 0
      <4>1. Cardinality(Broken(<<>>, 0, {})) = 0
        BY <2>2, FS_EmptySet
      <4>2. (IF Torn(<<>>) THEN 1 ELSE 0) = 0
        BY <2>2
      <4>. QED  BY <4>1, <4>2
    <3>3. \A i \in 1 .. Len(<<>>) : FALSE
      BY <3>1
    <3>. QED  BY <3>2, <3>3 DEF Lines
  <2>. QED  BY <2>1, <2>3 DEF LineInv
<1>. QED  BY <1>2, <1>3, <1>4, <1>5 DEF IInv, DamageInv

LEMMA StepInv == IInv /\ [Next]_vars => IInv'
<1>. SUFFICES ASSUME IInv, [Next]_vars PROVE IInv'
  OBVIOUS
<1>1. TypeOK /\ StoppedIsDone /\ StoppedMeansStored /\ DamageInv /\ SinkTypeOK /\ RunTypeOK
  BY DEF IInv, TypeOK
<1>2. SUFFICES /\ Harmless \/ Harmful
               /\ RunTypeOK' /\ StoppedIsDone' /\ StoppedMeansStored'
  BY <1>1, SinkStep DEF IInv, TypeOK
<1>. USE <1>1
<1>3. CASE UNCHANGED vars \/ Finished
  <2>1. UNCHANGED vars
    BY <1>3 DEF Finished
  <2>2. UNCHANGED <<sinkVars, faults, crashes>>
    BY <2>1 DEF vars, sinkVars
  <2>. QED  BY <2>1, <2>2, Quiet DEF vars, RunTypeOK, StoppedIsDone, StoppedMeansStored
<1>4. ASSUME NEW c \in Collectors, Begin(c) \/ NeverBegins(c) \/ WorkStops(c) \/ WorkCancelled(c)
                                    \/ TasksEnd(c) \/ WorkBeats(c) \/ WorkRaises(c) \/ Heartbeat(c)
      PROVE  /\ Harmless \/ Harmful
             /\ RunTypeOK' /\ StoppedIsDone' /\ StoppedMeansStored'
  <2>1. UNCHANGED <<sinkVars, faults, crashes>>
    BY <1>4 DEF Begin, NeverBegins, WorkStops, WorkCancelled, TasksEnd, WorkBeats, WorkRaises,
                Heartbeat, WorkEnds
  <2>2. Harmless /\ pending' = pending /\ faults' = faults
    BY <2>1, Quiet
  <2>3. RunTypeOK'
    <3>1. CASE Begin(c) \/ NeverBegins(c) \/ TasksEnd(c)
      BY <2>1, <3>1 DEF RunTypeOK, Begin, NeverBegins, TasksEnd, SetPhase, Beat, Tasks
    <3>2. CASE WorkBeats(c) \/ Heartbeat(c)
      BY <2>1, <3>2 DEF RunTypeOK, WorkBeats, Heartbeat, Beat
    <3>3. CASE WorkStops(c) \/ WorkCancelled(c) \/ WorkRaises(c)
      <4>1. /\ phase' = [phase EXCEPT ![c] = "teardown"]
            /\ children' = [children EXCEPT ![c] = {}]
            /\ ending' = [ending EXCEPT ![c] = Tasks]
            /\ UNCHANGED <<main, stop, beat, faults, crashes>>
        BY <3>3 DEF RunTypeOK, WorkStops, WorkCancelled, WorkRaises, WorkEnds, SetPhase, Tasks,
                    TornDown
      <4>2. raised' \subseteq Collectors /\ raises' \in Nat
        BY <3>3 DEF RunTypeOK, WorkStops, WorkCancelled, WorkRaises
      <4>. QED  BY <4>1, <4>2 DEF RunTypeOK, Tasks
    <3>. QED  BY <1>4, <3>1, <3>2, <3>3
  <2>4. /\ \A b \in Collectors : beat'[b] = "stopped" => beat[b] = "stopped"
        /\ \A b \in Collectors : beat'[b] = "stopped" => phase'[b] = "done"
    BY <1>4 DEF RunTypeOK, StoppedIsDone, Begin, NeverBegins, WorkStops, WorkCancelled, TasksEnd,
                WorkBeats, WorkRaises, Heartbeat, WorkEnds, SetPhase, Beat
  <2>. QED  BY <2>2, <2>3, <2>4 DEF StoppedIsDone, StoppedMeansStored
<1>5. ASSUME NEW c \in Collectors, Emit(c)
      PROVE  /\ Harmless \/ Harmful
             /\ RunTypeOK' /\ StoppedIsDone' /\ StoppedMeansStored'
  <2>1. /\ Harmless \/ Harmful
        /\ faults' = 0 => \A j \in Keys \ {KeyOf[c]} : pending[j] = <<>> => pending'[j] = <<>>
        /\ faults' = 0 => faults = 0
        /\ UNCHANGED <<runVars, raises, crashes>>
        /\ faults' \in Nat
    BY <1>5, Emitting
  <2>2. beat[c] # "stopped"
    BY <1>5 DEF Emit, StoppedIsDone
  <2>3. RunTypeOK' /\ StoppedIsDone'
    BY <2>1 DEF RunTypeOK, StoppedIsDone, runVars
  <2>4. StoppedMeansStored'
    BY <2>1, <2>2 DEF StoppedMeansStored, runVars
  <2>. QED  BY <2>1, <2>3, <2>4
<1>6. ASSUME NEW c \in Collectors, IdleFlush(c) \/ IdleFlushFails(c)
      PROVE  /\ Harmless \/ Harmful
             /\ RunTypeOK' /\ StoppedIsDone' /\ StoppedMeansStored'
  <2>1. UNCHANGED <<runVars, raises, crashes>>
    BY <1>6 DEF IdleFlush, IdleFlushFails
  <2>2. \/ Harmless /\ faults' = faults /\ \A k \in Keys : pending'[k] = <<>>
        \/ Harmful /\ faults' # 0 /\ faults' \in Nat
    <3>1. CASE IdleFlush(c)
      BY <3>1, Flushing DEF IdleFlush
    <3>2. CASE IdleFlushFails(c)
      BY <2>1, <3>2, FailedFlushing DEF IdleFlushFails, Harmful
    <3>. QED  BY <1>6, <3>1, <3>2
  <2>. QED  BY <2>1, <2>2 DEF RunTypeOK, StoppedIsDone, StoppedMeansStored, runVars
<1>7. ASSUME NEW c \in Collectors, LastFlush(c)
      PROVE  /\ Harmless \/ Harmful
             /\ RunTypeOK' /\ StoppedIsDone' /\ StoppedMeansStored'
  <2>1. /\ phase[c] = "teardown" /\ ending[c] = {}
        /\ phase' = [phase EXCEPT ![c] = "done"] /\ beat' = [beat EXCEPT ![c] = "stopped"]
        /\ UNCHANGED <<main, stop, children, ending, raised, raises, crashes>>
    BY <1>7 DEF LastFlush, SetPhase, Beat
  <2>2. \/ Harmless /\ faults' = faults /\ \A k \in Keys : pending'[k] = <<>>
        \/ Harmful /\ faults' # 0 /\ faults' \in Nat
    BY <1>7, <2>1, Flushing, FailedFlushing DEF LastFlush, Try, Harmful
  <2>3. RunTypeOK'
    BY <2>1, <2>2 DEF RunTypeOK
  <2>4. StoppedIsDone'
    BY <2>1 DEF StoppedIsDone, RunTypeOK
  <2>5. StoppedMeansStored'
    BY <2>2 DEF StoppedMeansStored
  <2>. QED  BY <2>2, <2>3, <2>4, <2>5
<1>8. CASE MainCloses
  <2>1. main' = "closed" /\ UNCHANGED <<stop, mainVars, raises, crashes>>
    BY <1>8 DEF MainCloses
  <2>2. \/ Harmless /\ faults' = faults /\ \A k \in Keys : pending'[k] = <<>>
        \/ Harmful /\ faults' # 0 /\ faults' \in Nat
    BY <1>8, <2>1, Flushing, FailedFlushing DEF MainCloses, Try, Harmful
  <2>. QED  BY <2>1, <2>2 DEF RunTypeOK, StoppedIsDone, StoppedMeansStored, mainVars
<1>9. CASE CancelAll \/ Exit \/ RequestStop \/ Interrupt
  <2>1. UNCHANGED <<sinkVars, faults, crashes, mainVars>>
    BY <1>9 DEF CancelAll, Exit, RequestStop, Interrupt
  <2>2. Harmless /\ pending' = pending /\ faults' = faults
    BY <2>1, Quiet
  <2>3. RunTypeOK'
    BY <1>9, <2>1 DEF RunTypeOK, CancelAll, Exit, RequestStop, Interrupt, mainVars
  <2>. QED  BY <2>1, <2>2, <2>3 DEF StoppedIsDone, StoppedMeansStored, mainVars
<1>10. CASE Crash
  <2>1. /\ SinkCrash /\ UNCHANGED <<faults, raises>> /\ crashes' = crashes + 1
        /\ main' = "gather" /\ stop' = {} /\ raised' = {}
        /\ phase' = [c \in Collectors |-> "new"] /\ beat' = [c \in Collectors |-> "none"]
        /\ children' = [c \in Collectors |-> {}] /\ ending' = [c \in Collectors |-> {}]
    BY <1>10 DEF Crash, Fresh
  <2>2. SinkTypeOK' /\ \A j \in Keys : Cut(j) /\ pending'[j] = <<>>
    BY <2>1, CrashFacts
  <2>3. Harmful
    BY <2>1, <2>2, OneMore DEF Harmful
  <2>4. RunTypeOK' /\ StoppedIsDone'
    BY <2>1, <2>3 DEF RunTypeOK, StoppedIsDone, Harmful
  <2>. QED  BY <2>2, <2>3, <2>4 DEF StoppedMeansStored
<1>. QED
  BY <1>3, <1>4, <1>5, <1>6, <1>7, <1>8, <1>9, <1>10
     DEF Next, Main, Lifecycle, Work, Background

-----------------------------------------------------------------------------
(***************************************************************************)
(* The theorems                                                            *)
(***************************************************************************)
\* What every state of the runner and its sink satisfies; the properties below
\* follow from it (_run_lifecycle, main, JsonlSink).
THEOREM Invariant == Spec => []IInv
BY InitInv, StepInv, PTL DEF Spec

\* The state of the runner keeps its types: a task of a collector runs only while
\* its work does and is being ended only in the tear-down, and only an open handle
\* has a buffer that holds rows (base.py, sinks.py).
THEOREM TypeCorrect == Spec => []TypeOK
<1>1. IInv => TypeOK
  BY DEF IInv
<1>. QED  BY <1>1, Invariant, PTL

\* When the collectors that write to a key have said "stopped", and no I/O has
\* failed, its rows are in the file, however the ends of the collectors, the
\* closing of the sink and the interrupts interleave (_run_lifecycle).
THEOREM StoppedIsStored == Spec => []StoppedMeansStored
<1>1. IInv => StoppedMeansStored
  BY DEF IInv
<1>. QED  BY <1>1, Invariant, PTL

\* A crash or failure costs at most one row besides those that were in the buffer:
\* all other rows are lines of the file, in the order of the writes and once; and
\* without any, a flushed file can be read (JsonlSink, read_jsonl).
THEOREM DamageStaysLocal == Spec => []DamageIsLocal
<1>1. IInv => DamageIsLocal
  <2>. SUFFICES ASSUME IInv, NEW k \in Keys
                PROVE  /\ InOrder(k)
                       /\ Cardinality(Collateral(k)) <= crashes + faults
                       /\ (crashes + faults = 0 /\ pending[k] = <<>>) => ReadJsonl(k)
    BY DEF DamageIsLocal
  <2>1. SinkTypeOK /\ faults \in Nat /\ crashes \in Nat /\ LineInv(k, faults + crashes)
    BY DEF IInv, TypeOK, RunTypeOK, DamageInv
  <2>2. faults + crashes \in Nat /\ faults + crashes = crashes + faults
    BY <2>1
  <2>. QED  BY <2>1, <2>2, LineInvMeans
<1>. QED  BY <1>1, Invariant, PTL

\* A collector that has said "stopped" beats no more while the process lives
\* (_run_lifecycle ends the heartbeat task first).
THEOREM StoppedIsTheLastBeat == Spec => StoppedIsLast
<1>1. IInv /\ [Next]_vars
      => [\A c \in Collectors : (beat[c] = "stopped" /\ crashes' = crashes)
                                    => beat'[c] = "stopped"]_vars
  <2>. SUFFICES ASSUME IInv, Next, NEW c \in Collectors,
                       beat[c] = "stopped", crashes' = crashes
                PROVE  beat'[c] = "stopped"
    BY DEF vars
  <2>1. /\ phase[c] = "done" /\ children[c] = {} /\ crashes \in Nat
        /\ beat \in [Collectors -> {"none", "starting", "up", "stopped"}]
    BY DEF IInv, StoppedIsDone, TypeOK, RunTypeOK
  <2>2. ASSUME NEW b \in Collectors, Lifecycle(b) \/ Work(b) \/ Background(b)
        PROVE  beat'[c] = "stopped"
    BY <2>1, <2>2 DEF Lifecycle, Work, Background, Begin, NeverBegins, WorkStops, WorkCancelled,
                      TasksEnd, LastFlush, Emit, WorkBeats, WorkRaises, IdleFlush,
                      IdleFlushFails, Heartbeat, WorkEnds, Beat, runVars
  <2>3. ~Crash
    BY <2>1, OneMore DEF Crash
  <2>4. CASE Main \/ RequestStop \/ Interrupt \/ Finished
    BY <2>4 DEF Main, MainCloses, CancelAll, Exit, RequestStop, Interrupt, Finished, mainVars,
                vars
  <2>. QED  BY <2>2, <2>3, <2>4 DEF Next
<1>. QED  BY <1>1, Invariant, PTL DEF Spec, StoppedIsLast

=============================================================================
