------------------------------- MODULE Runner -------------------------------
(***************************************************************************)
(* The example's main (examples/run_collectors.py) and the lifecycle every *)
(* collector runs in (Collector._run_lifecycle of base.py), on one         *)
(* JsonlSink: begin, work, the idle-flush and heartbeat tasks, the         *)
(* tear-down with its final flush, and the sink closed by main.            *)
(*                                                                         *)
(* Tasks interleave at awaits, so every action is atomic.  The work of a   *)
(* collector, modelled in KalshiWS, Discovery and Settlement, is here what *)
(* it does to the sink and to the heartbeat: it writes rows and beats      *)
(* until it has noticed stop, raises or is cancelled.  A crash ends the    *)
(* process; the next one runs main again on the same directory.            *)
(***************************************************************************)
EXTENDS JsonlSink, FiniteSets

CONSTANTS
    Collectors,
    KeyOf,       \* the key each collector writes to
    MaxDamage,   \* bound: I/O failures and crashes
    MaxRaises    \* bound: exceptions the work does not catch, interrupts

ASSUME KeysAssumption == KeyOf \in [Collectors -> Keys]
ASSUME BoundAssumption == {MaxDamage, MaxRaises} \subseteq Nat

VARIABLES
    main,      \* how far main() and asyncio.run have got
    stop,      \* the collectors whose _stop is set
    phase,     \* collector -> how far its run() has got
    children,  \* collector -> its tasks that run
    ending,    \* collector -> its tasks that were cancelled and have not ended
    beat,      \* collector -> its last heartbeat
    raised,    \* the collectors whose run() ends with an exception
    faults, raises, crashes

runVars == <<main, stop, phase, children, ending, beat, raised>>
vars == <<handles, pending, file, written, hit, main, stop, phase, children,
          ending, beat, raised, faults, raises, crashes>>

Tasks == {"flush", "beat"}

Fresh ==
    [main     |-> "gather",
     phase    |-> [c \in Collectors |-> "new"],
     children |-> [c \in Collectors |-> {}],
     beat     |-> [c \in Collectors |-> "none"]]

Init ==
    /\ SinkInit
    /\ main = "gather" /\ stop = {} /\ raised = {}
    /\ phase = Fresh.phase /\ beat = Fresh.beat
    /\ children = Fresh.children /\ ending = Fresh.children
    /\ faults = 0 /\ raises = 0 /\ crashes = 0

\* A sink operation, or its failure.
Try(ok, fails) ==
    \/ ok /\ UNCHANGED faults
    \/ faults + crashes < MaxDamage /\ faults' = faults + 1 /\ fails

SetPhase(c, p) == phase' = [phase EXCEPT ![c] = p]
Beat(c, status) == beat' = [beat EXCEPT ![c] = status]

-----------------------------------------------------------------------------
(***************************************************************************)
(* Collector._run_lifecycle                                                *)
(***************************************************************************)

\* The first step of run().
Begin(c) ==
    /\ phase[c] = "new" /\ main # "cancelled"
    /\ SetPhase(c, "work")
    /\ Beat(c, "starting")
    /\ children' = [children EXCEPT ![c] = Tasks]
    /\ UNCHANGED <<sinkVars, main, stop, ending, raised, faults, raises, crashes>>

\* A task that is cancelled before its first step never runs.
NeverBegins(c) ==
    /\ phase[c] = "new" /\ main = "cancelled"
    /\ SetPhase(c, "done")
    /\ UNCHANGED <<sinkVars, main, stop, children, ending, beat, raised, faults, raises,
                   crashes>>

\* _emit swallows what the sink raises.
Emit(c) ==
    /\ phase[c] = "work"
    /\ Try(Write(KeyOf[c]), WriteFails(KeyOf[c]))
    /\ UNCHANGED <<runVars, raises, crashes>>

\* "running" and "reconnecting" are both "up".
WorkBeats(c) ==
    /\ phase[c] = "work"
    /\ Beat(c, "up")
    /\ UNCHANGED <<sinkVars, main, stop, phase, children, ending, raised, faults, raises,
                   crashes>>

\* Variant for the checks: the task ends after one flush.
IdleFlushOnce(c) ==
    /\ "flush" \in children[c]
    /\ Flush
    /\ children' = [children EXCEPT ![c] = @ \ {"flush"}]
    /\ UNCHANGED <<main, stop, phase, ending, beat, raised, faults, raises, crashes>>

\* _idle_flush_loop
IdleFlush(c) ==
    /\ "flush" \in children[c]
    /\ Flush
    /\ UNCHANGED <<runVars, faults, raises, crashes>>

\* The loop goes on after an exception.
IdleFlushFails(c) ==
    /\ "flush" \in children[c]
    /\ faults + crashes < MaxDamage /\ faults' = faults + 1
    /\ FlushFails
    /\ UNCHANGED <<runVars, raises, crashes>>

\* _heartbeat_loop
Heartbeat(c) ==
    /\ "beat" \in children[c]
    /\ Beat(c, "up")
    /\ UNCHANGED <<sinkVars, main, stop, phase, children, ending, raised, faults, raises,
                   crashes>>

\* Variant: the heartbeat task is forgotten.
TornDownFlush == {"flush"}

\* The tasks that the tear-down cancels and awaits.
TornDown == {"flush", "beat"}

\* The work is over and the tasks are cancelled.
WorkEnds(c) ==
    /\ phase[c] = "work"
    /\ SetPhase(c, "teardown")
    /\ children' = [children EXCEPT ![c] = @ \ TornDown]
    /\ ending' = [ending EXCEPT ![c] = TornDown]
    /\ UNCHANGED <<sinkVars, main, stop, beat, faults, crashes>>

WorkStops(c)  == c \in stop /\ WorkEnds(c) /\ UNCHANGED <<raised, raises>>

WorkRaises(c) ==
    /\ raises < MaxRaises /\ raises' = raises + 1
    /\ raised' = raised \cup {c}
    /\ WorkEnds(c)

WorkCancelled(c) ==
    /\ main \in {"interrupted", "cancelled"}
    /\ raised' = raised \cup {c}
    /\ WorkEnds(c) /\ UNCHANGED raises

TasksEnd(c) ==
    /\ ending[c] # {}
    /\ ending' = [ending EXCEPT ![c] = {}]
    /\ UNCHANGED <<sinkVars, main, stop, phase, children, beat, raised, faults, raises,
                   crashes>>

\* Variant: nothing is flushed.
LastFlushMissing(c) ==
    /\ phase[c] = "teardown" /\ ending[c] = {}
    /\ SetPhase(c, "done")
    /\ Beat(c, "stopped")
    /\ UNCHANGED <<sinkVars, main, stop, children, ending, raised, faults, raises, crashes>>

\* The final flush, whose failure is swallowed, and the last beat.
LastFlush(c) ==
    /\ phase[c] = "teardown" /\ ending[c] = {}
    /\ SetPhase(c, "done")
    /\ Beat(c, "stopped")
    /\ Try(Flush, FlushFails)
    /\ UNCHANGED <<main, stop, children, ending, raised, raises, crashes>>

-----------------------------------------------------------------------------
(***************************************************************************)
(* main and asyncio.run                                                    *)
(***************************************************************************)
mainVars == <<phase, children, ending, beat, raised>>

\* Variant: one collector is not told.
RequestStopButOne ==
    /\ stop = {} /\ main # "exited"
    /\ stop' = Collectors \ {CHOOSE c \in Collectors : TRUE}
    /\ UNCHANGED <<sinkVars, main, mainVars, faults, raises, crashes>>

\* request_stop, the handler of SIGINT and SIGTERM
RequestStop ==
    /\ stop = {} /\ main # "exited"
    /\ stop' = Collectors
    /\ UNCHANGED <<sinkVars, main, mainVars, faults, raises, crashes>>

\* Without signal handlers, asyncio.run cancels main and so the gather.
Interrupt ==
    /\ main = "gather" /\ raises < MaxRaises
    /\ raises' = raises + 1
    /\ main' = "interrupted"
    /\ UNCHANGED <<sinkVars, stop, mainVars, faults, crashes>>

\* gather returns when all are done, or raises when the first of them raises or
\* is cancelled; then the sink is closed, whatever the others do.
MainCloses ==
    /\ main \in {"gather", "interrupted"}
    /\ \/ \A c \in Collectors : phase[c] = "done"
       \/ \E c \in raised : phase[c] = "done"
    /\ main' = "closed"
    /\ Try(Close, CloseFails)
    /\ UNCHANGED <<stop, mainVars, raises, crashes>>

\* asyncio.run cancels the tasks that are left, and waits for them.
CancelAll ==
    /\ main = "closed"
    /\ main' = "cancelled"
    /\ UNCHANGED <<sinkVars, stop, mainVars, faults, raises, crashes>>

Exit ==
    /\ main = "cancelled" /\ \A c \in Collectors : phase[c] = "done"
    /\ main' = "exited"
    /\ UNCHANGED <<sinkVars, stop, mainVars, faults, raises, crashes>>

Crash ==
    /\ faults + crashes < MaxDamage /\ crashes' = crashes + 1
    /\ SinkCrash
    /\ main' = "gather" /\ stop' = {} /\ raised' = {}
    /\ phase' = Fresh.phase /\ beat' = Fresh.beat
    /\ children' = Fresh.children /\ ending' = Fresh.children
    /\ UNCHANGED <<faults, raises>>

Finished == main = "exited" /\ UNCHANGED vars

Lifecycle(c) == Begin(c) \/ NeverBegins(c) \/ WorkStops(c) \/ WorkCancelled(c)
                \/ TasksEnd(c) \/ LastFlush(c)
Work(c) == Emit(c) \/ WorkBeats(c) \/ WorkRaises(c)
Background(c) == IdleFlush(c) \/ IdleFlushFails(c) \/ Heartbeat(c)
Main == MainCloses \/ CancelAll \/ Exit

Next == \/ Main \/ RequestStop \/ Interrupt \/ Crash \/ Finished
        \/ \E c \in Collectors : Lifecycle(c) \/ Work(c) \/ Background(c)

Spec == Init /\ [][Next]_vars

\* The event loop runs what is ready, and the work of a collector ends after
\* stop (StopTerminates of KalshiWS); nothing has to be written or to fail.
FairSpec ==
    /\ Spec
    /\ WF_vars(Main \/ \E c \in Collectors : Lifecycle(c))
    /\ WF_vars(\E c \in Collectors : IdleFlush(c))

-----------------------------------------------------------------------------
RunTypeOK ==
    /\ main \in {"gather", "interrupted", "closed", "cancelled", "exited"}
    /\ stop \subseteq Collectors /\ raised \subseteq Collectors
    /\ phase \in [Collectors -> {"new", "work", "teardown", "done"}]
    /\ children \in [Collectors -> SUBSET Tasks]
    /\ ending \in [Collectors -> SUBSET Tasks]
    /\ \A c \in Collectors : /\ ending[c] # {} => phase[c] = "teardown"
                             /\ children[c] # {} => phase[c] = "work"
    /\ beat \in [Collectors -> {"none", "starting", "up", "stopped"}]
    /\ faults \in Nat /\ raises \in Nat /\ crashes \in Nat

TypeOK == SinkTypeOK /\ RunTypeOK

\* Every row that is neither in the buffer nor was there in a crash or failure
\* is a line of its own in the file, in the order of the writes and once, but
\* for at most one row per crash or failure: the one that was written behind
\* what was left of a line (JsonlSink appends to the file it finds).  Until then
\* a flushed file can be read.
DamageIsLocal ==
    \A k \in Keys :
        /\ InOrder(k)
        /\ Cardinality(Collateral(k)) <= crashes + faults
        /\ (crashes + faults = 0 /\ pending[k] = <<>>) => ReadJsonl(k)

\* After "stopped" a collector beats no more: the heartbeat task has ended by then
\* (_run_lifecycle).
StoppedIsLast ==
    [][\A c \in Collectors : (beat[c] = "stopped" /\ crashes' = crashes)
                                => beat'[c] = "stopped"]_vars

\* When the collectors that write to a key have said that they stopped, its rows
\* are in the file, also when the sink was closed before the last of them were
\* written; so they are when asyncio.run returns.
StoppedMeansStored ==
    \A k \in Keys :
        (faults = 0 /\ \A c \in Collectors : KeyOf[c] = k => beat[c] = "stopped")
            => pending[k] = <<>>

\* No row stays in the buffer of its handle for as long as the process runs.
RowsReachFile == \A k \in Keys : []<>(pending[k] = <<>> \/ main = "exited")

\* A stop request ends the process, unless a crash does.
StopEndsMain == []<>(main = "exited" \/ stop = {})

=============================================================================
