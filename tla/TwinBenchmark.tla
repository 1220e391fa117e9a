--------------------------- MODULE TwinBenchmark ---------------------------
(***************************************************************************)
(* persona-twin's benchmark: one run at a time in a task of its own, which *)
(* measures a model at a task, appends the result and goes on, until it is *)
(* through, fails, or is stopped; what it has then is written to a file.   *)
(* Combinations that have a result are skipped unless a run is forced.     *)
(*                                                                         *)
(* The task is scheduled by POST /benchmark and runs later, on the same    *)
(* event loop; it is interrupted while it measures.  A run begins and ends *)
(* without an await, its file included.                                    *)
(***************************************************************************)
EXTENDS FiniteSets

CONSTANT Combos  \* a model, or an embedder, at a task

VARIABLES
    status,    \* BenchmarkRun.status
    task,      \* AppState.benchmark_task
    todo,      \* the combinations the run has yet to measure
    results,   \* BenchmarkRun.results
    saved,     \* the combinations with a result in the files of BenchmarkStore
    measured,  \* those that were ever measured
    lost,      \* those whose results a restart or an unwritable directory took
    forced     \* those that a forced run measures again

benchVars == <<status, task, todo, results, saved, measured, lost, forced>>

Alive == {"scheduled", "running", "cancelling"}

BenchInit ==
    /\ status = "idle" /\ task = "none"
    /\ todo = {} /\ results = {}
    /\ saved = {} /\ measured = {} /\ lost = {} /\ forced = {}

\* A slip: only a run that is through is written.
FiledWhenThrough(found, end) ==
    /\ saved' = saved \cup (IF end = "completed" THEN found ELSE {})
    /\ UNCHANGED lost

\* BenchmarkStore.save: an unwritable directory is only logged.
Filed(found, end) ==
    /\ saved' \in {saved, saved \cup found}
    /\ lost' = lost \cup (found \ saved')

\* The task is over: its end is noted, its results are written.
Finish(end, found) ==
    /\ status' = end
    /\ task' = "over"
    /\ results' = found
    /\ Filed(found, end)

\* From one measurement to the next.
GoOn(rest, found) ==
    /\ todo' = rest
    /\ IF rest = {}
       THEN Finish("completed", found)
       ELSE /\ task' = "running"
            /\ results' = found
            /\ UNCHANGED <<status, saved, lost>>

\* POST /benchmark
Post(selected, force) ==
    LET skip == IF force THEN {} ELSE selected \cap saved
    IN  /\ status # "running"
        /\ selected = {} \/ selected # skip
        /\ status' = "running"
        /\ task' = "scheduled"
        /\ todo' = selected \ skip
        /\ results' = {}
        /\ forced' = IF force THEN selected ELSE {}
        /\ UNCHANGED <<saved, measured, lost>>

\* The task's first step.
StartRun ==
    /\ task = "scheduled"
    /\ GoOn(todo, {})
    /\ UNCHANGED <<measured, forced>>

Measure(c) ==
    /\ task = "running"
    /\ c \in todo
    /\ GoOn(todo \ {c}, results \cup {c})
    /\ measured' = measured \cup {c}
    /\ UNCHANGED forced

\* The embedder or the store raises; a model that does not answer is a result.
FailRun ==
    /\ task = "running"
    /\ Finish("failed", results)
    /\ UNCHANGED <<todo, measured, forced>>

\* POST /benchmark/stop: a task that has not begun never will.
Stop ==
    /\ status = "running"
    /\ task' = IF task = "scheduled" THEN "over"
               ELSE IF task = "running" THEN "cancelling" ELSE task
    /\ UNCHANGED <<status, todo, results, saved, measured, lost, forced>>

Cancelled ==
    /\ task = "cancelling"
    /\ Finish("stopped", results)
    /\ UNCHANGED <<todo, measured, forced>>

RestartBench ==
    /\ status' = "idle" /\ task' = "none"
    /\ todo' = {} /\ results' = {} /\ forced' = {}
    /\ lost' = lost \cup (results \ saved)
    /\ UNCHANGED <<saved, measured>>

BenchNext ==
    \/ \E selected \in SUBSET Combos, force \in BOOLEAN : Post(selected, force)
    \/ StartRun \/ Stop \/ Cancelled \/ FailRun \/ RestartBench
    \/ \E c \in Combos : Measure(c)

BenchSpec == BenchInit /\ [][BenchNext]_benchVars

-----------------------------------------------------------------------------

BenchTypeOK ==
    /\ status \in {"idle", "running", "completed", "failed", "stopped"}
    /\ task \in {"none", "over"} \cup Alive
    /\ todo \subseteq Combos /\ results \subseteq Combos /\ saved \subseteq Combos
    /\ measured \subseteq Combos /\ lost \subseteq Combos /\ forced \subseteq Combos

\* A measurement, which took model calls to make, is in a file once no run is under
\* way, however the run that made it ended; unless a restart or the disk took it.
\* While its run lasts nothing is measured that a file has, unless it is forced.
ResultsAreKept ==
    /\ measured \subseteq saved \cup lost \cup (IF task \in Alive THEN results ELSE {})
    /\ task \in Alive => todo \cap saved \subseteq forced
=============================================================================
