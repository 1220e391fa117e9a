---------------------------- MODULE DurableRuns ----------------------------
(***************************************************************************)
(* agent-factory's durable orchestration: calls of orchestrate.run, each   *)
(* in a thread of the generated service or a process of its command line,  *)
(* that share one checkpoint store.  A call reads the store once, at the   *)
(* start; what it writes and acts on later rests on what it read then.  It *)
(* may raise or die between any two steps.  A plan is named by the call    *)
(* that built it; a field that may hold none holds a set of at most one.  *)
(***************************************************************************)
CONSTANTS
    Calls,   \* each is made once
    Threads  \* thread_id values, one checkpoint file for each

ASSUME ThreadsAssumption == Threads # {}

VARIABLES
    spec,   \* the AgentSpec of the service, constant
    store,  \* the checkpoint of each thread: its status and plan
    run,    \* the locals of each call
    trail   \* the calls with a record in audit.jsonl
runVars == <<spec, store, run, trail>>

Checkpoint(status, plan) == [status |-> status, plan |-> plan]
Nothing == Checkpoint("absent", {})

Statuses == {"awaiting_approval", "complete", "blocked"}
Stages == {"new", "planning", "acting", "saving", "recording", "done", "dead"}

Unmade ==
    [at |-> "new", thread |-> CHOOSE t \in Threads : TRUE, carries |-> {}, result |-> Nothing,
     saved |-> FALSE, before |-> {}]

RunsInit ==
    /\ spec \in [hitl : BOOLEAN, checkpoint : BOOLEAN, audit : BOOLEAN]
    /\ store = [t \in Threads |-> Nothing]
    /\ run = [c \in Calls |-> Unmade]
    /\ trail = {}

Awaiting(t) == store[t].status = "awaiting_approval"

\* The calls whose result has reached the store, or would have.
Saved == {c \in Calls : run[c].saved}

\* The plans whose execution is in the store as complete.
Closed == UNION {run[c].carries : c \in {d \in Saved : run[d].result.status = "complete"}}

Step(c, r) ==
    /\ run' = [run EXCEPT ![c] = r]
    /\ UNCHANGED spec

-----------------------------------------------------------------------------
(* run: what it reads decides whether this is a re-reading, an approval, a *)
(* blocked task or a fresh plan.                                           *)

Called(c, t) ==
    /\ run[c].at = "new"
    /\ UNCHANGED <<store, trail>>

Begun(t, stage, carries, result) ==
    [at |-> stage, thread |-> t, carries |-> carries, result |-> result,
     saved |-> FALSE, before |-> Saved]

\* A pending plan is returned as it is to a call that does not approve it.
Reread(c, t) ==
    /\ Called(c, t)
    /\ Awaiting(t)
    /\ Step(c, Begun(t, "done", {}, Nothing))

\* A slip: any checkpoint with a plan is resumed.
ApproveAny(c, t) ==
    /\ Called(c, t)
    /\ store[t].plan # {}
    /\ Step(c, Begun(t, "acting", store[t].plan, Nothing))

\* An approval carries out the plan it finds, with the findings of its task.
Approve(c, t) ==
    /\ Called(c, t)
    /\ Awaiting(t)
    /\ Step(c, Begun(t, "acting", store[t].plan, Nothing))

\* A slip: the pending plan is not looked for.
StartAnyhow(c, t) ==
    /\ Called(c, t)
    /\ \/ Step(c, Begun(t, "planning", {}, Nothing))
       \/ Step(c, Begun(t, "saving", {}, Checkpoint("blocked", {})))

\* Anything else is a fresh run, an approval that finds nothing pending too:
\* the input guard stops it or it goes on to plan.
Start(c, t) ==
    /\ Called(c, t)
    /\ ~Awaiting(t)
    /\ \/ Step(c, Begun(t, "planning", {}, Nothing))
       \/ Step(c, Begun(t, "saving", {}, Checkpoint("blocked", {})))

\* A slip: the gate closes only behind the execution.
PlanUngated(c) ==
    /\ run[c].at = "planning"
    /\ Step(c, [run[c] EXCEPT !.at = "acting", !.carries = {c}])
    /\ UNCHANGED <<store, trail>>

\* build_plan, which may wait for a model; with hitl the plan is to be saved
\* as pending, without it the call acts at once.
Plan(c) ==
    /\ run[c].at = "planning"
    /\ IF spec.hitl
       THEN Step(c, [run[c] EXCEPT !.at = "saving", !.result = Checkpoint("awaiting_approval", {c})])
       ELSE Step(c, [run[c] EXCEPT !.at = "acting", !.carries = {c}])
    /\ UNCHANGED <<store, trail>>

-----------------------------------------------------------------------------
(* execute, store.save and _audit: each may take a while, and each may fail. *)

\* Tools have run and the answer is known.
Execute(c) ==
    /\ run[c].at = "acting"
    /\ Step(c, [run[c] EXCEPT !.at = "saving", !.result = Checkpoint("complete", run[c].carries)])
    /\ UNCHANGED <<store, trail>>

\* The file is replaced as a whole, whatever it holds by now.
Save(c) ==
    /\ run[c].at = "saving"
    /\ Step(c, [run[c] EXCEPT !.at = "recording", !.saved = TRUE])
    /\ store' = IF spec.hitl \/ spec.checkpoint
                THEN [store EXCEPT ![run[c].thread] = run[c].result]
                ELSE store
    /\ UNCHANGED trail

Record(c) ==
    /\ run[c].at = "recording"
    /\ Step(c, [run[c] EXCEPT !.at = "done"])
    /\ trail' = IF spec.audit THEN trail \cup {c} ELSE trail
    /\ UNCHANGED store

\* The process dies or the call raises: its locals are gone, files stay.
Die(c) ==
    /\ run[c].at \notin {"new", "done", "dead"}
    /\ Step(c, [run[c] EXCEPT !.at = "dead"])
    /\ UNCHANGED <<store, trail>>

Proceed(c) == Plan(c) \/ Execute(c) \/ Save(c) \/ Record(c) \/ Die(c)

RunsNext ==
    \E c \in Calls :
        \/ \E t \in Threads : Reread(c, t) \/ Approve(c, t) \/ Start(c, t)
        \/ Proceed(c)

RunsSpec == RunsInit /\ [][RunsNext]_runVars

-----------------------------------------------------------------------------
Checkpoints == [status : Statuses \cup {"absent"}, plan : SUBSET Calls]
Runs ==
    [at : Stages, thread : Threads, carries : SUBSET Calls, result : Checkpoints,
     saved : BOOLEAN, before : SUBSET Calls]

RunsTypeOK ==
    /\ spec \in [hitl : BOOLEAN, checkpoint : BOOLEAN, audit : BOOLEAN]
    /\ store \in [Threads -> Checkpoints]
    /\ run \in [Calls -> Runs]
    /\ trail \subseteq Calls

\* Once the execution of a plan is in the store as complete, no crash, late
\* write or repeated approval makes that plan wait for approval again, on
\* any thread (orchestrate.run: what it loads, what it saves and when).
ClosedPlansStayClosed == \A t \in Threads : Awaiting(t) => store[t].plan \cap Closed = {}

\* Two calls carry out the same plan only if they overlap or one of them died
\* first: a call made after the other's result was saved never repeats it
\* (the second approval of a plan, a service that retries it).
ActsOnceInTurn ==
    \A c, d \in Calls :
        c # d /\ run[c].carries \cap run[d].carries # {} => d \notin run[c].before

\* A pending plan gives way only to the call that carried it out, or to one
\* that had read the store before the plan was there: no call that could
\* have seen it throws it away (orchestrate.run: the fresh path's saves).
PendingPlansGiveWay ==
    [][\A t \in Threads, c \in Calls :
        Awaiting(t) /\ store'[t] # store[t] /\ run'[c].saved # run[c].saved =>
            \/ run[c].carries = store[t].plan
            \/ store[t].plan \cap run[c].before = {}]_runVars

\* What the gate's promise is about: plans put before a human, and the plans
\* that were acted on, when the agent's spec asks for a human.
RunGate == INSTANCE ApprovalGate WITH
        Plans <- Calls,
        proposed <- {c \in Saved : run[c].result.status = "awaiting_approval"},
        applied <- IF spec.hitl THEN UNION {run[c].carries : c \in Calls} ELSE {},
        declined <- {}

\* orchestrate.run keeps the promise of an approval gate: with hitl on, tools
\* run only on a plan that had been saved as pending first.
DurableRunsAreGated == RunGate!Spec
=============================================================================
