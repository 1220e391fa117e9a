---------------------------- MODULE BurnrateTasks ----------------------------
(***************************************************************************)
(* burnrate's background tasks: each request for one pushes a job onto a   *)
(* Redis list and then drains it, in the one synchronous worker of its     *)
(* replica; the replicas share the list.  Redis may be gone for a while    *)
(* or answer too late, and a replica may be killed in any step.            *)
(*                                                                         *)
(* A request is named by its job.  The tasktiger backend pushes and pops   *)
(* as the redis one does.  Jobs are of registered tasks: delay checks it.  *)
(***************************************************************************)
EXTENDS Naturals, Sequences, FiniteSets

CONSTANTS
    Replicas,
    Jobs,
    NoJob,
    MaxJobs,   \* max_jobs of a drain
    MaxCuts    \* kills, outages and late answers

ASSUME TasksAssumption ==
    /\ IsFiniteSet(Replicas) /\ IsFiniteSet(Jobs) /\ NoJob \notin Jobs
    /\ MaxJobs \in Nat \ {0} /\ MaxCuts \in Nat

VARIABLES
    jobs,      \* the list under QUEUE_KEY
    redisUp,   \* whether Redis answers
    replica,   \* each one's backend and the request it serves
    told,      \* what the client of each request was told
    ran,       \* history: how often each job was run
    lost,      \* history: those that a kill, an outage or a late answer took
    cut,       \* history: the requests that were cut short
    cuts       \* kills, outages and late answers so far
taskVars == <<jobs, redisUp, replica, told, ran, lost, cut, cuts>>

Answers == {"nothing", "waiting", "error", "result", "deferred"}

\* at: free, pushing its own job, or popping or running one in hand.
Booted == [backend |-> "unknown", at |-> "free", own |-> NoJob, hand |-> NoJob, done |-> 0]

TasksInit ==
    /\ jobs = <<>>
    /\ redisUp \in BOOLEAN
    /\ replica = [r \in Replicas |-> Booted]
    /\ told = [j \in Jobs |-> "nothing"]
    /\ ran = [j \in Jobs |-> 0]
    /\ lost = {} /\ cut = {} /\ cuts = 0

Becomes(r, record) == replica' = [replica EXCEPT ![r] = record]

Free(r) == [Booted EXCEPT !.backend = replica[r].backend]

Tells(r, answer) == told' = [told EXCEPT ![replica[r].own] = answer]

\* The request ends with answer.
Ends(r, answer) == Becomes(r, Free(r)) /\ Tells(r, answer)

\* It is cut short.
CutShort(r) == cut' = cut \cup {replica[r].own}

-----------------------------------------------------------------------------
\* backend(): probed once and remembered.
Probed(r) ==
    IF replica[r].backend # "unknown" THEN replica[r].backend
    ELSE IF redisUp THEN "redis" ELSE "inline"

\* delay without Redis: the request runs its job at once.
RunInline(r, j) ==
    /\ replica[r].at = "free" /\ told[j] = "nothing" /\ Probed(r) = "inline"
    /\ Becomes(r, [Booted EXCEPT !.backend = "inline"])
    /\ told' = [told EXCEPT ![j] = "result"]
    /\ ran' = [ran EXCEPT ![j] = @ + 1]
    /\ UNCHANGED <<jobs, redisUp, lost, cut, cuts>>

\* delay with Redis.
Delay(r, j) ==
    /\ replica[r].at = "free" /\ told[j] = "nothing" /\ Probed(r) = "redis"
    /\ Becomes(r, [Booted EXCEPT !.backend = "redis", !.at = "pushing", !.own = j])
    /\ told' = [told EXCEPT ![j] = "waiting"]
    /\ UNCHANGED <<jobs, redisUp, ran, lost, cut, cuts>>

RPush(r) ==
    /\ replica[r].at = "pushing" /\ redisUp
    /\ jobs' = Append(jobs, replica[r].own)
    /\ Becomes(r, [replica[r] EXCEPT !.at = "popping"])
    /\ UNCHANGED <<redisUp, told, ran, lost, cut, cuts>>

\* Redis is gone.  The library, or an absent redis-cli, raises; a redis-cli that
\* cannot connect is not noticed.
RPushFails(r) ==
    /\ replica[r].at = "pushing" /\ ~redisUp
    /\ \/ Ends(r, "error")
       \/ Becomes(r, [replica[r] EXCEPT !.at = "popping"]) /\ UNCHANGED told
    /\ lost' = lost \cup {replica[r].own}
    /\ CutShort(r)
    /\ UNCHANGED <<jobs, redisUp, ran, cuts>>

-----------------------------------------------------------------------------
(* Worker.run. *)

\* A slip: the job stays in the list until it has been run.
LPopLater(r) ==
    /\ replica[r].at = "popping" /\ redisUp /\ jobs # <<>>
    /\ Becomes(r, [replica[r] EXCEPT !.at = "running", !.hand = Head(jobs)])
    /\ UNCHANGED <<jobs, redisUp, told, ran, lost, cut, cuts>>

LPop(r) ==
    /\ replica[r].at = "popping" /\ redisUp /\ jobs # <<>>
    /\ jobs' = Tail(jobs)
    /\ Becomes(r, [replica[r] EXCEPT !.at = "running", !.hand = Head(jobs)])
    /\ UNCHANGED <<redisUp, told, ran, lost, cut, cuts>>

\* _run and the count; after the last job of a drain the request is answered.
RunJob(r) ==
    /\ replica[r].at = "running"
    /\ ran' = [ran EXCEPT ![replica[r].hand] = @ + 1]
    /\ IF replica[r].done + 1 = MaxJobs
       THEN Ends(r, "deferred")
       ELSE /\ Becomes(r, [replica[r] EXCEPT !.at = "popping", !.hand = NoJob, !.done = @ + 1])
            /\ UNCHANGED told
    /\ UNCHANGED <<jobs, redisUp, lost, cut, cuts>>

\* A slip: the deadline is looked at before the list is.
LeaveAtDeadline(r) ==
    /\ replica[r].at = "popping" /\ redisUp
    /\ Ends(r, "deferred")
    /\ UNCHANGED <<jobs, redisUp, ran, lost, cut, cuts>>

\* The list is empty and the deadline has passed.
Leave(r) ==
    /\ replica[r].at = "popping" /\ redisUp /\ jobs = <<>>
    /\ Ends(r, "deferred")
    /\ UNCHANGED <<jobs, redisUp, ran, lost, cut, cuts>>

\* Redis is gone: an error, or what redis-cli's silence is taken for.
LeaveCut(r) ==
    /\ replica[r].at = "popping" /\ ~redisUp
    /\ \E answer \in {"error", "deferred"} : Ends(r, answer)
    /\ CutShort(r)
    /\ UNCHANGED <<jobs, redisUp, ran, lost, cuts>>

-----------------------------------------------------------------------------
(* gunicorn's timeout or the cluster kills a replica; Redis comes and goes. *)

\* What the killed replica had in hand is gone, as is what it remembered.
Kill(r) ==
    /\ cuts < MaxCuts
    /\ Becomes(r, Booted)
    /\ told' = [j \in Jobs |-> IF j = replica[r].own THEN "error" ELSE told[j]]
    /\ lost' = lost \cup ({replica[r].hand} \ {NoJob})
                    \cup (IF replica[r].at = "pushing" THEN {replica[r].own} ELSE {})
    /\ cut' = cut \cup ({replica[r].own} \ {NoJob})
    /\ cuts' = cuts + 1
    /\ UNCHANGED <<jobs, redisUp, ran>>

\* A command is carried out and its answer does not come in time.
Unanswered(r) ==
    /\ cuts < MaxCuts /\ redisUp
    /\ \/ /\ replica[r].at = "pushing"
          /\ jobs' = Append(jobs, replica[r].own)
          /\ UNCHANGED lost
       \/ /\ replica[r].at = "popping" /\ jobs # <<>>
          /\ jobs' = Tail(jobs)
          /\ lost' = lost \cup {Head(jobs)}
    /\ Ends(r, "error")
    /\ CutShort(r)
    /\ cuts' = cuts + 1
    /\ UNCHANGED <<redisUp, ran>>

\* The list survives.
Outage ==
    /\ cuts < MaxCuts /\ redisUp
    /\ redisUp' = FALSE /\ cuts' = cuts + 1
    /\ UNCHANGED <<jobs, replica, told, ran, lost, cut>>

Recover ==
    /\ ~redisUp
    /\ redisUp' = TRUE
    /\ UNCHANGED <<jobs, replica, told, ran, lost, cut, cuts>>

TasksNext ==
    \/ \E r \in Replicas, j \in Jobs : RunInline(r, j) \/ Delay(r, j)
    \/ \E r \in Replicas : RPush(r) \/ RPushFails(r) \/ LPop(r) \/ RunJob(r)
                           \/ Leave(r) \/ LeaveCut(r) \/ Kill(r) \/ Unanswered(r)
    \/ Outage \/ Recover

TasksSpec == TasksInit /\ [][TasksNext]_taskVars

-----------------------------------------------------------------------------
TasksTypeOK ==
    /\ jobs \in Seq(Jobs)
    /\ redisUp \in BOOLEAN
    /\ replica \in [Replicas -> [backend : {"unknown", "redis", "inline"},
                                 at : {"free", "pushing", "popping", "running"},
                                 own : Jobs \cup {NoJob}, hand : Jobs \cup {NoJob},
                                 done : 0..(MaxJobs - 1)]]
    /\ told \in [Jobs -> Answers]
    /\ ran \in [Jobs -> Nat]
    /\ lost \subseteq Jobs /\ cut \subseteq Jobs
    /\ cuts \in 0..MaxCuts

Queued == {jobs[i] : i \in DOMAIN jobs}
Held == {replica[r].hand : r \in Replicas} \ {NoJob}
Done == {j \in Jobs : ran[j] > 0}

\* Between the pop and the run a job is nowhere but in one worker (Worker.run):
\* whatever dies or fails, no job is run twice or waits after it was run, and one that
\* its client believes deferred waits, is in hand, was run, or fell to a kill,
\* an outage or a late answer.
JobsAreAccountedFor ==
    /\ \A j \in Jobs : ran[j] <= 1
    /\ Queued \cap Done = {} /\ Held \cap Done = {} /\ Queued \cap Held = {}
    /\ \A j \in Jobs : told[j] \in {"result", "deferred"} => j \in Queued \cup Held \cup Done \cup lost

\* Those that will look at the list again before they answer.
Draining ==
    {r \in Replicas : \/ replica[r].at = "popping"
                      \/ replica[r].at = "running" /\ replica[r].done + 1 < MaxJobs}

\* Nobody watches the list but the requests themselves: they leave no job behind
\* in it, except that each one that was cut short may leave one.
NoJobIsStranded == Len(jobs) <= Cardinality(Draining) + Cardinality(cut)

Queue == INSTANCE JobQueue WITH queue <- jobs, taken <- Held, runs <- ran

\* Between the replicas, whichever of them dies, hears nothing or finds Redis gone,
\* the list is one queue: jobs leave it in their order, each to one worker, and
\* what fell to a fault never turns up again (_rpush, _lpop, Worker.run).
ImplementsQueue == Queue!Spec
=============================================================================
