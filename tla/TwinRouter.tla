---------------------------- MODULE TwinRouter ----------------------------
(***************************************************************************)
(* persona-twin's model router: requests that share one circuit breaker    *)
(* and fail over along their plans, first past the models that are cooling *)
(* down and then, as a last resort, through those too.                     *)
(*                                                                         *)
(* Everything runs on one event loop, so a request is interrupted only     *)
(* while it awaits a provider or its client takes a token: an action goes  *)
(* from one await to the next.  A circuit is "open" while its cooldown     *)
(* runs and "elapsed" once it is over and nobody has looked; "half" is a   *)
(* circuit the code has closed for a trial that no answer has decided.     *)
(* Routing policy may be edited at any time (PUT /routing), so a plan is   *)
(* any order of the models that leaves the mock last or pins it first.     *)
(***************************************************************************)
EXTENDS Naturals, FiniteSets

CONSTANTS
    Models, Mock,  \* the registry; Mock never raises
    Requests,      \* each runs once
    Kind,          \* what each is: a structured question or a streamed chat
    Threshold      \* FAILURE_THRESHOLD

ASSUME ModelsAssumption == IsFiniteSet(Models) /\ Models \ {Mock} # {}
ASSUME KindAssumption == Kind \in [Requests -> {"structured", "stream"}]
ASSUME ThresholdAssumption == Threshold \in Nat \ {0}

VARIABLES
    offered,   \* the models of the configured providers
    failures,  \* CircuitBreaker._failures, 0 when absent
    circuit,   \* CircuitBreaker._open_until, abstracted
    request    \* the locals of each request

breaker == <<failures, circuit>>
vars == <<offered, failures, circuit, request>>

Circuits == {"closed", "half", "open", "elapsed"}
\* An answer, a second misfit and a client's departure leave the same behind.
Ends == {"done", "exhausted", "cut"}

Last == Cardinality(offered)

\* The orders of each set of models: every model has its one place.
OrdersOf ==
    [S \in SUBSET Models |->
        {p \in [1..Cardinality(S) -> S] :
            \A m \in S : \E i \in 1..Cardinality(S) :
                p[i] = m /\ \A j \in 1..Cardinality(S) : p[j] = m => j = i}]

Orders == OrdersOf[offered]

\* A slip: the mock is sorted with the real models.
PlansUnsorted == Orders

Plans == {p \in Orders : \A i \in 1..Last : p[i] = Mock => i \in {1, Last}}

Fresh(p, attempt) ==
    [at |-> 0, pass |-> 1, plan |-> p, attempt |-> attempt,
     skipped |-> {}, failed |-> {}, trial |-> FALSE, sent |-> FALSE, state |-> "calling"]

Unborn == [Fresh(<<>>, 0) EXCEPT !.state = "new"]

\* A request that ended: its locals are gone, an error still names what failed.
Over(end) == [Unborn EXCEPT !.state = end]

Raised(end, q) == [Over(end) EXCEPT !.failed = q.failed]

Init ==
    /\ offered \in {Models, Models \ {Mock}}
    /\ failures = [m \in Models |-> 0]
    /\ circuit = [m \in Models |-> "closed"]
    /\ request = [r \in Requests |-> Unborn]

-----------------------------------------------------------------------------
(* The breaker: a value c of <<failures, circuit>> and what a call makes of it. *)

IsOpen(c, m) == c[2][m] = "open"

\* A slip: a trial starts from no failures.
LookedForgiving(c, m) ==
    IF c[2][m] = "elapsed" THEN <<[c[1] EXCEPT ![m] = 0], [c[2] EXCEPT ![m] = "half"]>> ELSE c

\* is_open's side effect on a circuit whose cooldown is over.
Looked(c, m) ==
    IF c[2][m] = "elapsed"
    THEN <<[c[1] EXCEPT ![m] = Threshold - 1], [c[2] EXCEPT ![m] = "half"]>>
    ELSE c

Counted(c, m) == <<[c[1] EXCEPT ![m] = @ + 1], c[2]>>

\* A slip: the threshold itself does not open the circuit.
FailedLate(c, m, limited) ==
    LET seen == Looked(Counted(c, m), m)
    IN  IF limited \/ seen[1][m] > Threshold
        THEN <<seen[1], [seen[2] EXCEPT ![m] = "open"]>>
        ELSE seen

\* The failure is counted before is_open looks at the clock.
Failed(c, m, limited) ==
    LET seen == Looked(Counted(c, m), m)
    IN  IF limited \/ seen[1][m] >= Threshold
        THEN <<seen[1], [seen[2] EXCEPT ![m] = "open"]>>
        ELSE seen

Succeeded(c, m) == <<[c[1] EXCEPT ![m] = 0], [c[2] EXCEPT ![m] = "closed"]>>

-----------------------------------------------------------------------------
(* From one await to the next: the two passes of complete and stream_complete. *)

Update(r, q, c) ==
    /\ request' = [request EXCEPT ![r] = q]
    /\ failures' = c[1]
    /\ circuit' = c[2]
    /\ UNCHANGED offered

Ahead(q) == (q.at + 1)..Last

\* The next model that is not cooling down; is_open half-opens an elapsed circuit.
CallHealthy(r, q, c) ==
    /\ q.pass = 1
    /\ \E n \in Ahead(q) :
        /\ ~IsOpen(c, q.plan[n])
        /\ \A i \in Ahead(q) : i < n => IsOpen(c, q.plan[i])
        /\ LET seen == Looked(c, q.plan[n])
               past == {q.plan[i] : i \in {j \in Ahead(q) : j < n}}
           IN  Update(r, [q EXCEPT !.at = n, !.skipped = @ \cup past,
                                   !.trial = seen[2][q.plan[n]] = "half"], seen)

\* A slip: the second pass goes on where the first one stopped.
TurnedInPlace(q, c) ==
    IF q.pass = 1
    THEN [q EXCEPT !.pass = 2, !.trial = FALSE,
                   !.skipped = @ \cup {q.plan[i] : i \in Ahead(q)}]
    ELSE q

\* The second pass begins when all that is left of the first is cooling down.
Turned(q, c) ==
    IF q.pass = 1
    THEN [q EXCEPT !.pass = 2, !.at = 0, !.trial = FALSE,
                   !.skipped = @ \cup {q.plan[i] : i \in Ahead(q)}]
    ELSE q

NoneHealthy(q, c) == q.pass = 1 => \A i \in Ahead(q) : IsOpen(c, q.plan[i])

\* Degraded beats dead: the skipped models are tried although they cool down.
CallSkipped(r, q, c) ==
    /\ NoneHealthy(q, c)
    /\ LET t == Turned(q, c)
       IN  \E n \in Ahead(t) :
            /\ t.plan[n] \in t.skipped
            /\ \A i \in Ahead(t) : i < n => t.plan[i] \notin t.skipped
            /\ Update(r, [t EXCEPT !.at = n], c)

\* AllProvidersFailedError
GiveUp(r, q, c) ==
    /\ NoneHealthy(q, c)
    /\ LET t == Turned(q, c)
       IN  /\ \A i \in Ahead(t) : t.plan[i] \notin t.skipped
           /\ Update(r, Raised("exhausted", t), c)

Proceed(r, q, c) == CallHealthy(r, q, c) \/ CallSkipped(r, q, c) \/ GiveUp(r, q, c)

-----------------------------------------------------------------------------
Calling(r) == request[r].state = "calling"

Asked(r) == request[r].plan[request[r].at]

Begin(r) ==
    /\ request[r].state = "new"
    /\ \E p \in Plans : Proceed(r, Fresh(p, 0), breaker)

\* The first token reaches the client.
Token(r) ==
    /\ Calling(r) /\ Kind[r] = "stream" /\ ~request[r].sent
    /\ Update(r, [request[r] EXCEPT !.sent = TRUE], breaker)

\* An error before any token was sent: the next model takes over.
FailOver(r) ==
    /\ Calling(r) /\ ~request[r].sent /\ Asked(r) # Mock
    /\ \E limited \in BOOLEAN :
        Proceed(r, [request[r] EXCEPT !.failed = @ \cup {Asked(r)}],
                Failed(breaker, Asked(r), limited))

\* An error after a token was sent ends the request.
CutOff(r) ==
    /\ Calling(r) /\ request[r].sent /\ Asked(r) # Mock
    /\ \E limited \in BOOLEAN :
        Update(r, Raised("cut", [request[r] EXCEPT !.failed = @ \cup {Asked(r)}]),
               Failed(breaker, Asked(r), limited))

Answer(r) ==
    /\ Calling(r)
    /\ Update(r, Over("done"), Succeeded(breaker, Asked(r)))

\* An answer that does not fit the schema is a success to the breaker and is asked for again.
Retry(r) ==
    /\ Calling(r) /\ Kind[r] = "structured" /\ request[r].attempt = 0
    /\ \E p \in Plans :
        Proceed(r, Fresh(p, 1), Succeeded(breaker, Asked(r)))

\* The second misfit ends the request.
Refuse(r) ==
    /\ Calling(r) /\ Kind[r] = "structured" /\ request[r].attempt = 1
    /\ Update(r, Over("done"), Succeeded(breaker, Asked(r)))

\* The client is gone: the task is cancelled, and nothing is recorded.
Leave(r) ==
    /\ Calling(r)
    /\ Update(r, Over("done"), breaker)

Elapse(m) ==
    /\ circuit[m] = "open"
    /\ circuit' = [circuit EXCEPT ![m] = "elapsed"]
    /\ UNCHANGED <<offered, failures, request>>

Next ==
    \/ \E r \in Requests :
        \/ Begin(r) \/ Token(r) \/ FailOver(r) \/ CutOff(r)
        \/ Answer(r) \/ Retry(r) \/ Refuse(r) \/ Leave(r)
    \/ \E m \in Models : Elapse(m)

Spec == Init /\ [][Next]_vars

-----------------------------------------------------------------------------
Positions ==
    [at : 0..Last, pass : 1..2, plan : Plans \cup {<<>>}, attempt : 0..1,
     skipped : SUBSET offered, failed : SUBSET offered, trial : BOOLEAN, sent : BOOLEAN,
     state : {"new", "calling"} \cup Ends]

\* Every value the router and the breaker keep has its type, and a request that
\* awaits a provider has a plan and a place in it.
TypeOK ==
    /\ offered \in {Models, Models \ {Mock}}
    /\ failures \in [Models -> Nat]
    /\ circuit \in [Models -> Circuits]
    /\ request \in [Requests -> Positions]
    /\ \A r \in Requests : Calling(r) => request[r].plan \in Plans /\ request[r].at \in 1..Last

\* A circuit the router may use is short of the threshold, and one that waits for
\* the answer to a trial is one failure short of it (breaker.py:50-79): no order of
\* late failures, successes and cooldowns leaves a model in use that should be open.
CircuitsFollowFailures ==
    \A m \in Models :
        /\ circuit[m] \in {"closed", "half"} => failures[m] < Threshold
        /\ circuit[m] = "half" => failures[m] = Threshold - 1

\* A request that gives up has tried every model there is, each once, and none of
\* them was the mock (router.py:125-160: "degraded beats dead").
NobodyGivesUpEarly ==
    \A r \in Requests :
        /\ request[r].state = "exhausted" => request[r].failed = offered \ {Mock} /\ Mock \notin offered
        /\ Calling(r) => Asked(r) \notin request[r].failed

\* The mock answers in a real model's place only when each of them has failed this
\* request or was cooling down, unless the policy pins it (registry.py:33-35), and a
\* model that cools down is asked only when all the others have been (router.py:122-133).
LastResortsComeLast ==
    \A r \in Requests :
        LET q == request[r]
        IN  Calling(r) =>
                /\ Asked(r) = Mock /\ q.at # 1 => q.failed \cup q.skipped = offered \ {Mock}
                /\ q.pass = 2 => q.failed \cup q.skipped = offered

Trying(r, m) == Calling(r) /\ request[r].trial /\ Asked(r) = m

\* A trial that fails opens its circuit again, unless another request's answer has
\* decided the circuit in the meantime (breaker.py:10-11, 70-79).
FailedTrialsReopen ==
    [][\A r \in Requests, m \in Models :
        /\ Trying(r, m) /\ circuit[m] = "half"
        /\ m \in request'[r].failed
        => circuit'[m] = "open"]_vars

\* What the breaker promises of a circuit whose cooldown is over: "one half-open
\* trial" (breaker.py:10-11), whichever requests arrive before its answer.
OneTrialAtATime ==
    \A r, s \in Requests, m \in Models : Trying(r, m) /\ Trying(s, m) => r = s

\* The failures in a row that a closed circuit stands for.
Streak == [m \in Models |-> IF circuit[m] = "closed" THEN failures[m] ELSE 0]

Breakers == INSTANCE ModelBreaker WITH state <- circuit, streak <- Streak

\* The one breaker that all requests share is a breaker per model: whatever other
\* requests do in between, each circuit goes its own way through failures, cooldown
\* and trial (breaker.py:1-14).
ImplementsBreakers == Breakers!Spec
=============================================================================
