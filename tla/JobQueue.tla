------------------------------ MODULE JobQueue ------------------------------
(***************************************************************************)
(* What burnrate's job list promises: a job that was queued is handed out  *)
(* in its turn and to one worker, is run at most once, and a job that fell *)
(* to a fault is not heard of again.                                       *)
(***************************************************************************)
EXTENDS Naturals, Sequences

CONSTANT Jobs

VARIABLES
    queue,  \* the jobs that wait
    taken,  \* those that a worker has in hand
    runs,   \* how often each was run
    lost    \* those that were dropped on the way

places == <<queue, taken, runs, lost>>

Init ==
    /\ queue = <<>>
    /\ taken = {}
    /\ runs = [j \in Jobs |-> 0]
    /\ lost = {}

\* It has not been anywhere yet.
New(j) == j \notin taken \cup lost /\ runs[j] = 0 /\ \A i \in DOMAIN queue : queue[i] # j

RunAtOnce(j) ==
    /\ New(j)
    /\ runs' = [runs EXCEPT ![j] = 1]
    /\ UNCHANGED <<queue, taken, lost>>

Push(j) ==
    /\ New(j)
    /\ queue' = Append(queue, j)
    /\ UNCHANGED <<taken, runs, lost>>

PushFails(j) ==
    /\ New(j)
    /\ lost' = lost \cup {j}
    /\ UNCHANGED <<queue, taken, runs>>

Pop ==
    /\ queue # <<>>
    /\ queue' = Tail(queue)
    /\ \/ taken' = taken \cup {Head(queue)} /\ UNCHANGED lost
       \/ lost' = lost \cup {Head(queue)} /\ UNCHANGED taken
    /\ UNCHANGED runs

Finish(j) ==
    /\ j \in taken
    /\ taken' = taken \ {j}
    /\ runs' = [runs EXCEPT ![j] = 1]
    /\ UNCHANGED <<queue, lost>>

Abandon(j) ==
    /\ j \in taken
    /\ taken' = taken \ {j}
    /\ lost' = lost \cup {j}
    /\ UNCHANGED <<queue, runs>>

Next ==
    \/ \E j \in Jobs : RunAtOnce(j) \/ Push(j) \/ PushFails(j) \/ Finish(j) \/ Abandon(j)
    \/ Pop

Spec == Init /\ [][Next]_places
=============================================================================
