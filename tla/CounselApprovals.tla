-------------------------- MODULE CounselApprovals --------------------------
(***************************************************************************)
(* counsel's approval queue: proposals that wait for a human, who may      *)
(* decide twice, after another human, or after the queue was reset.  Every *)
(* method holds the queue's lock from its check to its last write, so each *)
(* is one step; what a client was told outlives the queue's entry.         *)
(***************************************************************************)
CONSTANT Proposals  \* ids, each drawn by uuid4 once

VARIABLES
    queue,  \* the status of each entry of _items, "absent" without one
    told    \* the decisions that were answered: <<id, status>>
queueVars == <<queue, told>>

QueueInit ==
    /\ queue = [p \in Proposals |-> "absent"]
    /\ told = {}

\* An id that was drawn before is not drawn again.
Propose(p) ==
    /\ <<p, "pending">> \notin told
    /\ queue' = [queue EXCEPT ![p] = "pending"]
    /\ told' = told \cup {<<p, "pending">>}

\* A slip: a decision is final only against the same decision.
DecideUnlessSame(p, status) ==
    /\ queue[p] \notin {"absent", status}
    /\ queue' = [queue EXCEPT ![p] = status]
    /\ told' = told \cup {<<p, status>>}

\* An id that is unknown (404) or decided (409) changes nothing.
Decide(p, status) ==
    /\ queue[p] = "pending"
    /\ queue' = [queue EXCEPT ![p] = status]
    /\ told' = told \cup {<<p, status>>}

QueueReset ==
    /\ queue' = [p \in Proposals |-> "absent"]
    /\ UNCHANGED told

QueueNext ==
    \/ \E p \in Proposals : Propose(p) \/ \E s \in {"applied", "declined"} : Decide(p, s)
    \/ QueueReset

QueueSpec == QueueInit /\ [][QueueNext]_queueVars

-----------------------------------------------------------------------------
QueueGate == INSTANCE ApprovalGate WITH
        Plans <- Proposals,
        proposed <- {p \in Proposals : <<p, "pending">> \in told},
        applied <- {p \in Proposals : <<p, "applied">> \in told},
        declined <- {p \in Proposals : <<p, "declined">> \in told}

\* counsel's queue keeps the promise of an approval gate through repeated
\* decisions and resets: nobody is told that a proposal was applied that was
\* not proposed, or that somebody else was told is declined.
CounselIsGated == QueueGate!Spec
=============================================================================
