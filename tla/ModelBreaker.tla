---------------------------- MODULE ModelBreaker ----------------------------
(***************************************************************************)
(* What a circuit breaker promises of each model, whatever happens to the  *)
(* others in the same step: a circuit closes on a success, opens at the    *)
(* latest with the last of Threshold failures in a row, stays open until   *)
(* its cooldown is over, and is then on trial until an answer decides it.  *)
(***************************************************************************)
EXTENDS Naturals

CONSTANTS Models, Threshold

VARIABLES
    state,   \* of each model's circuit
    streak   \* its failures in a row, while the circuit is closed

breakers == <<state, streak>>

States == {"closed", "open", "elapsed", "half"}

Init ==
    /\ state = [m \in Models |-> "closed"]
    /\ streak = [m \in Models |-> 0]

Becomes(m, s, n) == state'[m] = s /\ streak'[m] = n

Succeed(m) == Becomes(m, "closed", 0)

\* A failure that is not the last straw.
Tolerate(m) ==
    /\ state[m] = "closed" /\ streak[m] + 1 < Threshold
    /\ Becomes(m, "closed", streak[m] + 1)

\* A failure, be it the last of a row, a rate limit or that of a trial.
Open(m) == Becomes(m, "open", 0)

CoolDown(m) == state[m] = "open" /\ Becomes(m, "elapsed", 0)

\* Somebody asks for the model, or a call of before the cooldown fails late.
BeginTrial(m) == state[m] = "elapsed" /\ Becomes(m, "half", 0)

Stay(m) == Becomes(m, state[m], streak[m])

Next ==
    /\ state' \in [Models -> States]
    /\ streak' \in [Models -> Nat]
    /\ \A m \in Models :
        \/ Succeed(m) \/ Tolerate(m) \/ Open(m)
        \/ CoolDown(m) \/ BeginTrial(m) \/ Stay(m)

Spec == Init /\ [][Next]_breakers
=============================================================================
