---------------------------- MODULE ApprovalGate ----------------------------
(***************************************************************************)
(* What an approval gate promises: nothing is carried out that was not     *)
(* proposed first, what was declined is never carried out, and what was    *)
(* carried out is not declined afterwards.                                 *)
(***************************************************************************)
CONSTANT Plans

VARIABLES proposed, applied, declined
gate == <<proposed, applied, declined>>

Init ==
    /\ proposed = {}
    /\ applied = {}
    /\ declined = {}

Propose(p) ==
    /\ proposed' = proposed \cup {p}
    /\ UNCHANGED <<applied, declined>>

Apply(p) ==
    /\ p \in proposed \ declined
    /\ applied' = applied \cup {p}
    /\ UNCHANGED <<proposed, declined>>

Decline(p) ==
    /\ p \in proposed \ applied
    /\ declined' = declined \cup {p}
    /\ UNCHANGED <<proposed, applied>>

Next == \E p \in Plans : Propose(p) \/ Apply(p) \/ Decline(p)

Spec == Init /\ [][Next]_gate
=============================================================================
