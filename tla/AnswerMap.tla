----------------------------- MODULE AnswerMap -----------------------------
(***************************************************************************)
(* What a response cache promises to clients that share it: what is        *)
(* remembered of a request is the last answer somebody computed for that   *)
(* very request, whole, until it is forgotten; a client is served what is  *)
(* remembered at that moment, while it is fresh; and a client that was     *)
(* served never writes what it got back.                                   *)
(***************************************************************************)
CONSTANTS Keys, Computable, Clients

VARIABLES
    remembered,  \* remembered[k]: nothing, or one answer and whether it is old
    client       \* client[c]: nothing, or the request of c and what it was served
map == <<remembered, client>>

Remembering(a) == [answer |-> a, old |-> FALSE]
Requesting(k, served) == [key |-> k, served |-> served]

Init ==
    /\ remembered = [k \in Keys |-> {}]
    /\ client = [c \in Clients |-> {}]

Begin(c, k) ==
    /\ client[c] = {}
    /\ \E served \in {{}} \cup {{x.answer} : x \in {y \in remembered[k] : ~ y.old}} :
         client' = [client EXCEPT ![c] = {Requesting(k, served)}]
    /\ UNCHANGED remembered

\* Only a client that computed the answer itself.
Remember(c, k, a) ==
    /\ client[c] = {Requesting(k, {})}
    /\ remembered' = [remembered EXCEPT ![k] = {Remembering(a)}]
    /\ UNCHANGED client

Finish(c) ==
    /\ client[c] # {}
    /\ client' = [client EXCEPT ![c] = {}]
    /\ UNCHANGED remembered

Age(k) ==
    /\ remembered' = [remembered EXCEPT ![k] = {[x EXCEPT !.old = TRUE] : x \in @}]
    /\ UNCHANGED client

Forget(ks) ==
    /\ remembered' = [k \in Keys |-> IF k \in ks THEN {} ELSE remembered[k]]
    /\ UNCHANGED client

Crash ==
    /\ remembered' = [k \in Keys |-> {}]
    /\ client' = [c \in Clients |-> {}]

Next ==
    \/ \E c \in Clients, k \in Keys : Begin(c, k) \/ \E a \in Computable : Remember(c, k, a)
    \/ \E c \in Clients : Finish(c)
    \/ \E k \in Keys : Age(k)
    \/ \E ks \in SUBSET Keys : Forget(ks)
    \/ Crash

Spec == Init /\ [][Next]_map
=============================================================================
