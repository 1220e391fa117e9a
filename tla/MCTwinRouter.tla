-------------------------- MODULE MCTwinRouter --------------------------
(***************************************************************************)
(* Two models that fail and the mock, and three requests: a question whose *)
(* answer must fit a schema and two streamed chats.                        *)
(***************************************************************************)
EXTENDS TwinRouter, TLC

CONSTANTS a, b, mock, r1, r2, r3

Chats == {r2, r3}
MCKind == [r \in Requests |-> IF r \in Chats THEN "stream" ELSE "structured"]
Same == Permutations(Chats) \cup Permutations(Models \ {Mock})
=============================================================================
