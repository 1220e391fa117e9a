--------------------------- MODULE MCPersonaTwin ---------------------------
(***************************************************************************)
(* persona-twin, one part of it in each behaviour: requests that share the *)
(* router's breaker, requests that change the index, and the benchmark.    *)
(***************************************************************************)
EXTENDS MCTwinRouter, TwinIndex, TwinBenchmark

CONSTANTS boot, j1, j2, ada, zed, yve, k1, k2, k3

VARIABLE part

MCInit ==
    /\ part \in {"router", "index", "benchmark"}
    /\ Init /\ IndexInit /\ BenchInit
    /\ part # "router" => offered = Models

MCNext ==
    /\ UNCHANGED part
    /\ \/ part = "router" /\ Next /\ UNCHANGED <<indexVars, benchVars>>
       \/ part = "index" /\ IndexNext /\ UNCHANGED <<vars, benchVars>>
       \/ part = "benchmark" /\ BenchNext /\ UNCHANGED <<vars, indexVars>>

MCSpec == MCInit /\ [][MCNext]_<<part, vars, indexVars, benchVars>>

\* One swap serves all parts: the two chats, the two jobs, two combinations.
Mirror == r2 :> r3 @@ r3 :> r2 @@ j1 :> j2 @@ j2 :> j1 @@ k1 :> k2 @@ k2 :> k1 @@ zed :> yve @@ yve :> zed
Alike == {Mirror} \cup Permutations(Models \ {Mock})
=============================================================================
