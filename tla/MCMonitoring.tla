---------------------------- MODULE MCMonitoring ----------------------------
(***************************************************************************)
(* The services that watch over others on small instances, one part in     *)
(* each behaviour.  Of vigil: two cycles that overlap on one target, whose *)
(* checks and rules are edited; a fleet of two targets, one with a check   *)
(* and one without, under the poller's cycle; and the two stores.  Of      *)
(* burnrate: two replicas and the list of jobs between them; and the error *)
(* budget of one.                                                          *)
(***************************************************************************)
EXTENDS VigilMonitor, VigilStores, BurnrateTasks, BurnrateSlo

CONSTANTS a, b, poller, now, i1, i2, i3, none

VARIABLE part
vars == <<part, monitorVars, storeVars, taskVars, sloVars>>

MCInit ==
    /\ part \in {"overlap", "fleet", "stores", "jobs", "budget"}
    /\ MonitorInit /\ StoresInit /\ TasksInit /\ SloInit
    /\ part # "fleet" => world[b] = "down"
    /\ part \notin {"overlap", "fleet"} => world[a] = "down"
    /\ part # "jobs" => redisUp

\* a stays registered, b stays out of it.
Overlap ==
    /\ MonitorNext
    /\ world'[b] = world[b] /\ registered' = {a} /\ checks'[b] = 0

\* The poller alone, and alerts on outages; a keeps its check, b gets none
\* and is what it was at first.
Fleet ==
    /\ MonitorNext
    /\ cycle'[now] = Idle /\ checks' = checks /\ world'[b] = world[b]
    /\ \A t \in Targets : rules'[t] \subseteq {"down"}

\* No send, every send, or one of two, three or four fails; all of them are in
\* time, or some, or none.
SomeFaults ==
    /\ SloNext
    /\ fault'.step \in 0..4 /\ fault'.late \in {0, 2, 5}

MCNext ==
    /\ UNCHANGED part
    /\ \/ part = "overlap" /\ Overlap /\ UNCHANGED <<storeVars, taskVars, sloVars>>
       \/ part = "fleet" /\ Fleet /\ UNCHANGED <<storeVars, taskVars, sloVars>>
       \/ part = "stores" /\ StoresNext /\ UNCHANGED <<monitorVars, taskVars, sloVars>>
       \/ part = "jobs" /\ TasksNext /\ UNCHANGED <<monitorVars, storeVars, sloVars>>
       \/ part = "budget" /\ SomeFaults /\ UNCHANGED <<monitorVars, storeVars, taskVars>>

MCSpec ==
    MCInit /\ [][MCNext]_vars /\ (part \in {"overlap", "fleet"} => MonitorFairness)
=============================================================================
