---------------------------- MODULE VigilMonitor ----------------------------
(***************************************************************************)
(* vigil's monitor: the poller's cycles and an administrator's probe-now,  *)
(* which overlap on one event loop; the worker threads that probe the      *)
(* targets and write what they saw; and the edge-triggered alerts.  Store  *)
(* writes may fail and the process may be restarted.                       *)
(*                                                                         *)
(* A cycle goes from one await to the next: it evaluates its alerts        *)
(* without one.  A slot's next cycle begins when the threads an aborted    *)
(* one left behind have ended; one that begins before that is the other    *)
(* slot's, for nothing but their fairness tells the slots apart.  The      *)
(* target that is vigil itself, and targets with only optional checks,     *)
(* which are never down, are left out.                                     *)
(***************************************************************************)
EXTENDS Naturals, Sequences

CONSTANTS
    Targets,    \* slugs
    Seeds,      \* those that every start registers
    Cycles,     \* the poller's cycle and those of probe-now
    Poller,     \* the one of them that the loop repeats
    MaxChecks,  \* required, enabled checks of a target
    Window,     \* ROLLING_WINDOW
    MaxFaults   \* failed store calls and restarts

ASSUME MonitorAssumption ==
    /\ Poller \in Cycles /\ Seeds \subseteq Targets
    /\ Window \in Nat \ {0} /\ MaxChecks \in Nat \ {0} /\ MaxFaults \in Nat

VARIABLES
    world,       \* what each target is: up, asleep on a free host, or down
    registered,  \* the targets of the registry
    checks,      \* how many required, enabled checks each target has
    rules,       \* the metrics each target has an alert rule for
    rows,        \* its latest probes, up or not, newest first
    cycle,       \* each cycle: how far it is, the targets it listed
    thread,      \* the probe of each cycle and target
    breaching,   \* _breaching: the <<target, metric>> that were in breach
    announced,   \* history: those whose breach was sent to somebody
    faults
monitorVars ==
    <<world, registered, checks, rules, rows, cycle, thread, breaching, announced, faults>>
registry == <<registered, checks, rules>>
alerts == <<breaching, announced>>

Metrics == {"down", "availability"}
Worlds == {"up", "asleep", "down"}

Idle == [at |-> "idle", listed |-> {}]

\* left: checks still to run; up: none failed; excused, history: the target
\* was down meanwhile, or was asleep under a check; slept, history: its second
\* GET found it asleep still.
NoThread == [at |-> "none", left |-> 0, up |-> TRUE, legacy |-> FALSE, excused |-> FALSE,
             slept |-> FALSE]

MonitorInit ==
    /\ world \in [Targets -> {"up", "down"}]
    /\ registered = Seeds
    /\ checks = [t \in Targets |-> IF t \in Seeds THEN 1 ELSE 0]
    /\ rules = [t \in Targets |-> {}]
    /\ rows = [t \in Targets |-> <<>>]
    /\ cycle = [c \in Cycles |-> Idle]
    /\ thread = [c \in Cycles |-> [t \in Targets |-> NoThread]]
    /\ breaching = {}
    /\ announced = {}
    /\ faults = 0

MonitorTypeOK ==
    /\ world \in [Targets -> Worlds]
    /\ registered \subseteq Targets
    /\ checks \in [Targets -> 0..MaxChecks]
    /\ rules \in [Targets -> SUBSET Metrics]
    /\ \A t \in Targets : rows[t] \in Seq(BOOLEAN) /\ Len(rows[t]) <= Window
    /\ cycle \in [Cycles -> [at : {"idle", "probing", "alerting", "stopped"},
                             listed : SUBSET Targets]]
    /\ thread \in [Cycles -> [Targets ->
                     [at : {"none", "asking", "waking", "writing"}, left : 0..MaxChecks,
                      up : BOOLEAN, legacy : BOOLEAN, excused : BOOLEAN, slept : BOOLEAN]]]
    /\ breaching \subseteq Targets \X Metrics
    /\ announced \subseteq Targets \X Metrics
    /\ faults \in 0..MaxFaults

-----------------------------------------------------------------------------
(* The targets, whoever runs them. *)

\* What a probe lives through.
Lived(p, state) ==
    [p EXCEPT !.excused = p.at # "none" /\ (@ \/ state = "down" \/ (state = "asleep" /\ ~p.legacy))]

Change(t, state) ==
    /\ state # world[t]
    /\ world' = [world EXCEPT ![t] = state]
    /\ thread' = [c \in Cycles |-> [thread[c] EXCEPT ![t] = Lived(@, state)]]
    /\ UNCHANGED <<registry, rows, cycle, alerts, faults>>

-----------------------------------------------------------------------------
(* A cycle, on the event loop. *)

Goes(c, record) ==
    /\ cycle' = [cycle EXCEPT ![c] = record]
    /\ UNCHANGED <<world, registry, rows>>

\* The thread of a target lists its checks.
Asking(t) ==
    [NoThread EXCEPT !.at = "asking", !.left = checks[t], !.legacy = checks[t] = 0]

\* list_targets, and a thread for each.
Begin(c) ==
    /\ cycle[c].at = "idle"
    /\ \A t \in Targets : thread[c][t].at = "none"
    /\ Goes(c, [at |-> "probing", listed |-> registered])
    /\ thread' = [thread EXCEPT ![c] =
                    [t \in Targets |->
                        IF t \in registered THEN Lived(Asking(t), world[t]) ELSE NoThread]]
    /\ UNCHANGED <<alerts, faults>>

\* The gather of the probes has returned, then that of the scrapes.
Gather(c) ==
    /\ cycle[c].at = "probing"
    /\ \A t \in Targets : thread[c][t].at = "none"
    /\ Goes(c, [cycle[c] EXCEPT !.at = "alerting"])
    /\ UNCHANGED <<thread, alerts, faults>>

\* A slip: the loop does not outlive a cycle that raises.
RaisedForGood(c) == [at |-> "stopped", listed |-> {}]

\* A cycle that raises is over; poller_loop suppresses it and waits.
Raised(c) == Idle

Latest(t) == rows[t] # <<>> /\ rows[t][1]

\* _breached: the last probe failed, or too few of the window succeeded: one
\* failure is too many for a window this small.
Breached(k) ==
    /\ rows[k[1]] # <<>>
    /\ IF k[2] = "down" THEN ~Latest(k[1]) ELSE \E i \in DOMAIN rows[k[1]] : ~rows[k[1]][i]

Keys(t, ms) == {t} \X ms

\* A slip: the event is recorded first, and an alert that cannot be is not sent.
SentOnceRecorded(fresh, unrecorded) == fresh \ unrecorded

\* _dispatch sends on the channel, or on the console, and then records the event.
Sent(fresh, unrecorded) == fresh

\* evaluate for the rules of done: each remembers whether it is in breach.
Evaluated(done, unrecorded) ==
    LET over == {k \in done : Breached(k)}
    IN  /\ breaching' = (breaching \ done) \cup over
        /\ announced' = (announced \cap breaching') \cup Sent(over \ breaching, unrecorded)

\* The cycle's alerts, off the summaries of this moment.
Evaluate(c) ==
    /\ cycle[c].at = "alerting"
    /\ Evaluated(UNION {Keys(t, rules[t]) : t \in cycle[c].listed}, {})
    /\ Goes(c, Idle)
    /\ UNCHANGED <<thread, faults>>

\* What is read for a target, or the log of what fired for it, fails: these were
\* evaluated, the others are not.
EvaluateStops(c, whole) ==
    /\ cycle[c].at = "alerting"
    /\ faults < MaxFaults
    /\ Evaluated(UNION {Keys(u, rules[u]) : u \in whole}, {})
    /\ Goes(c, Raised(c))
    /\ faults' = faults + 1
    /\ UNCHANGED thread

\* The event of an alert cannot be recorded: the other targets, and what is
\* left of t's rules, are not evaluated.
EvaluateRaises(c, t, others, m, ms) ==
    /\ cycle[c].at = "alerting"
    /\ t \in cycle[c].listed /\ m \in rules[t]
    /\ Breached(<<t, m>>) /\ <<t, m>> \notin breaching
    /\ faults < MaxFaults
    /\ Evaluated((UNION {Keys(u, rules[u]) : u \in others}) \cup Keys(t, ms \cup {m}), {<<t, m>>})
    /\ Goes(c, Raised(c))
    /\ faults' = faults + 1
    /\ UNCHANGED thread

-----------------------------------------------------------------------------
(* A probe, in its thread. *)

Thread(c, t, p) ==
    /\ thread' = [thread EXCEPT ![c][t] = p]
    /\ UNCHANGED <<world, registry, alerts>>

\* What the target answered is recorded as it is.
Judged(p, up, state) ==
    [p EXCEPT !.at = "writing", !.up = up, !.slept = p.at = "waking" /\ state = "asleep"]

\* A slip: the first GET is the only one.
LegacyOnce(c, t) ==
    LET p == thread[c][t]
    IN  /\ p.legacy /\ p.at = "asking"
        /\ Thread(c, t, Judged(p, world[t] = "up", world[t]))
        /\ UNCHANGED <<rows, cycle, faults>>

\* The GET of a target without checks.  One that is asleep or down may let it time
\* out, or have its host answer 503: that is a cold start, and a second GET has a
\* budget that lets it wake.  What the second brings is judged at once, the answer
\* of the host of a target still asleep among it.
Legacy(c, t) ==
    LET p == thread[c][t]
        cold == p.at = "asking" /\ world[t] # "up"
        dead == world[t] = "down" \/ (world[t] = "asleep" /\ p.at = "waking")
    IN  /\ p.legacy /\ p.at \in {"asking", "waking"}
        /\ \/ cold /\ Thread(c, t, [p EXCEPT !.at = "waking"])
           \/ world[t] # "down" /\ Thread(c, t, Judged(p, TRUE, world[t]))
           \/ dead /\ Thread(c, t, Judged(p, FALSE, world[t]))
        /\ UNCHANGED <<rows, cycle, faults>>

Checked(p, state) ==
    [p EXCEPT !.left = @ - 1, !.up = @ /\ state = "up",
              !.at = IF p.left = 1 THEN "writing" ELSE "asking"]

\* The checks of a target, one request each, in turn.
Check(c, t) ==
    /\ ~thread[c][t].legacy /\ thread[c][t].at = "asking"
    /\ Thread(c, t, Checked(thread[c][t], world[t]))
    /\ UNCHANGED <<rows, cycle, faults>>

Push(r, seq) == SubSeq(<<r>> \o seq, 1, IF Len(seq) < Window THEN Len(seq) + 1 ELSE Window)

\* record_probe, with the time of writing; the registry is not looked at again.
Write(c, t) ==
    /\ thread[c][t].at = "writing"
    /\ rows' = [rows EXCEPT ![t] = Push(thread[c][t].up, @)]
    /\ Thread(c, t, NoThread)
    /\ UNCHANGED <<cycle, faults>>

\* A write that fails, of a probe or of a check's result, ends the cycle for
\* every target, while the threads of the others go on.
FailToWrite(c, t) ==
    /\ \/ thread[c][t].at = "writing"
       \/ thread[c][t].at = "asking" /\ ~thread[c][t].legacy
    /\ faults < MaxFaults
    /\ Thread(c, t, NoThread)
    /\ cycle' = [cycle EXCEPT ![c] = IF cycle[c].at = "probing" THEN Raised(c) ELSE @]
    /\ faults' = faults + 1
    /\ UNCHANGED rows

-----------------------------------------------------------------------------
(* The administrator, and a restart. *)

Registers(targets) ==
    /\ registered' = targets
    /\ UNCHANGED <<world, rules, rows>>

Add(t) ==
    /\ t \notin registered
    /\ Registers(registered \cup {t})
    /\ UNCHANGED <<checks, cycle, thread, alerts, faults>>

Remove(t) ==
    /\ t \in registered
    /\ Registers(registered \ {t})
    /\ UNCHANGED <<checks, cycle, thread, alerts, faults>>

\* An administrator adds, edits or deletes a check.
EditChecks(t, n) ==
    /\ n # checks[t]
    /\ checks' = [checks EXCEPT ![t] = n]
    /\ UNCHANGED <<world, registered, rules, rows, cycle, thread, alerts, faults>>

AddRule(t, m) ==
    /\ t \in registered /\ m \notin rules[t]
    /\ rules' = [rules EXCEPT ![t] = @ \cup {m}]
    /\ UNCHANGED <<world, registered, checks, rows, cycle, thread, alerts, faults>>

\* What is in the process is gone, what was breaching too.  init_db registers
\* the seeds again and gives a check to targets that have none, the disabled
\* ones included.
Restart(bare) ==
    /\ faults < MaxFaults
    /\ faults' = faults + 1
    /\ Registers(registered \cup Seeds)
    /\ bare \subseteq {t \in registered' : checks[t] = 0}
    /\ checks' = [t \in Targets |-> IF t \in bare THEN 1 ELSE checks[t]]
    /\ cycle' = [c \in Cycles |-> Idle]
    /\ thread' = [c \in Cycles |-> [t \in Targets |-> NoThread]]
    /\ breaching' = {} /\ announced' = {}

-----------------------------------------------------------------------------
Alerting(c) ==
    \/ Evaluate(c)
    \/ \E whole \in SUBSET cycle[c].listed : EvaluateStops(c, whole)
    \/ \E t \in cycle[c].listed, m \in Metrics :
         \E others \in SUBSET (cycle[c].listed \ {t}), ms \in SUBSET rules[t] :
             EvaluateRaises(c, t, others, m, ms)

Probing(c, t) == Legacy(c, t) \/ Check(c, t) \/ Write(c, t)

Administer(t) ==
    \/ Add(t) \/ Remove(t)
    \/ \E n \in 0..MaxChecks : EditChecks(t, n)
    \/ \E m \in Metrics : AddRule(t, m)

MonitorNext ==
    \/ \E c \in Cycles : Begin(c) \/ Gather(c) \/ Alerting(c)
    \/ \E c \in Cycles, t \in Targets : Probing(c, t) \/ FailToWrite(c, t)
    \/ \E t \in Targets, state \in Worlds : Change(t, state)
    \/ \E t \in Targets : Administer(t)
    \/ \E bare \in SUBSET Targets : Restart(bare)

MonitorSpec == MonitorInit /\ [][MonitorNext]_monitorVars

\* The poller repeats its cycle for ever (poller_loop), the event loop runs
\* what is ready, and a request ends by its timeout.
MonitorFairness ==
    /\ WF_monitorVars(Begin(Poller))
    /\ \A c \in Cycles : WF_monitorVars(Gather(c)) /\ WF_monitorVars(Evaluate(c))
    /\ \A c \in Cycles, t \in Targets : WF_monitorVars(Probing(c, t))

FairMonitor == MonitorSpec /\ MonitorFairness

-----------------------------------------------------------------------------
(* Properties *)

\* A target whose only route is its health route is not recorded as down for
\* having been asleep when its probe began: one that is was down while it was
\* probed, or slept through the second GET as well.  One with checks may be.
DownWasSeen ==
    \A c \in Cycles, t \in Targets :
        thread[c][t].at = "writing" /\ ~thread[c][t].up =>
            thread[c][t].excused \/ thread[c][t].slept

\* Alerts fire on the edge only, so a breach that is remembered and was not
\* sent would never be: whatever fails while alerts are evaluated, every breach
\* that is remembered was sent.
BreachesAreAnnounced == breaching \subseteq announced

\* A registered target that is up for good is shown as up in the end and stays
\* so, whatever failed before and whatever an overlapping cycle still writes.
StatusCatchesUp ==
    \A t \in Targets :
        <>[](t \in registered /\ world[t] = "up") => <>[]Latest(t)

\* An outage that lasts, of a target with a rule for it, is sent to somebody.
OutagesAreAnnounced ==
    \A t \in Targets :
        <>[](t \in registered /\ world[t] = "down" /\ "down" \in rules[t])
            => <>[](<<t, "down">> \in announced)
=============================================================================
