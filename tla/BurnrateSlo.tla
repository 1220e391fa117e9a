----------------------------- MODULE BurnrateSlo -----------------------------
(***************************************************************************)
(* burnrate's service under an injected fault: the counters since the last *)
(* reset, the short window of the latest requests, the gauges that         *)
(* Prometheus scrapes, and what slo.py and incident.py make of them.       *)
(*                                                                         *)
(* Rates are exact fractions of Scale; the code rounds them to six digits. *)
(* One synchronous worker serves one request at a time (Dockerfile), so a  *)
(* request is one step, and the requests that it simulates are in it.      *)
(***************************************************************************)
EXTENDS Naturals, Sequences, FiniteSets

CONSTANTS
    ShortWindow,                        \* SHORT_WINDOW
    Scale, Budget, SlowBurn, FastBurn,  \* ERROR_BUDGET and the rates of the two tiers
    FastEnough,                         \* LATENCY_SLO
    Loads,                              \* how many sends a request simulates
    MaxSends                            \* sends since the last reset

ASSUME SloAssumption ==
    /\ {ShortWindow, Scale, Budget, SlowBurn, FastBurn} \subseteq Nat \ {0}
    /\ FastEnough \in Nat /\ MaxSends \in Nat /\ Loads \subseteq Nat \ {0}
    /\ Budget <= SlowBurn /\ SlowBurn <= FastBurn

VARIABLES
    total, errors, onTime,  \* the registry's counters
    recent,                 \* _short: which of the latest sends failed
    fault,                  \* every step-th send fails, 0 for none; how late sends are
    gauges,                 \* what publish_slo was last given
    calm                    \* history: sends since the last one under an error rate
sloVars == <<total, errors, onTime, recent, fault, gauges, calm>>

\* _n counts the sends as total does; its remainder delays a send, and those
\* from late up are over the target.
Steps == 0..MaxSends
Lates == 0..5
NoFault == [step |-> 0, late |-> 5]

Zero ==
    /\ total' = 0 /\ errors' = 0 /\ onTime' = 0
    /\ recent' = <<>> /\ fault' = NoFault /\ calm' = 0

Failing(sends) == Cardinality({i \in DOMAIN sends : sends[i]})

\* What the gauges are computed from.
Reading(n, bad, sends) ==
    [published |-> TRUE, total |-> n, errors |-> bad, sends |-> Len(sends), failed |-> Failing(sends)]

\* Before the first publish they show a budget of zero, and no burn.
Unpublished == [published |-> FALSE, total |-> 0, errors |-> 0, sends |-> 0, failed |-> 0]

SloInit ==
    /\ total = 0 /\ errors = 0 /\ onTime = 0
    /\ recent = <<>> /\ fault = NoFault /\ calm = 0
    /\ gauges = Unpublished

-----------------------------------------------------------------------------
(* The handlers. *)

\* A slip: the deque has no maxlen.
AllOf(sends) == sends

\* What the deque keeps.
ShortOf(sends) ==
    SubSeq(sends, IF Len(sends) > ShortWindow THEN Len(sends) - ShortWindow + 1 ELSE 1, Len(sends))

\* _simulate for the next k sends: which of them fail, and which are on time.
Failures(k) == [i \in 1..k |-> fault.step > 0 /\ (total + i) % fault.step = 0]
InTime(k) == {i \in 1..k : (total + i) % 5 < fault.late}

\* send_outreach, loadtest and process_batch: sends, and then a publish.
Serve(k) ==
    /\ total + k <= MaxSends
    /\ total' = total + k
    /\ errors' = errors + Failing(Failures(k))
    /\ onTime' = onTime + Cardinality(InTime(k))
    /\ recent' = ShortOf(recent \o Failures(k))
    /\ gauges' = Reading(total', errors', recent')
    /\ calm' = IF fault.step = 0 THEN calm + k ELSE 0
    /\ UNCHANGED fault

\* set_fault: nothing is sent or published.
SetFault(step, late) ==
    /\ fault' = [step |-> step, late |-> late]
    /\ UNCHANGED <<total, errors, onTime, recent, gauges, calm>>

ResetService == Zero /\ gauges' = Reading(0, 0, <<>>)

\* A new process publishes nothing until it is asked to send.
NewProcess == Zero /\ gauges' = Unpublished

SloNext ==
    \/ \E k \in Loads : Serve(k)
    \/ \E step \in Steps, late \in Lates : SetFault(step, late)
    \/ ResetService \/ NewProcess

SloSpec == SloInit /\ [][SloNext]_sloVars

-----------------------------------------------------------------------------
(* slo.compute and incident.classify, of a reading. *)

Burns(bad, n, rate) == n > 0 /\ bad * Scale >= rate * n

\* alert_policy: both windows have to be over the rate.
Action(x) ==
    LET Both(rate) == Burns(x.errors, x.total, rate) /\ Burns(x.failed, x.sends, rate)
    IN  IF Both(FastBurn) THEN "page" ELSE IF Both(SlowBurn) THEN "ticket" ELSE "none"

Exhausted(x) == x.errors * Scale > Budget * x.total

Violated(n, good) == n > 0 /\ good * Scale < FastEnough * n

Situation(x, late) ==
    CASE x.total = 0 -> "no_data"
      [] x.total > 0 /\ Action(x) # "none" -> IF late THEN "both" ELSE "availability"
      [] x.total > 0 /\ Action(x) = "none" /\ Exhausted(x) -> "availability"
      [] OTHER -> IF late THEN "latency" ELSE "healthy"

Severity(x, late) ==
    CASE Situation(x, late) \in {"healthy", "no_data"} -> "none"
      [] Situation(x, late) = "availability" /\ Action(x) = "none" -> "sev3"
      [] Situation(x, late) = "latency" -> "sev3"
      [] OTHER -> IF Action(x) = "page" THEN "sev1" ELSE "sev2"

-----------------------------------------------------------------------------
SloTypeOK ==
    /\ total \in 0..MaxSends /\ errors \in Nat /\ onTime \in Nat
    /\ recent \in Seq(BOOLEAN) /\ Len(recent) <= ShortWindow
    /\ fault \in [step : Steps, late : Lates]
    /\ gauges \in [published : BOOLEAN, total : Nat, errors : Nat, sends : Nat, failed : Nat]
    /\ calm \in Nat

\* What /slo and the incident summary are computed from.
Current == Reading(total, errors, recent)
CurrentSeverity == Severity(Current, Violated(total, onTime))

\* Whatever was injected, sent or reset before: once ShortWindow sends were made
\* without an error rate the alarm is over, although the long window still holds
\* every failure since the reset (the runbook's "return to none"); an exhausted budget
\* is not silent until it has recovered; and what Prometheus scrapes, once anything was
\* published, is what the service itself decides by (_publish).
AlarmsEnd ==
    /\ calm >= ShortWindow => CurrentSeverity \notin {"sev1", "sev2"}
    /\ Exhausted(Current) => CurrentSeverity # "none"
    /\ gauges.published \/ total > 0 => gauges = Current
=============================================================================
