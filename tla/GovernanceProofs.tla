-------------------------- MODULE GovernanceProofs --------------------------
(***************************************************************************)
(* Theorems about the mechanisms that keep people in charge, for any       *)
(* number of calls, threads, proposals and writers.                        *)
(*                                                                         *)
(* A call of orchestrate.run acts on what it read when it began, so the    *)
(* invariant says what that reading is still worth: the plan a call        *)
(* carries was saved on its thread (CallFits), a call that could have seen *)
(* the plan that is pending now carries it or is over (Yields), and a plan *)
(* whose execution is saved cannot come back, because a plan is saved as   *)
(* pending once.                                                           *)
(*                                                                         *)
(* The resets of field-vault overlap freely; the invariant says what each  *)
(* of them has still to put back: what is missing, some reset owes.        *)
(***************************************************************************)
EXTENDS DurableRuns, CounselApprovals, AuditChain, FieldVault, NaturalFacts

-----------------------------------------------------------------------------
(* agent-factory: durable runs *)

Over == {"recording", "done", "dead"}
Pending(p) == run[p].result = Checkpoint("awaiting_approval", {p})

\* Locals r that call c may have.
CallFits(c, r) ==
    /\ r.at = "new" => r.before = {}
    /\ r.at \in {"new", "planning"} => r.carries = {}
    /\ r.saved => r.at \in Over
    /\ r.before \subseteq Saved
    /\ r.result.status = "awaiting_approval" =>
        spec.hitl /\ r.result.plan = {c} /\ r.carries = {}
    /\ r.carries # {} /\ (r.saved \/ r.at = "saving") => r.result.status = "complete"
    /\ r.at = "saving" => r.result.status \in Statuses
    /\ spec.hitl => \A p \in r.carries : p \in Saved /\ Pending(p) /\ run[p].thread = r.thread
    /\ ~spec.hitl => r.carries \subseteq {c}

\* A call that could have seen the pending plan of its thread carries it or is over.
Yields(r) ==
    Awaiting(r.thread) /\ store[r.thread].plan \cap r.before # {} =>
        r.carries = store[r.thread].plan \/ r.at \in Over

PlanFits(t) ==
    Awaiting(t) =>
        spec.hitl /\ \E p \in Saved : Pending(p) /\ store[t].plan = {p} /\ run[p].thread = t

RunsInv ==
    /\ RunsTypeOK
    /\ \A c \in Calls : CallFits(c, run[c])
    /\ \A c \in Calls : Yields(run[c])
    /\ \A t \in Threads : PlanFits(t)
    /\ ClosedPlansStayClosed
    /\ ActsOnceInTurn

LEMMA Stepped ==
    ASSUME RunsTypeOK, NEW c \in Calls, NEW r \in Runs, Step(c, r)
    PROVE  /\ run' \in [Calls -> Runs] /\ run'[c] = r /\ spec' = spec
           /\ \A d \in Calls : d # c => run'[d] = run[d]
BY DEF RunsTypeOK, Step

LEMMA UnmadeTyped ==
    /\ Unmade \in Runs /\ Unmade.at = "new" /\ Unmade.carries = {} /\ ~Unmade.saved
    /\ Unmade.before = {} /\ Unmade.result.status = "absent"
<1>1. (CHOOSE t \in Threads : TRUE) \in Threads
  BY ThreadsAssumption
<1> QED
  BY <1>1 DEF Unmade, Runs, Stages, Nothing, Checkpoint, Checkpoints, Statuses

LEMMA RunsInitially == ASSUME RunsInit PROVE RunsInv
<1>1. RunsTypeOK
  BY UnmadeTyped DEF RunsInit, RunsTypeOK, Checkpoints, Checkpoint, Nothing, Statuses
<1>2. \A c \in Calls : run[c] = Unmade
  BY DEF RunsInit
<1>3. \A c \in Calls : CallFits(c, run[c])
  BY <1>2, UnmadeTyped DEF CallFits
<1>4. \A t \in Threads : ~Awaiting(t)
  BY DEF RunsInit, Awaiting, Nothing, Checkpoint
<1>5. \A c \in Calls : run[c].thread \in Threads
  BY <1>1 DEF RunsTypeOK, Runs
<1>6. ActsOnceInTurn
  BY <1>2, UnmadeTyped DEF ActsOnceInTurn
<1> QED
  BY <1>1, <1>3, <1>4, <1>5, <1>6 DEF RunsInv, Yields, PlanFits, ClosedPlansStayClosed

\* The steps but Save, and what they leave to the gate.
Unnoticed ==
    /\ RunsInv' /\ Saved' = Saved
    /\ \A d \in Saved : run'[d].carries = run[d].carries /\ run'[d].result = run[d].result
                        /\ run'[d].thread = run[d].thread

\* Locals that call c may take on without saving: those of a saved call stay.
Allowed(c, r) ==
    /\ CallFits(c, r) /\ Yields(r)
    /\ r.saved = run[c].saved
    /\ run[c].saved => /\ r.carries = run[c].carries /\ r.result = run[c].result
                       /\ r.thread = run[c].thread /\ r.at \in Over
    /\ \A d \in Calls : d # c /\ r.carries \cap run[d].carries # {} =>
            d \notin r.before /\ c \notin run[d].before

LEMMA StoreStays ==
    ASSUME RunsInv, NEW c \in Calls, NEW r \in Runs, Step(c, r), UNCHANGED store,
           trail' \in {trail, trail \cup {c}}, Allowed(c, r)
    PROVE  Unnoticed
<1>1. /\ run' \in [Calls -> Runs] /\ run'[c] = r /\ spec' = spec
      /\ \A d \in Calls : d # c => run'[d] = run[d]
  BY Stepped DEF RunsInv
<1>2. Saved' = Saved
  BY <1>1 DEF Saved, Allowed
<1>3. \A d \in Saved : run'[d].carries = run[d].carries /\ run'[d].result = run[d].result
                       /\ run'[d].thread = run[d].thread
  BY <1>1 DEF Saved, Allowed
<1>4. RunsTypeOK'
  BY <1>1 DEF RunsInv, RunsTypeOK
<1>5. CallFits(c, run[c])'
  BY <1>1, <1>2, <1>3 DEF CallFits, Pending, Allowed
<1>6. ASSUME NEW d \in Calls PROVE CallFits(d, run[d])'
  <2>1. CASE d # c
    <3>1. CallFits(d, run[d]) /\ run'[d] = run[d]
      BY <1>1, <2>1 DEF RunsInv
    <3>2. \A p \in Saved : Pending(p)' = Pending(p)
      BY <1>3 DEF Pending
    <3> QED
      BY <1>1, <1>2, <1>3, <3>1, <3>2 DEF CallFits
  <2> QED
    BY <1>5, <2>1
<1>7. ASSUME NEW d \in Calls PROVE Yields(run[d])'
  BY <1>1 DEF RunsInv, Yields, Awaiting, Allowed
<1>8. ASSUME NEW t \in Threads PROVE PlanFits(t)'
  <2> SUFFICES ASSUME Awaiting(t)'
      PROVE  spec'.hitl /\ \E p \in Saved' : Pending(p)' /\ store'[t].plan = {p} /\ run'[p].thread = t
    BY DEF PlanFits
  <2>1. spec.hitl
    BY DEF RunsInv, PlanFits, Awaiting
  <2>2. PICK p \in Saved : Pending(p) /\ store[t].plan = {p} /\ run[p].thread = t
    BY DEF RunsInv, PlanFits, Awaiting
  <2> QED
    BY <1>1, <1>2, <1>3, <2>1, <2>2 DEF Pending
<1>9. Closed' = Closed
  <2>1. {d \in Saved : run[d].result.status = "complete"}' = {d \in Saved : run[d].result.status = "complete"}
    BY <1>2, <1>3
  <2> QED
    BY <1>3, <2>1 DEF Closed
<1>10. ClosedPlansStayClosed'
  BY <1>9 DEF RunsInv, ClosedPlansStayClosed, Awaiting
<1>11. ActsOnceInTurn'
  BY <1>1 DEF RunsInv, ActsOnceInTurn, Allowed
<1> QED
  BY <1>2, <1>3, <1>4, <1>6, <1>7, <1>8, <1>10, <1>11 DEF RunsInv, Unnoticed

LEMMA FreshCall ==
    ASSUME RunsInv, NEW c \in Calls, run[c].at = "new"
    PROVE  run[c].saved = FALSE /\ c \notin Saved /\ \A d \in Calls : c \notin run[d].before
BY DEF RunsInv, RunsTypeOK, Runs, CallFits, Saved, Over

\* The locals a call begins with are a record of the right type.
LEMMA BegunTyped ==
    ASSUME NEW t \in Threads, NEW stage \in {"planning", "acting", "saving", "done"},
           NEW carries \in SUBSET Calls, NEW result \in {Nothing, Checkpoint("blocked", {})}
    PROVE  Begun(t, stage, carries, result) \in Runs
BY DEF Begun, Runs, Saved, Stages, Nothing, Checkpoint, Checkpoints, Statuses

LEMMA RereadKeeps == ASSUME RunsInv, NEW c \in Calls, NEW t \in Threads, Reread(c, t) PROVE Unnoticed
<1>0. PICK r \in Runs : r = Begun(t, "done", {}, Nothing)
  BY BegunTyped
<1>1. /\ r.at = "done" /\ r.carries = {} /\ r.saved = FALSE /\ r.before = Saved
      /\ r.result.status = "absent"
  BY <1>0 DEF Begun, Nothing, Checkpoint
<1>2. Step(c, r) /\ UNCHANGED <<store, trail>> /\ run[c].saved = FALSE
  BY <1>0, FreshCall DEF Reread, Called
<1>3. CallFits(c, r) /\ Yields(r)
  BY <1>1 DEF CallFits, Yields, Over
<1>4. Allowed(c, r)
  BY <1>1, <1>2, <1>3 DEF Allowed
<1> QED
  BY <1>2, <1>4, StoreStays

LEMMA ApproveKeeps ==
    ASSUME RunsInv, NEW c \in Calls, NEW t \in Threads, Approve(c, t)
    PROVE  Unnoticed /\ spec.hitl /\ run'[c].carries = store[t].plan
           /\ \A d \in Calls : d # c => run'[d] = run[d]
           /\ \E p \in Saved : Pending(p) /\ store[t].plan = {p}
<1>p. PICK plan \in SUBSET Calls : plan = store[t].plan
  BY DEF RunsInv, RunsTypeOK, Checkpoints
<1>0. PICK r \in Runs : r = Begun(t, "acting", plan, Nothing)
  BY BegunTyped
<1>1. /\ r.at = "acting" /\ r.carries = store[t].plan /\ r.saved = FALSE /\ r.before = Saved
      /\ r.result.status = "absent" /\ r.thread = t
  BY <1>p, <1>0 DEF Begun, Nothing, Checkpoint
<1>2. Step(c, r) /\ UNCHANGED <<store, trail>> /\ run[c].saved = FALSE /\ Awaiting(t)
  BY <1>p, <1>0, FreshCall DEF Approve, Called
<1>3. PICK p \in Saved : Pending(p) /\ store[t].plan = {p} /\ run[p].thread = t /\ spec.hitl
  BY <1>2 DEF RunsInv, PlanFits
<1>4. CallFits(c, r)
  BY <1>1, <1>3 DEF CallFits, Over
<1>5. Yields(r)
  BY <1>1 DEF Yields
<1>6. ASSUME NEW d \in Calls, d # c, r.carries \cap run[d].carries # {}
      PROVE  d \notin r.before /\ c \notin run[d].before
  <2>1. d \notin Saved
    <3> SUFFICES ASSUME d \in Saved PROVE FALSE
      OBVIOUS
    <3>1. p \in run[d].carries
      BY <1>1, <1>3, <1>6
    <3>2. run[d].result.status = "complete"
      BY <3>1 DEF RunsInv, CallFits, Saved
    <3>3. p \in Closed
      BY <3>1, <3>2 DEF Closed
    <3> QED
      BY <1>2, <1>3, <3>3 DEF RunsInv, ClosedPlansStayClosed
  <2> QED
    BY <1>1, <2>1, FreshCall DEF Approve, Called
<1>7. Allowed(c, r)
  BY <1>1, <1>2, <1>4, <1>5, <1>6 DEF Allowed
<1>8. Unnoticed
  BY <1>2, <1>7, StoreStays
<1>9. run'[c] = r /\ \A d \in Calls : d # c => run'[d] = run[d]
  BY <1>1, <1>2, Stepped DEF RunsInv
<1> QED
  BY <1>1, <1>3, <1>8, <1>9

LEMMA StartKeeps == ASSUME RunsInv, NEW c \in Calls, NEW t \in Threads, Start(c, t) PROVE Unnoticed
<1>0. PICK p \in Runs : p = Begun(t, "planning", {}, Nothing)
  BY BegunTyped
<1>b. PICK b \in Runs : b = Begun(t, "saving", {}, Checkpoint("blocked", {}))
  BY BegunTyped
<1>1. /\ p.at = "planning" /\ p.carries = {} /\ p.saved = FALSE /\ p.before = Saved
      /\ p.result.status = "absent" /\ p.thread = t
  BY <1>0 DEF Begun, Nothing, Checkpoint
<1>2. /\ b.at = "saving" /\ b.carries = {} /\ b.saved = FALSE /\ b.before = Saved
      /\ b.result.status = "blocked" /\ b.thread = t
  BY <1>b DEF Begun, Checkpoint
<1>3. /\ Step(c, p) \/ Step(c, b)
      /\ UNCHANGED <<store, trail>> /\ run[c].saved = FALSE /\ ~Awaiting(t)
  BY <1>0, <1>b, FreshCall DEF Start, Called
<1>4. CallFits(c, p) /\ CallFits(c, b) /\ Yields(p) /\ Yields(b)
  BY <1>1, <1>2, <1>3 DEF CallFits, Yields, Over, Statuses
<1>5. Allowed(c, p) /\ Allowed(c, b)
  BY <1>1, <1>2, <1>3, <1>4 DEF Allowed
<1>6. CASE Step(c, p)
  BY <1>3, <1>5, <1>6, StoreStays
<1>7. CASE Step(c, b)
  BY <1>3, <1>5, <1>7, StoreStays
<1> QED
  BY <1>3, <1>6, <1>7

LEMMA PlanKeeps == ASSUME RunsInv, NEW c \in Calls, Plan(c) PROVE Unnoticed
<1>1. run[c] \in Runs /\ run[c].at = "planning" /\ CallFits(c, run[c]) /\ Yields(run[c])
  BY DEF RunsInv, RunsTypeOK, Plan
<1>2. run[c].saved = FALSE /\ run[c].carries = {}
  BY <1>1 DEF CallFits, Over, Runs
<1>h. PICK h \in Runs :
        h = [run[c] EXCEPT !.at = "saving", !.result = Checkpoint("awaiting_approval", {c})]
  BY <1>1 DEF Runs, Stages, Checkpoints, Checkpoint, Statuses
<1>a. PICK a \in Runs : a = [run[c] EXCEPT !.at = "acting", !.carries = {c}]
  BY <1>1 DEF Runs, Stages
<1>3. /\ h.at = "saving" /\ h.carries = {} /\ h.saved = FALSE /\ h.before = run[c].before
      /\ h.result.status = "awaiting_approval" /\ h.result.plan = {c} /\ h.thread = run[c].thread
  BY <1>1, <1>2, <1>h DEF Runs, Checkpoint
<1>4. /\ a.at = "acting" /\ a.carries = {c} /\ a.saved = FALSE /\ a.before = run[c].before
      /\ a.result = run[c].result /\ a.thread = run[c].thread
  BY <1>1, <1>2, <1>a DEF Runs
<1>5. /\ IF spec.hitl THEN Step(c, h) ELSE Step(c, a)
      /\ UNCHANGED <<store, trail>>
  BY <1>a, <1>h DEF Plan
<1>6. CASE spec.hitl
  <2>1. CallFits(c, h)
    BY <1>1, <1>3, <1>6 DEF CallFits, Over, Statuses
  <2>2. Yields(h)
    BY <1>1, <1>2, <1>3 DEF Yields, Over
  <2>3. Allowed(c, h)
    BY <1>2, <1>3, <2>1, <2>2 DEF Allowed
  <2> QED
    BY <1>5, <1>6, <2>3, StoreStays
<1>7. CASE ~spec.hitl
  <2>1. CallFits(c, a)
    BY <1>1, <1>4, <1>7 DEF CallFits, Over
  <2>2. Yields(a)
    <3>1. run[c].thread \in Threads
      BY <1>1 DEF Runs
    <3> QED
      BY <1>4, <1>7, <3>1 DEF Yields, RunsInv, PlanFits
  <2>3. \A d \in Calls : d # c => a.carries \cap run[d].carries = {}
    BY <1>4, <1>7 DEF RunsInv, CallFits
  <2>4. Allowed(c, a)
    BY <1>2, <1>4, <2>1, <2>2, <2>3 DEF Allowed
  <2> QED
    BY <1>5, <1>7, <2>4, StoreStays
<1> QED
  BY <1>6, <1>7

LEMMA ExecuteKeeps == ASSUME RunsInv, NEW c \in Calls, Execute(c) PROVE Unnoticed
<1>1. run[c] \in Runs /\ run[c].at = "acting" /\ CallFits(c, run[c]) /\ Yields(run[c])
  BY DEF RunsInv, RunsTypeOK, Execute
<1>2. run[c].saved = FALSE
  BY <1>1 DEF CallFits, Over, Runs
<1>3. PICK r \in Runs :
        r = [run[c] EXCEPT !.at = "saving", !.result = Checkpoint("complete", run[c].carries)]
  BY <1>1 DEF Runs, Stages, Checkpoints, Checkpoint, Statuses
<1>4. /\ r.at = "saving" /\ r.result.status = "complete" /\ r.carries = run[c].carries
      /\ r.saved = FALSE /\ r.thread = run[c].thread /\ r.before = run[c].before
  BY <1>1, <1>2, <1>3 DEF Runs, Checkpoint
<1>5. Step(c, r) /\ UNCHANGED <<store, trail>>
  BY <1>3 DEF Execute
<1>6. CallFits(c, r)
  BY <1>1, <1>2, <1>4 DEF CallFits, Over, Statuses
<1>7. Yields(r)
  BY <1>1, <1>4 DEF Yields, Over
<1>8. Allowed(c, r)
  BY <1>2, <1>4, <1>6, <1>7 DEF Allowed, RunsInv, ActsOnceInTurn
<1> QED
  BY <1>5, <1>8, StoreStays

\* A call that goes from one stage to the next and takes nothing with it.
LEMMA AtKeeps ==
    ASSUME RunsInv, NEW c \in Calls, NEW at \in {"done", "dead"},
           run[c].at # "new",
           Step(c, [run[c] EXCEPT !.at = at]), UNCHANGED store, trail' \in {trail, trail \cup {c}}
    PROVE  Unnoticed
<1>1. run[c] \in Runs /\ CallFits(c, run[c]) /\ Yields(run[c])
  BY DEF RunsInv, RunsTypeOK
<1>2. PICK r \in Runs : r = [run[c] EXCEPT !.at = at]
  BY <1>1 DEF Runs, Stages
<1>3. /\ r.at = at /\ r.result = run[c].result /\ r.carries = run[c].carries
      /\ r.saved = run[c].saved /\ r.thread = run[c].thread /\ r.before = run[c].before
  BY <1>1, <1>2 DEF Runs
<1>4. CallFits(c, r)
  BY <1>1, <1>3 DEF CallFits, Over
<1>5. Yields(r)
  BY <1>3 DEF Yields, Over
<1>6. Allowed(c, r)
  BY <1>3, <1>4, <1>5 DEF Allowed, Over, RunsInv, ActsOnceInTurn
<1>7. Step(c, r)
  BY <1>2
<1> QED
  BY <1>6, <1>7, StoreStays

LEMMA RecordKeeps == ASSUME RunsInv, NEW c \in Calls, Record(c) PROVE Unnoticed
BY AtKeeps DEF Record

LEMMA DieKeeps == ASSUME RunsInv, NEW c \in Calls, Die(c) PROVE Unnoticed
BY AtKeeps DEF Die

\* A call saves at most once, and on its thread.
LEMMA SaveStep ==
    ASSUME RunsInv, NEW c \in Calls, Save(c)
    PROVE  /\ RunsTypeOK' /\ spec' = spec
           /\ c \notin Saved /\ Saved' = Saved \cup {c}
           /\ run[c].at = "saving" /\ run[c].result.status \in Statuses /\ CallFits(c, run[c])
           /\ \A d \in Calls :
                /\ d # c => run'[d] = run[d]
                /\ run'[d].carries = run[d].carries /\ run'[d].result = run[d].result
                /\ run'[d].thread = run[d].thread /\ run'[d].before = run[d].before
           /\ run'[c].at = "recording" /\ run'[c].saved
           /\ \A t \in Threads :
                \/ store'[t] = store[t] /\ (t = run[c].thread => ~spec.hitl)
                \/ t = run[c].thread /\ store'[t] = run[c].result
<1>1. run[c] \in Runs /\ run[c].at = "saving" /\ CallFits(c, run[c])
  BY DEF RunsInv, RunsTypeOK, Save
<1>2. run[c].saved = FALSE /\ run[c].result.status \in Statuses
  BY <1>1 DEF CallFits, Over, Runs
<1>3. PICK r \in Runs : r = [run[c] EXCEPT !.at = "recording", !.saved = TRUE]
  BY <1>1 DEF Runs, Stages
<1>4. /\ r.at = "recording" /\ r.result = run[c].result /\ r.carries = run[c].carries
      /\ r.saved = TRUE /\ r.thread = run[c].thread /\ r.before = run[c].before
  BY <1>1, <1>3 DEF Runs
<1>5. Step(c, r)
  BY <1>3 DEF Save
<1>6. /\ run' \in [Calls -> Runs] /\ run'[c] = r /\ spec' = spec
      /\ \A d \in Calls : d # c => run'[d] = run[d]
  BY <1>5, Stepped DEF RunsInv
<1>7. Saved' = Saved \cup {c}
  BY <1>4, <1>6 DEF Saved
<1>8. store' \in [Threads -> Checkpoints] /\ trail' = trail
  BY <1>1 DEF Save, RunsInv, RunsTypeOK, Runs
<1>9. RunsTypeOK'
  BY <1>6, <1>8 DEF RunsTypeOK, RunsInv
<1>10. \A t \in Threads :
         \/ store'[t] = store[t] /\ (t = run[c].thread => ~spec.hitl)
         \/ t = run[c].thread /\ store'[t] = run[c].result
  BY <1>1 DEF Save, RunsInv, RunsTypeOK
<1> QED
  BY <1>1, <1>2, <1>4, <1>6, <1>7, <1>9, <1>10 DEF Saved

LEMMA SaveKeeps == ASSUME RunsInv, NEW c \in Calls, Save(c) PROVE RunsInv'
<1> USE SaveStep
<1>1. ASSUME NEW d \in Calls PROVE CallFits(d, run[d])'
  <2>1. CallFits(d, run[d])
    BY DEF RunsInv
  <2>2. \A p \in Calls : Pending(p)' = Pending(p)
    BY DEF Pending
  <2>3. Saved \subseteq Calls
    BY DEF Saved
  <2>4. CASE d = c
    BY <2>1, <2>2, <2>3, <2>4 DEF CallFits, Over
  <2>5. CASE d # c
    BY <2>1, <2>2, <2>3, <2>5 DEF CallFits
  <2> QED
    BY <2>4, <2>5
<1>2. ASSUME NEW t \in Threads, Awaiting(t)', store'[t] # store[t]
      PROVE  t = run[c].thread /\ store'[t].plan = {c} /\ Pending(c) /\ spec.hitl
  <2>1. t = run[c].thread /\ store'[t] = run[c].result
    BY <1>2
  <2>2. run[c].result.status = "awaiting_approval" /\ run[c].result \in Checkpoints
    BY <1>2, <2>1 DEF Awaiting, RunsInv, RunsTypeOK, Runs
  <2>3. spec.hitl /\ run[c].result.plan = {c}
    BY <2>2 DEF CallFits
  <2> QED
    BY <2>1, <2>2, <2>3 DEF Pending, Checkpoint, Checkpoints
<1>3. ASSUME NEW d \in Calls PROVE Yields(run[d])'
  <2>1. CASE d = c
    BY <2>1 DEF Yields, Over
  <2>2. CASE d # c
    <3>1. run[d].thread \in Threads /\ run[d].before \subseteq Saved /\ Yields(run[d])
      BY DEF RunsInv, RunsTypeOK, Runs, CallFits
    <3>2. CASE store'[run[d].thread] = store[run[d].thread]
      BY <2>2, <3>1, <3>2 DEF Yields, Awaiting
    <3>3. CASE store'[run[d].thread] # store[run[d].thread]
      BY <1>2, <2>2, <3>1, <3>3 DEF Yields, Awaiting
    <3> QED
      BY <3>2, <3>3
  <2> QED
    BY <2>1, <2>2
<1>4. ASSUME NEW t \in Threads PROVE PlanFits(t)'
  <2> SUFFICES ASSUME Awaiting(t)'
      PROVE  spec'.hitl /\ \E p \in Saved' : Pending(p)' /\ store'[t].plan = {p} /\ run'[p].thread = t
    BY DEF PlanFits
  <2>0. \A p \in Calls : Pending(p)' = Pending(p)
    BY DEF Pending
  <2>1. CASE store'[t] = store[t]
    <3>1. PICK p \in Saved : spec.hitl /\ Pending(p) /\ store[t].plan = {p} /\ run[p].thread = t
      BY <2>1 DEF PlanFits, RunsInv, Awaiting
    <3>2. p \in Calls /\ p \in Saved'
      BY DEF Saved
    <3> QED
      BY <2>0, <2>1, <3>1, <3>2
  <2>2. CASE store'[t] # store[t]
    BY <1>2, <2>0, <2>2
  <2> QED
    BY <2>1, <2>2
<1>5. ASSUME NEW t \in Threads, Awaiting(t)', NEW p \in store'[t].plan, p \in Closed' PROVE FALSE
  <2>1. spec.hitl /\ store'[t].plan = {p} /\ run[p].thread = t /\ p \in Calls
    BY <1>4, <1>5 DEF PlanFits, Saved
  <2>2. PICK d \in Saved' : run[d].result.status = "complete" /\ p \in run[d].carries
    BY <1>5 DEF Closed, Saved
  <2>3. d \in Calls /\ p \in Saved /\ run[p].thread = run[d].thread
    BY <2>1, <2>2 DEF RunsInv, CallFits, Saved
  <2>4. store'[t] = store[t]
    BY <1>2, <1>5, <2>1, <2>3
  <2>5. CASE d = c
    <3>1. store'[t] = run[c].result
      BY <2>1, <2>3, <2>5
    <3> QED
      BY <1>5, <2>2, <2>5, <3>1 DEF Awaiting
  <2>6. CASE d # c
    <3>1. p \in Closed
      BY <2>2, <2>6 DEF Closed
    <3> QED
      BY <1>5, <2>4, <3>1 DEF RunsInv, ClosedPlansStayClosed, Awaiting
  <2> QED
    BY <2>5, <2>6
<1>6. ClosedPlansStayClosed'
  BY <1>5 DEF ClosedPlansStayClosed
<1>7. ActsOnceInTurn'
  BY DEF RunsInv, ActsOnceInTurn
<1> QED
  BY <1>1, <1>3, <1>4, <1>6, <1>7 DEF RunsInv

LEMMA RunsStep == RunsInv /\ [RunsNext]_runVars => RunsInv'
<1> SUFFICES ASSUME RunsInv, [RunsNext]_runVars PROVE RunsInv'
  OBVIOUS
<1>1. CASE RunsNext
  <2>1. PICK c \in Calls :
          \/ \E t \in Threads : Reread(c, t) \/ Approve(c, t) \/ Start(c, t)
          \/ Proceed(c)
    BY <1>1 DEF RunsNext
  <2> QED
    BY <2>1, RereadKeeps, ApproveKeeps, StartKeeps, PlanKeeps, ExecuteKeeps, SaveKeeps,
       RecordKeeps, DieKeeps DEF Proceed, Unnoticed
<1>2. CASE UNCHANGED runVars
  <2>1. spec' = spec /\ store' = store /\ run' = run /\ trail' = trail
    BY <1>2 DEF runVars
  <2>2. Saved' = Saved /\ Closed' = Closed
    BY <2>1 DEF Saved, Closed
  <2>3. RunsTypeOK' /\ ActsOnceInTurn' /\ ClosedPlansStayClosed'
    BY <2>1, <2>2 DEF RunsInv, RunsTypeOK, ActsOnceInTurn, ClosedPlansStayClosed, Awaiting
  <2>4. \A c \in Calls : CallFits(c, run[c])'
    <3> SUFFICES ASSUME NEW c \in Calls PROVE CallFits(c, run[c])'
      OBVIOUS
    <3>1. CallFits(c, run[c])
      BY DEF RunsInv
    <3>2. \A p : Pending(p)' = Pending(p)
      BY <2>1 DEF Pending
    <3> QED
      BY <2>1, <2>2, <3>1, <3>2 DEF CallFits
  <2>5. \A c \in Calls : Yields(run[c])'
    BY <2>1 DEF RunsInv, Yields, Awaiting
  <2>6. \A t \in Threads : PlanFits(t)'
    BY <2>1, <2>2 DEF RunsInv, PlanFits, Awaiting, Pending
  <2> QED
    BY <2>3, <2>4, <2>5, <2>6 DEF RunsInv
<1> QED
  BY <1>1, <1>2

\* The invariant of durable runs: checkpoints, locals and what they are worth.
THEOREM RunsAreSound == RunsSpec => []RunsInv
BY RunsInitially, RunsStep, PTL DEF RunsSpec

\* Every checkpoint and every call is of the right type.
THEOREM RunsTyped == RunsSpec => []RunsTypeOK
<1>1. RunsInv => RunsTypeOK
  BY DEF RunsInv
<1> QED
  BY <1>1, RunsAreSound, PTL

\* A plan whose execution was saved never waits for approval again.
THEOREM RunsStayClosed == RunsSpec => []ClosedPlansStayClosed
<1>1. RunsInv => ClosedPlansStayClosed
  BY DEF RunsInv
<1> QED
  BY <1>1, RunsAreSound, PTL

\* A call made after a plan's execution was saved does not repeat it.
THEOREM RunsActOnceInTurn == RunsSpec => []ActsOnceInTurn
<1>1. RunsInv => ActsOnceInTurn
  BY DEF RunsInv
<1> QED
  BY <1>1, RunsAreSound, PTL

\* A pending plan gives way to the call that carries it, or to one that had read
\* the store before.
THEOREM RunsGiveWay == RunsSpec => PendingPlansGiveWay
<1> DEFINE Gives(t, c) ==
        Awaiting(t) /\ store'[t] # store[t] /\ run'[c].saved # run[c].saved =>
            \/ run[c].carries = store[t].plan
            \/ store[t].plan \cap run[c].before = {}
<1>1. ASSUME RunsInv, [RunsNext]_runVars, NEW t \in Threads, NEW c \in Calls PROVE Gives(t, c)
  <2> USE <1>1
  <2> SUFFICES ASSUME Awaiting(t), store'[t] # store[t], run'[c].saved # run[c].saved
               PROVE  \/ run[c].carries = store[t].plan
                      \/ store[t].plan \cap run[c].before = {}
    OBVIOUS
  <2>1. store' # store
    OBVIOUS
  <2>2. RunsNext
    BY <2>1 DEF runVars
  <2>3. PICK d \in Calls : Save(d)
    BY <2>1, <2>2 DEF RunsNext, Proceed, Reread, Approve, Start, Called, Plan, Execute, Record, Die
  <2>4. d = c
    BY <2>3, SaveStep
  <2>5. run[c].at = "saving" /\ t = run[c].thread
    BY <2>3, <2>4, SaveStep
  <2>6. Yields(run[c]) /\ run[c].at \notin Over
    BY <2>5 DEF RunsInv, Over
  <2> QED
    BY <2>5, <2>6 DEF Yields
<1>2. RunsInv /\ [RunsNext]_runVars => [\A t \in Threads, c \in Calls : Gives(t, c)]_runVars
  BY <1>1
<1> QED
  BY <1>2, RunsAreSound, PTL DEF RunsSpec, PendingPlansGiveWay

\* The gate sees a save of a pending plan as a proposal and an approval as its
\* application, and nothing else.
THEOREM RunsAreGated == RunsSpec => DurableRunsAreGated
<1>1. RunsInit => RunGate!Init
  BY UnmadeTyped DEF RunsInit, RunGate!Init, Saved
<1>2. ASSUME RunsInv, [RunsNext]_runVars PROVE [RunGate!Next]_(RunGate!gate)
  <2> USE <1>2
  <2> DEFINE proposed == {c \in Saved : run[c].result.status = "awaiting_approval"}
             applied == IF spec.hitl THEN UNION {run[c].carries : c \in Calls} ELSE {}
  <2>1. ASSUME NEW c \in Calls, NEW t \in Threads, Approve(c, t) PROVE RunGate!Next
    <3>0. Awaiting(t) /\ PlanFits(t)
      BY <2>1 DEF Approve, RunsInv
    <3>1. PICK p \in Saved : Pending(p) /\ store[t].plan = {p}
      BY <3>0 DEF PlanFits
    <3>2. p \in proposed /\ p \in Calls
      BY <3>1 DEF Pending, Checkpoint, Saved
    <3>3. Unnoticed /\ spec.hitl /\ run'[c].carries = {p} /\ \A d \in Calls : d # c => run'[d] = run[d]
      BY <2>1, <3>1, ApproveKeeps
    <3>4. proposed' = proposed
      BY <3>3 DEF Unnoticed
    <3>5. spec' = spec /\ run[c].carries = {}
      BY <2>1 DEF Approve, Called, Step, RunsInv, CallFits
    <3>6. applied' = applied \cup {p}
      BY <3>3, <3>5
    <3>7. RunGate!Apply(p)
      BY <3>2, <3>4, <3>6 DEF RunGate!Apply
    <3> QED
      BY <3>2, <3>7 DEF RunGate!Next
  <2>2. ASSUME NEW c \in Calls, Save(c) PROVE RunGate!Next \/ UNCHANGED RunGate!gate
    <3>1. /\ spec' = spec /\ Saved' = Saved \cup {c}
          /\ \A d \in Calls : run'[d].carries = run[d].carries /\ run'[d].result = run[d].result
      BY <2>2, SaveStep
    <3>2. applied' = applied
      BY <3>1
    <3>3. proposed' \in {proposed, proposed \cup {c}}
      BY <3>1 DEF Saved
    <3> QED
      BY <3>2, <3>3 DEF RunGate!Next, RunGate!Propose, RunGate!gate
  <2>3. ASSUME NEW c \in Calls, Unnoticed, spec' = spec,
               spec.hitl => \A d \in Calls : run'[d].carries = run[d].carries
        PROVE  UNCHANGED RunGate!gate
    <3>1. proposed' = proposed
      BY <2>3 DEF Unnoticed
    <3>2. applied' = applied
      BY <2>3
    <3> QED
      BY <3>1, <3>2 DEF RunGate!gate
  <2>4. ASSUME NEW c \in Calls, NEW t \in Threads, Reread(c, t) \/ Start(c, t)
        PROVE  UNCHANGED RunGate!gate
    <3>1. PICK r : Step(c, r) /\ r.carries = {} /\ run[c].at = "new"
      BY <2>4 DEF Reread, Start, Called, Begun
    <3>2. run[c].carries = {} /\ run \in [Calls -> Runs]
      BY <3>1 DEF RunsInv, CallFits, RunsTypeOK
    <3>3. spec' = spec /\ \A d \in Calls : run'[d].carries = run[d].carries
      BY <3>1, <3>2 DEF Step
    <3>4. Unnoticed
      BY <2>4, RereadKeeps, StartKeeps
    <3> QED
      BY <2>3, <3>3, <3>4
  <2>5. ASSUME NEW c \in Calls, Plan(c) \/ Execute(c) \/ Record(c) \/ Die(c)
        PROVE  UNCHANGED RunGate!gate
    <3>1. run \in [Calls -> Runs]
      BY DEF RunsInv, RunsTypeOK
    <3>2. spec' = spec /\ (spec.hitl => \A d \in Calls : run'[d].carries = run[d].carries)
      <4>1. CASE Plan(c)
        <5>1. CASE spec.hitl
          <6>1. PICK r : r = [run[c] EXCEPT !.at = "saving", !.result = Checkpoint("awaiting_approval", {c})]
            OBVIOUS
          <6>2. spec' = spec /\ run' = [run EXCEPT ![c] = r]
            BY <4>1, <5>1, <6>1 DEF Plan, Step
          <6>3. r.carries = run[c].carries
            BY <3>1, <6>1 DEF Runs
          <6> QED
            BY <3>1, <6>2, <6>3
        <5>2. CASE ~spec.hitl
          BY <4>1, <5>2 DEF Plan, Step
        <5> QED
          BY <5>1, <5>2
      <4>2. CASE Execute(c)
        BY <3>1, <4>2 DEF Execute, Step, Runs
      <4>3. CASE Record(c)
        BY <3>1, <4>3 DEF Record, Step, Runs
      <4>4. CASE Die(c)
        BY <3>1, <4>4 DEF Die, Step, Runs
      <4> QED
        BY <2>5, <4>1, <4>2, <4>3, <4>4
    <3>3. Unnoticed
      BY <2>5, PlanKeeps, ExecuteKeeps, RecordKeeps, DieKeeps
    <3> QED
      BY <2>3, <3>2, <3>3
  <2>6. CASE RunsNext
    BY <2>1, <2>2, <2>4, <2>5, <2>6 DEF RunsNext, Proceed
  <2>7. CASE UNCHANGED runVars
    BY <2>7 DEF runVars, RunGate!gate, Saved
  <2> QED
    BY <2>6, <2>7
<1> QED
  BY <1>1, <1>2, RunsAreSound, PTL DEF RunsSpec, DurableRunsAreGated, RunGate!Spec

-----------------------------------------------------------------------------
(* counsel: the approval queue *)

Decisions == {"applied", "declined"}

\* What is pending was proposed and never decided, and a decision is final.
QueueInv ==
    /\ queue \in [Proposals -> {"absent", "pending"} \cup Decisions]
    /\ \A p \in Proposals :
        /\ queue[p] = "pending" =>
            <<p, "pending">> \in told /\ \A s \in Decisions : <<p, s>> \notin told
        /\ \A s \in Decisions : <<p, s>> \in told => <<p, "pending">> \in told
        /\ ~(<<p, "applied">> \in told /\ <<p, "declined">> \in told)

LEMMA ProposeKeeps == ASSUME QueueInv, NEW p \in Proposals, Propose(p) PROVE QueueInv'
<1>1. queue' \in [Proposals -> {"absent", "pending"} \cup Decisions]
  BY DEF QueueInv, Propose
<1>2. told' = told \cup {<<p, "pending">>} /\ \A s \in Decisions : <<p, s>> \notin told
  BY DEF QueueInv, Propose
<1>3. \A q \in Proposals : q # p => queue'[q] = queue[q]
  BY DEF QueueInv, Propose
<1> QED
  BY <1>1, <1>2, <1>3 DEF QueueInv, Decisions

LEMMA DecideKeeps ==
    ASSUME QueueInv, NEW p \in Proposals, NEW s \in Decisions, Decide(p, s) PROVE QueueInv'
<1>1. queue' \in [Proposals -> {"absent", "pending"} \cup Decisions]
  BY DEF QueueInv, Decide
<1>2. told' = told \cup {<<p, s>>} /\ queue[p] = "pending" /\ queue'[p] = s /\ s # "pending"
  BY DEF QueueInv, Decide, Decisions
<1>3. \A q \in Proposals : q # p => queue'[q] = queue[q]
  BY DEF QueueInv, Decide
<1> QED
  BY <1>1, <1>2, <1>3 DEF QueueInv, Decisions

LEMMA QueueStep == QueueInv /\ [QueueNext]_queueVars => QueueInv'
<1> SUFFICES ASSUME QueueInv, [QueueNext]_queueVars PROVE QueueInv'
  OBVIOUS
<1>1. CASE QueueReset
  BY <1>1 DEF QueueReset, QueueInv
<1>2. CASE UNCHANGED queueVars
  BY <1>2 DEF queueVars, QueueInv
<1> QED
  BY <1>1, <1>2, ProposeKeeps, DecideKeeps DEF QueueNext, Decisions

\* The gate sees the answers that were given: a proposal, its application or its
\* refusal; a reset is none of these.
THEOREM QueueIsGated == QueueSpec => CounselIsGated
<1>1. QueueInit => QueueInv /\ QueueGate!Init
  BY DEF QueueInit, QueueInv, Decisions, QueueGate!Init
<1>2. ASSUME QueueInv, [QueueNext]_queueVars PROVE [QueueGate!Next]_(QueueGate!gate)
  <2> USE <1>2
  <2>1. ASSUME NEW p \in Proposals, Propose(p) PROVE QueueGate!Propose(p)
    BY <2>1 DEF Propose, QueueGate!Propose
  <2>2. ASSUME NEW p \in Proposals, Decide(p, "applied") PROVE QueueGate!Apply(p)
    BY <2>2 DEF Decide, QueueGate!Apply, QueueInv, Decisions
  <2>3. ASSUME NEW p \in Proposals, Decide(p, "declined") PROVE QueueGate!Decline(p)
    BY <2>3 DEF Decide, QueueGate!Decline, QueueInv, Decisions
  <2>4. ASSUME UNCHANGED told PROVE UNCHANGED QueueGate!gate
    BY <2>4 DEF QueueGate!gate
  <2> QED
    BY <2>1, <2>2, <2>3, <2>4 DEF QueueNext, QueueReset, queueVars, QueueGate!Next
<1> QED
  BY <1>1, <1>2, QueueStep, PTL DEF QueueSpec, CounselIsGated, QueueGate!Spec

-----------------------------------------------------------------------------
(* quorum, field-vault, llm-gateway: the audit chain *)

Entered(w) == \E i \in DOMAIN log : log[i].hash = w

\* Where an append stands.
WriterFits(w) ==
    /\ writer[w].at = "looked" => ~Locked /\ (writer[w].crossed \/ writer[w].prev = LastHash)
    /\ writer[w].at \in {"logged", "done"} => w \in erased \/ Entered(w)
    /\ system = "quorum" /\ writer[w].at # "ready" =>
        \A v \in Writers : Stage[v] < Stage[w] => writer[v].at = "done"

\* Where an entry stands.
EntryFits(i) ==
    /\ Linked(i) \/ log[i].crossed
    /\ Locked => log[i].seq = i - 1 /\ Linked(i)
    /\ writer[log[i].hash].at \in {"logged", "done"}

InOrder == system = "quorum" =>
    \A i, j \in DOMAIN log : i < j => Stage[log[i].hash] <= Stage[log[j].hash]

HashesDiffer == \A i, j \in DOMAIN log : log[i].hash = log[j].hash => i = j

InLog(w) == writer[w].at \in {"logged", "done"}

\* Where verify's loop stands: unless a reset took what it had passed, it expects
\* the hash that is there; and what was edited before it began is still ahead.
WalkFits ==
    /\ ~walk.stale => walk.next <= Len(log) + 1 /\ walk.prev = PrevOf(walk.next)
    /\ \A w \in walk.early : InLog(w)
    /\ \A i \in DOMAIN log : log[i].hash \in walk.early => log[i].edited /\ walk.next <= i

WalkInv == Walking => WalkFits

ChainInv ==
    /\ ChainTypeOK
    /\ HashesDiffer
    /\ WalkInv
    /\ \A w \in Writers : WriterFits(w)
    /\ \A i \in DOMAIN log : EntryFits(i)
    /\ InOrder

LEMMA ChainInitially == ASSUME ChainInit PROVE ChainInv
BY DEF ChainInit, ChainInv, ChainTypeOK, WriterFits, EntryFits, InOrder, Ready, Entries,
   NotWalked, Walking, WalkInv, HashesDiffer

\* What an entry at the end of the log changes, and what it does not.
LEMMA Appended ==
    ASSUME ChainTypeOK, NEW e \in Entries, log' = Append(log, e)
    PROVE  /\ log' \in Seq(Entries) /\ Len(log) \in Nat /\ Len(log') = Len(log) + 1
           /\ DOMAIN log = 1..Len(log) /\ DOMAIN log' = 1..(Len(log) + 1)
           /\ log'[Len(log) + 1] = e
           /\ \A i \in DOMAIN log : log'[i] = log[i] /\ Linked(i)' = Linked(i)
           /\ \A n \in Nat : n = Len(log) + 1 => (Linked(n)' <=> e.prev = LastHash)
<1>1. /\ log' \in Seq(Entries) /\ Len(log) \in Nat /\ Len(log') = Len(log) + 1
      /\ DOMAIN log = 1..Len(log) /\ DOMAIN log' = 1..(Len(log) + 1)
      /\ log'[Len(log) + 1] = e
      /\ \A i \in DOMAIN log : log'[i] = log[i]
  BY DEF ChainTypeOK
<1>2. ASSUME NEW i \in DOMAIN log PROVE Linked(i)' = Linked(i)
  <2>1. i \in Nat /\ i >= 1 /\ (i # 1 => i - 1 \in DOMAIN log)
    BY <1>1
  <2> QED
    BY <1>1, <2>1 DEF Linked, PrevOf
<1>3. ASSUME NEW n \in Nat, n = Len(log) + 1 PROVE Linked(n)' <=> e.prev = LastHash
  <2>1. PrevOf(n)' = LastHash
    <3>1. CASE log = <<>>
      BY <1>3, <3>1 DEF PrevOf, LastHash
    <3>2. CASE log # <<>>
      <4>1. Len(log) \in DOMAIN log /\ n # 1 /\ n - 1 = Len(log)
        BY <1>1, <1>3, <3>2 DEF ChainTypeOK
      <4>2. log'[n - 1] = log[Len(log)]
        BY <1>1, <4>1
      <4> QED
        BY <3>2, <4>1, <4>2 DEF PrevOf, LastHash
    <3> QED
      BY <3>1, <3>2
  <2> QED
    BY <1>1, <1>3, <2>1 DEF Linked
<1> QED
  BY <1>1, <1>2, <1>3

LEMMA LogTyped ==
    ASSUME ChainTypeOK PROVE \A i \in DOMAIN log : log[i] \in Entries /\ log[i].hash \in Writers
<1>1. \A i \in DOMAIN log : log[i] \in Entries
  BY DEF ChainTypeOK
<1>2. \A e \in Entries : e.hash \in Writers
  BY DEF Entries
<1> QED
  BY <1>1, <1>2

LEMMA HashTyped == ASSUME ChainTypeOK PROVE LastHash \in Writers \cup {Genesis} /\ Len(log) \in Nat
<1>1. Len(log) \in Nat /\ (log # <<>> => Len(log) \in DOMAIN log)
  BY DEF ChainTypeOK
<1>2. \A i \in DOMAIN log : log[i].hash \in Writers
  BY LogTyped
<1> QED
  BY <1>1, <1>2 DEF LastHash

\* Verify's loop keeps its place while entries are added behind the others or
\* edited.
LEMMA WalkKept ==
    ASSUME ChainInv, ChainTypeOK', UNCHANGED walk,
           \A v \in Writers : InLog(v) => InLog(v)',
           Len(log) <= Len(log'),
           \A i \in DOMAIN log : log'[i].hash = log[i].hash /\ (log[i].edited => log'[i].edited),
           \A i \in DOMAIN log' : i \in DOMAIN log \/ ~InLog(log'[i].hash)
    PROVE  WalkInv'
<1> SUFFICES ASSUME Walking PROVE WalkFits'
  BY DEF WalkInv, Walking
<1>1. /\ Len(log) \in Nat /\ Len(log') \in Nat /\ DOMAIN log = 1..Len(log)
      /\ DOMAIN log' = 1..Len(log') /\ walk.next \in Nat \ {0} /\ walk.early \subseteq Writers
  BY DEF ChainInv, ChainTypeOK
<1>2. WalkFits
  BY DEF ChainInv, WalkInv
<1>3. ASSUME ~walk.stale PROVE walk.next <= Len(log') + 1 /\ walk.prev = PrevOf(walk.next)'
  <2>1. walk.next <= Len(log) + 1 /\ walk.prev = PrevOf(walk.next)
    BY <1>2, <1>3 DEF WalkFits
  <2>2. walk.next # 1 => walk.next - 1 \in DOMAIN log
    BY <1>1, <2>1
  <2>3. PrevOf(walk.next)' = PrevOf(walk.next)
    BY <2>2 DEF PrevOf
  <2> QED
    BY <1>1, <2>1, <2>3
<1>4. \A w \in walk.early : InLog(w)'
  BY <1>1, <1>2 DEF WalkFits
<1>5. ASSUME NEW i \in DOMAIN log', log'[i].hash \in walk.early
      PROVE  log'[i].edited /\ walk.next <= i
  <2>1. i \in DOMAIN log
    BY <1>2, <1>5 DEF WalkFits
  <2> QED
    BY <1>2, <1>5, <2>1 DEF WalkFits
<1> QED
  BY <1>3, <1>4, <1>5 DEF WalkFits

WriterRecords ==
    [at : {"ready", "looked", "logged", "done"}, prev : Writers \cup {Genesis}, seq : Nat,
     crossed : BOOLEAN]

WalkRecords ==
    [at : {"unasked", "walking", "intact", "broken"}, next : Nat \ {0},
     prev : Writers \cup {Genesis}, early : SUBSET Writers, stale : BOOLEAN]

LEMMA LocalsTyped ==
    ASSUME ChainTypeOK PROVE walk \in WalkRecords /\ \A w \in Writers : writer[w] \in WriterRecords
BY DEF ChainTypeOK, WalkRecords, WriterRecords

\* Every writer of a stage begins after those of the stages before.
LEMMA BeginsInTurn ==
    ASSUME ChainInv, NEW w \in Writers, MayBegin(w), system = "quorum"
    PROVE  \A v \in Writers : Stage[v] < Stage[w] => writer[v].at = "done"
BY DEF MayBegin

LEMMA LookKeeps == ASSUME ChainInv, NEW w \in Writers, Look(w) PROVE ChainInv'
<1>1. PICK r \in WriterRecords :
        r = [writer[w] EXCEPT !.at = "looked", !.prev = LastHash, !.seq = Len(log)]
  BY HashTyped, LocalsTyped DEF ChainInv, WriterRecords
<1>2. /\ ~Locked /\ MayBegin(w) /\ UNCHANGED <<system, log, erased, walk>>
      /\ writer' = [writer EXCEPT ![w] = r]
  BY <1>1 DEF Look, ChainInv, ChainTypeOK
<1>3. /\ writer' \in [Writers -> WriterRecords] /\ writer'[w] = r
      /\ \A v \in Writers : v # w => writer'[v] = writer[v]
      /\ r.at = "looked" /\ r.prev = LastHash /\ writer[w].at = "ready"
  BY <1>1, <1>2 DEF ChainInv, ChainTypeOK, WriterRecords, MayBegin
<1>4. ChainTypeOK'
  BY <1>2, <1>3 DEF ChainInv, ChainTypeOK, WriterRecords
<1>5. LastHash' = LastHash /\ Locked' = Locked /\ \A v \in Writers : Entered(v)' = Entered(v)
  BY <1>2 DEF LastHash, Locked, Entered
<1>6. ASSUME NEW v \in Writers PROVE WriterFits(v)'
  <2>1. CASE v = w
    BY <1>2, <1>3, <1>5, <2>1, BeginsInTurn DEF WriterFits
  <2>2. CASE v # w
    BY <1>2, <1>3, <1>5, <2>2 DEF WriterFits, ChainInv
  <2> QED
    BY <2>1, <2>2
<1>7. ASSUME NEW i \in DOMAIN log PROVE EntryFits(i)'
  <2>1. log[i].hash \in Writers /\ log[i].hash # w
    BY <1>3, LogTyped DEF ChainInv, EntryFits
  <2> QED
    BY <1>2, <1>3, <2>1 DEF EntryFits, ChainInv, Locked, Linked, PrevOf
<1>8. InOrder' /\ HashesDiffer'
  BY <1>2 DEF ChainInv, InOrder, HashesDiffer
<1>9. WalkInv'
  BY <1>2, <1>3, <1>4, WalkKept DEF InLog, ChainInv, ChainTypeOK
<1> QED
  BY <1>2, <1>4, <1>6, <1>7, <1>8, <1>9 DEF ChainInv

\* An entry goes to the end of the log: its writer has logged, the others see
\* the list change.
LEMMA AddingKeeps ==
    ASSUME ChainInv, NEW w \in Writers, NEW e \in Entries,
           log' = Append(log, e), UNCHANGED <<system, erased, walk>>, ChainTypeOK',
           e.hash = w, writer'[w].at = "logged",
           e.crossed \/ e.prev = LastHash,
           Locked => e.prev = LastHash /\ e.seq = Len(log),
           writer[w].at \in {"ready", "looked"},
           system = "quorum" => \A v \in Writers : Stage[v] < Stage[w] => writer[v].at = "done",
           \A v \in Writers : v # w =>
                writer'[v].at = writer[v].at /\ (writer[v].at = "looked" => writer'[v].crossed)
    PROVE  ChainInv'
<1>0. /\ log' \in Seq(Entries) /\ Len(log) \in Nat /\ Len(log') = Len(log) + 1
      /\ DOMAIN log = 1..Len(log) /\ DOMAIN log' = 1..(Len(log) + 1)
      /\ log'[Len(log) + 1] = e
      /\ \A i \in DOMAIN log : log'[i] = log[i] /\ Linked(i)' = Linked(i)
      /\ \A n \in Nat : n = Len(log) + 1 => (Linked(n)' <=> e.prev = LastHash)
  BY Appended DEF ChainInv
<1>1. Locked' = Locked
  BY DEF Locked
<1>2. \A v \in Writers : Entered(v) => Entered(v)'
  BY <1>0 DEF Entered
<1>3. Entered(w)'
  BY <1>0 DEF Entered
<1>4. ASSUME NEW v \in Writers PROVE WriterFits(v)'
  <2>1. CASE v = w
    <3>1. system = "quorum" => \A u \in Writers : Stage[u] < Stage[w] => writer'[u].at = "done"
      BY DEF ChainInv
    <3> QED
      BY <1>3, <2>1, <3>1 DEF WriterFits
  <2>2. CASE v # w
    <3>1. system = "quorum" /\ writer[v].at # "ready" =>
            \A u \in Writers : Stage[u] < Stage[v] => writer'[u].at = "done"
      BY DEF ChainInv, WriterFits
    <3> QED
      BY <1>1, <1>2, <2>2, <3>1 DEF WriterFits, ChainInv
  <2> QED
    BY <2>1, <2>2
<1>5. ASSUME NEW i \in DOMAIN log' PROVE EntryFits(i)'
  <2>1. CASE i \in DOMAIN log
    <3>1. log[i].hash \in Writers /\ EntryFits(i)
      BY <2>1, LogTyped DEF ChainInv
    <3>2. writer'[log[i].hash].at \in {"logged", "done"}
      BY <3>1 DEF EntryFits
    <3> QED
      BY <1>0, <1>1, <2>1, <3>1, <3>2 DEF EntryFits
  <2>2. CASE i = Len(log) + 1
    <3>1. i \in Nat /\ log'[i] = e /\ (Linked(i)' <=> e.prev = LastHash) /\ i - 1 = Len(log)
      BY <1>0, <2>2
    <3> QED
      BY <1>1, <3>1 DEF EntryFits
  <2> QED
    BY <1>0, <2>1, <2>2
<1>6. ASSUME system = "quorum", NEW i \in DOMAIN log', NEW j \in DOMAIN log', i < j
      PROVE  Stage[log'[i].hash] <= Stage[log'[j].hash]
  <2>1. i \in DOMAIN log
    BY <1>0, <1>6
  <2>2. CASE j \in DOMAIN log
    BY <1>0, <1>6, <2>1, <2>2 DEF ChainInv, InOrder
  <2>3. CASE j = Len(log) + 1
    <3>1. PICK v \in Writers : v = log[i].hash
      BY <2>1, LogTyped DEF ChainInv
    <3>2. writer[v].at \in {"logged", "done"} /\ writer[w].at # "done"
      BY <2>1, <3>1 DEF ChainInv, EntryFits
    <3>3. ~(Stage[w] < Stage[v])
      BY <1>6, <3>2 DEF ChainInv, WriterFits
    <3> QED
      BY <1>0, <2>1, <2>3, <3>1, <3>3, StageAssumption
  <2> QED
    BY <1>0, <2>2, <2>3
<1>7. InOrder'
  BY <1>6 DEF InOrder
<1>8. \A i \in DOMAIN log : log[i].hash \in Writers /\ InLog(log[i].hash) /\ log[i].hash # w
  BY LogTyped DEF ChainInv, EntryFits, InLog
<1>9. HashesDiffer'
  BY <1>0, <1>8 DEF HashesDiffer, ChainInv
<1>10. ASSUME NEW v \in Writers, InLog(v) PROVE InLog(v)'
  BY <1>10 DEF InLog
<1>11. ~InLog(w) /\ \A i \in DOMAIN log' : i \in DOMAIN log \/ log'[i].hash = w
  BY <1>0 DEF InLog
<1>w. WalkInv'
  <2>1. ASSUME NEW i \in DOMAIN log PROVE log'[i].hash = log[i].hash /\ (log[i].edited => log'[i].edited)
    BY <1>0
  <2> QED
    BY <1>0, <1>10, <1>11, <2>1, WalkKept
<1> QED
  BY <1>4, <1>5, <1>7, <1>9, <1>w DEF ChainInv

LEMMA AddKeeps == ASSUME ChainInv, NEW w \in Writers, Add(w) PROVE ChainInv'
<1>1. PICK e \in Entries : e = Entry(w, writer[w].prev, writer[w].seq, writer[w].crossed)
  BY DEF ChainInv, ChainTypeOK, Entry, Entries
<1>2. /\ e.hash = w /\ e.prev = writer[w].prev /\ e.crossed = writer[w].crossed
  BY <1>1 DEF Entry
<1>3. /\ log' = Append(log, e) /\ UNCHANGED <<system, erased, walk>>
      /\ writer[w].at = "looked" /\ WriterFits(w)
      /\ writer' = [Crossing(Writers \ {w}) EXCEPT ![w].at = "logged"]
  BY <1>1 DEF Add, ChainInv
<1>4. /\ Crossing(Writers \ {w}) \in [Writers -> WriterRecords]
      /\ Crossing(Writers \ {w})[w] = writer[w]
      /\ \A v \in Writers : v # w =>
            /\ Crossing(Writers \ {w})[v].at = writer[v].at
            /\ writer[v].at = "looked" => Crossing(Writers \ {w})[v].crossed
  BY DEF Crossing, ChainInv, ChainTypeOK, WriterRecords
<1>5. /\ writer' \in [Writers -> WriterRecords] /\ writer'[w].at = "logged"
      /\ \A v \in Writers : v # w =>
            writer'[v].at = writer[v].at /\ (writer[v].at = "looked" => writer'[v].crossed)
  BY <1>3, <1>4 DEF WriterRecords
<1>6. ChainTypeOK'
  <2>1. log' \in Seq(Entries)
    BY <1>3, Appended DEF ChainInv
  <2> QED
    BY <1>3, <1>5, <2>1 DEF ChainInv, ChainTypeOK, WriterRecords
<1>7. ~Locked /\ (e.crossed \/ e.prev = LastHash)
  BY <1>2, <1>3 DEF WriterFits
<1>8. system = "quorum" => \A v \in Writers : Stage[v] < Stage[w] => writer[v].at = "done"
  BY <1>3 DEF WriterFits
<1> QED
  BY <1>2, <1>3, <1>5, <1>6, <1>7, <1>8, AddingKeeps

LEMMA AddLockedKeeps == ASSUME ChainInv, NEW w \in Writers, AddLocked(w) PROVE ChainInv'
<1>1. PICK h \in Writers \cup {Genesis} : h = LastHash
  BY HashTyped DEF ChainInv
<1>n. PICK n \in Nat : n = Len(log)
  BY HashTyped DEF ChainInv
<1>2. PICK e \in Entries : e = Entry(w, h, n, FALSE)
  BY DEF Entry, Entries
<1>3. e.hash = w /\ e.prev = LastHash /\ e.seq = Len(log)
  BY <1>1, <1>n, <1>2 DEF Entry
<1>4. /\ log' = Append(log, e) /\ UNCHANGED <<system, erased, walk>>
      /\ Locked /\ writer[w].at = "ready"
      /\ writer' = [writer EXCEPT ![w].at = "logged"]
  BY <1>1, <1>n, <1>2 DEF AddLocked, MayBegin
<1>5. /\ writer' \in [Writers -> WriterRecords] /\ writer'[w].at = "logged"
      /\ \A v \in Writers : v # w => writer'[v] = writer[v]
  BY <1>4 DEF WriterRecords, ChainInv, ChainTypeOK
<1>6. ChainTypeOK'
  <2>1. log' \in Seq(Entries)
    BY <1>4, Appended DEF ChainInv
  <2> QED
    BY <1>4, <1>5, <2>1 DEF ChainInv, ChainTypeOK, WriterRecords
<1>7. \A v \in Writers : writer[v].at # "looked"
  BY <1>4 DEF ChainInv, WriterFits
<1>8. system # "quorum"
  BY <1>4 DEF Locked
<1> QED
  BY <1>3, <1>4, <1>5, <1>6, <1>7, <1>8, AddingKeeps

LEMMA HandOverKeeps == ASSUME ChainInv, NEW w \in Writers, HandOver(w) PROVE ChainInv'
<1>1. /\ UNCHANGED <<system, log, erased, walk>> /\ writer[w].at = "logged"
      /\ writer' = [writer EXCEPT ![w].at = "done"]
  BY DEF HandOver
<1>2. /\ writer' \in [Writers -> WriterRecords] /\ writer'[w].at = "done"
      /\ \A v \in Writers : v # w => writer'[v] = writer[v]
  BY <1>1 DEF ChainInv, ChainTypeOK, WriterRecords
<1>3. ChainTypeOK'
  BY <1>1, <1>2 DEF ChainInv, ChainTypeOK, WriterRecords
<1>4. LastHash' = LastHash /\ Locked' = Locked /\ \A v \in Writers : Entered(v)' = Entered(v)
  BY <1>1 DEF LastHash, Locked, Entered
<1>5. ASSUME NEW v \in Writers PROVE WriterFits(v)'
  <2>1. WriterFits(v) /\ WriterFits(w)
    BY DEF ChainInv
  <2>2. system = "quorum" /\ writer[v].at # "ready" =>
            \A u \in Writers : Stage[u] < Stage[v] => writer'[u].at = "done"
    BY <1>2, <2>1 DEF WriterFits
  <2>3. CASE v = w
    BY <1>1, <1>2, <1>4, <2>1, <2>2, <2>3 DEF WriterFits
  <2>4. CASE v # w
    BY <1>1, <1>2, <1>4, <2>1, <2>2, <2>4 DEF WriterFits
  <2> QED
    BY <2>3, <2>4
<1>6. ASSUME NEW i \in DOMAIN log PROVE EntryFits(i)'
  <2>1. log[i].hash \in Writers /\ EntryFits(i)
    BY LogTyped DEF ChainInv
  <2>2. writer'[log[i].hash].at \in {"logged", "done"}
    BY <1>2, <2>1 DEF EntryFits
  <2> QED
    BY <1>1, <2>1, <2>2 DEF EntryFits, Locked, Linked, PrevOf
<1>7. InOrder' /\ HashesDiffer'
  BY <1>1 DEF ChainInv, InOrder, HashesDiffer
<1>8. WalkInv'
  BY <1>1, <1>2, <1>3, WalkKept DEF InLog, ChainInv, ChainTypeOK
<1> QED
  BY <1>1, <1>3, <1>5, <1>6, <1>7, <1>8 DEF ChainInv

\* An edit is recorded in the entry and leaves every link as it was.
LEMMA TamperKeeps == ASSUME ChainInv, NEW k \in DOMAIN log, Tamper(k) PROVE ChainInv'
<1>1. UNCHANGED <<system, writer, erased, walk>> /\ log' = [log EXCEPT ![k].edited = TRUE]
  BY DEF Tamper
<1>2. /\ DOMAIN log' = DOMAIN log /\ Len(log') = Len(log) /\ log' \in Seq(Entries)
      /\ \A i \in DOMAIN log : log'[i].hash = log[i].hash /\ log'[i].prev = log[i].prev
                               /\ log'[i].seq = log[i].seq /\ log'[i].crossed = log[i].crossed
                               /\ (log[i].edited => log'[i].edited)
  <2>1. log[k] \in Entries
    BY LogTyped DEF ChainInv
  <2>2. PICK e \in Entries : e = [log[k] EXCEPT !.edited = TRUE]
    BY <2>1 DEF Entries
  <2>3. /\ e.hash = log[k].hash /\ e.prev = log[k].prev /\ e.seq = log[k].seq
        /\ e.crossed = log[k].crossed /\ e.edited
    BY <2>1, <2>2 DEF Entries
  <2>4. log \in Seq(Entries)
    BY DEF ChainInv, ChainTypeOK
  <2>5. log' = [log EXCEPT ![k] = e]
    BY <1>1, <2>2
  <2>6. DOMAIN log' = DOMAIN log /\ Len(log') = Len(log) /\ log' \in Seq(Entries)
    BY <2>4, <2>5
  <2>7. \A i \in DOMAIN log : log'[i] = IF i = k THEN e ELSE log[i]
    BY <2>4, <2>5
  <2> QED
    BY <2>3, <2>6, <2>7
<1>3. ChainTypeOK'
  BY <1>1, <1>2 DEF ChainInv, ChainTypeOK
<1>4. \A i \in DOMAIN log : i = 1 \/ i - 1 \in DOMAIN log
  BY DEF ChainInv, ChainTypeOK
<1>5. \A i \in DOMAIN log : Linked(i)' = Linked(i)
  BY <1>2, <1>4 DEF Linked, PrevOf
<1>6. log # <<>> /\ log' # <<>> /\ Len(log) \in DOMAIN log
  BY <1>2 DEF ChainInv, ChainTypeOK
<1>7. LastHash' = LastHash /\ Locked' = Locked
  BY <1>1, <1>2, <1>6 DEF LastHash, Locked
<1>8. \A v \in Writers : Entered(v)' = Entered(v)
  BY <1>2 DEF Entered
<1>9. \A v \in Writers : WriterFits(v)'
  BY <1>1, <1>7, <1>8 DEF ChainInv, WriterFits
<1>10. \A i \in DOMAIN log : EntryFits(i)'
  BY <1>1, <1>2, <1>5, <1>7 DEF ChainInv, EntryFits
<1>11. InOrder' /\ HashesDiffer'
  BY <1>1, <1>2 DEF ChainInv, InOrder, HashesDiffer
<1>12. WalkInv'
  BY <1>1, <1>2, <1>3, WalkKept DEF InLog, ChainInv, ChainTypeOK
<1> QED
  BY <1>2, <1>3, <1>9, <1>10, <1>11, <1>12 DEF ChainInv

LEMMA ResetKeeps == ASSUME ChainInv, ChainReset PROVE ChainInv'
<1>1. /\ system = "field-vault" /\ system' = system /\ log' = <<>>
      /\ walk' = [walk EXCEPT !.stale = Walking /\ (@ \/ walk.next > 1)]
      /\ erased' = erased \cup {log[i].hash : i \in DOMAIN log}
      /\ writer' \in [Writers -> WriterRecords]
      /\ \A v \in Writers : writer'[v].at = writer[v].at
                            /\ (writer[v].at = "looked" => writer'[v].crossed)
  BY DEF ChainReset, Crossing, ChainInv, ChainTypeOK, WriterRecords
<1>2. erased' \subseteq Writers
  BY <1>1, LogTyped DEF ChainInv, ChainTypeOK
<1>n. /\ walk'.at = walk.at /\ walk'.next = walk.next /\ walk'.prev = walk.prev
      /\ walk'.early = walk.early /\ walk'.stale = (Walking /\ (walk.stale \/ walk.next > 1))
      /\ ChainTypeOK'
  <2>1. PICK b \in BOOLEAN : b = (Walking /\ (walk.stale \/ walk.next > 1))
    OBVIOUS
  <2>2. walk' = [walk EXCEPT !.stale = b]
    BY <1>1, <2>1
  <2>3. /\ walk'.at = walk.at /\ walk'.next = walk.next /\ walk'.prev = walk.prev
        /\ walk'.early = walk.early /\ walk'.stale = b /\ walk' \in WalkRecords
    BY <2>2, LocalsTyped DEF ChainInv, WalkRecords
  <2>4. ChainTypeOK'
    <3>1. log' \in Seq(Entries)
      BY <1>1
    <3> QED
      BY <1>1, <1>2, <2>3, <3>1 DEF ChainInv, ChainTypeOK, WriterRecords, WalkRecords
  <2> QED
    BY <2>1, <2>3, <2>4
<1>3. ChainTypeOK'
  BY <1>n
<1>4. \A v \in Writers : Entered(v) => v \in erased'
  BY <1>1 DEF Entered
<1>5. \A v \in Writers : WriterFits(v)'
  BY <1>1, <1>4 DEF ChainInv, WriterFits, Locked
<1>6. WalkInv'
  <2> SUFFICES ASSUME Walking PROVE WalkFits'
    BY <1>n DEF WalkInv, Walking
  <2>1. walk.next \in Nat \ {0} /\ WalkFits /\ walk.early \subseteq Writers
    BY DEF ChainInv, ChainTypeOK, WalkInv
  <2>2. ASSUME ~walk'.stale PROVE walk'.next = 1 /\ walk'.prev = Genesis
    <3>1. walk.stale \in BOOLEAN
      BY LocalsTyped DEF ChainInv, WalkRecords
    <3>2. ~walk.stale /\ ~(walk.next > 1)
      BY <1>n, <2>2, <3>1
    <3>3. walk.next = 1
      BY <2>1, <3>2
    <3> QED
      BY <1>n, <2>1, <3>2, <3>3 DEF WalkFits, PrevOf
  <2>3. Len(log') = 0 /\ DOMAIN log' = {}
    BY <1>1
  <2>4. \A w \in walk'.early : InLog(w)'
    BY <1>1, <1>n, <2>1 DEF WalkFits, InLog
  <2> QED
    BY <2>2, <2>3, <2>4 DEF WalkFits, PrevOf
<1>7. HashesDiffer'
  BY <1>1 DEF HashesDiffer
<1> QED
  BY <1>1, <1>3, <1>5, <1>6, <1>7 DEF ChainInv, InOrder

\* What verify alone changes touches no append and no entry.
LEMMA OnlyWalks ==
    ASSUME ChainInv, UNCHANGED <<system, log, writer, erased>>, ChainTypeOK', WalkInv'
    PROVE  ChainInv'
BY DEF ChainInv, WriterFits, EntryFits, InOrder, Entered, Linked, PrevOf, LastHash, Locked,
   HashesDiffer

LEMMA VerifyBeginKeeps == ASSUME ChainInv, VerifyBegin PROVE ChainInv'
<1> DEFINE E == {log[i].hash : i \in {j \in DOMAIN log : log[j].edited}}
<1>1. UNCHANGED <<system, log, writer, erased>>
  BY DEF VerifyBegin
<1>2. PICK s \in SUBSET Writers : s = E
  BY LogTyped DEF ChainInv
<1>3. walk' = [NotWalked EXCEPT !.at = "walking", !.early = s]
  BY <1>2 DEF VerifyBegin
<1>4. /\ walk'.at = "walking" /\ walk'.next = 1 /\ walk'.prev = Genesis /\ walk'.early = s
      /\ walk'.stale = FALSE /\ ChainTypeOK'
  <2>1. /\ walk'.at = "walking" /\ walk'.next = 1 /\ walk'.prev = Genesis /\ walk'.early = s
        /\ walk'.stale = FALSE /\ walk' \in WalkRecords
    <3>1. /\ NotWalked \in WalkRecords /\ NotWalked.next = 1 /\ NotWalked.prev = Genesis
          /\ NotWalked.stale = FALSE
      <4>1. {} \in SUBSET Writers /\ 1 \in Nat \ {0} /\ Genesis \in Writers \cup {Genesis}
        OBVIOUS
      <4> QED
        BY <4>1 DEF NotWalked, WalkRecords
    <3> QED
      BY <1>3, <3>1 DEF WalkRecords
  <2> QED
    BY <1>1, <2>1 DEF ChainInv, ChainTypeOK, WalkRecords
<1>5. Len(log) \in Nat /\ DOMAIN log = 1..Len(log)
  BY DEF ChainInv, ChainTypeOK
<1>6. \A w \in s : InLog(w)
  BY <1>2 DEF ChainInv, EntryFits, InLog
<1>7. ASSUME NEW i \in DOMAIN log, log[i].hash \in s PROVE log[i].edited /\ 1 <= i
  <2>1. PICK j \in DOMAIN log : log[j].edited /\ log[j].hash = log[i].hash
    BY <1>2, <1>7
  <2> QED
    BY <1>5, <2>1 DEF ChainInv, HashesDiffer
<1>8. WalkFits'
  BY <1>1, <1>4, <1>5, <1>6, <1>7 DEF WalkFits, PrevOf, InLog
<1> QED
  BY <1>1, <1>4, <1>8, OnlyWalks DEF WalkInv

LEMMA VerifyEntryKeeps == ASSUME ChainInv, VerifyEntry PROVE ChainInv'
<1>1. /\ UNCHANGED <<system, log, writer, erased>>
      /\ Walking /\ walk.next \in DOMAIN log /\ WalkFits
  BY DEF VerifyEntry, ChainInv, WalkInv
<1>2. log[walk.next].hash \in Writers /\ Len(log) \in Nat /\ DOMAIN log = 1..Len(log)
  BY <1>1, LogTyped DEF ChainInv, ChainTypeOK
<1>3. CASE ~Sound(log[walk.next], walk.prev)
  <2>1. walk' = [walk EXCEPT !.at = "broken"]
    BY <1>3 DEF VerifyEntry
  <2>2. ~Walking' /\ ChainTypeOK'
    BY <1>1, <2>1 DEF Walking, ChainInv, ChainTypeOK
  <2> QED
    BY <1>1, <2>2, OnlyWalks DEF WalkInv
<1>4. CASE Sound(log[walk.next], walk.prev)
  <2>1. PICK h \in Writers : h = log[walk.next].hash
    BY <1>2
  <2>2. walk' = [walk EXCEPT !.next = @ + 1, !.prev = h]
    BY <1>4, <2>1 DEF VerifyEntry
  <2>3. /\ walk'.at = walk.at /\ walk'.next = walk.next + 1 /\ walk'.prev = h
        /\ walk'.early = walk.early /\ walk'.stale = walk.stale /\ ChainTypeOK'
        /\ walk.next \in Nat \ {0}
    <3>1. /\ walk'.at = walk.at /\ walk'.next = walk.next + 1 /\ walk'.prev = h
          /\ walk'.early = walk.early /\ walk'.stale = walk.stale /\ walk' \in WalkRecords
          /\ walk.next \in Nat \ {0}
      <4>1. walk \in WalkRecords
        BY LocalsTyped DEF ChainInv
      <4>2. walk.next \in Nat \ {0}
        BY <4>1 DEF WalkRecords
      <4>3. PICK n \in Nat \ {0} : n = walk.next + 1
        BY <4>2
      <4>4. walk' = [walk EXCEPT !.next = n, !.prev = h]
        BY <2>2, <4>3
      <4> QED
        BY <4>1, <4>2, <4>3, <4>4 DEF WalkRecords
    <3> QED
      BY <1>1, <3>1 DEF ChainInv, ChainTypeOK, WalkRecords
  <2>4. ~log[walk.next].edited
    BY <1>4 DEF Sound
  <2>5. walk'.next <= Len(log) + 1 /\ PrevOf(walk.next + 1) = h
    BY <1>1, <1>2, <2>1, <2>3 DEF PrevOf
  <2>6. ASSUME NEW i \in DOMAIN log, log[i].hash \in walk.early
        PROVE  log[i].edited /\ walk.next + 1 <= i
    <3>1. log[i].edited /\ walk.next <= i
      BY <1>1, <2>6 DEF WalkFits
    <3> QED
      BY <1>2, <2>3, <2>4, <3>1
  <2>7. WalkFits'
    BY <1>1, <2>3, <2>5, <2>6 DEF WalkFits, PrevOf, InLog
  <2> QED
    BY <1>1, <2>3, <2>7, OnlyWalks DEF WalkInv
<1> QED
  BY <1>3, <1>4

LEMMA VerifyEndKeeps == ASSUME ChainInv, VerifyEnd PROVE ChainInv'
<1>1. UNCHANGED <<system, log, writer, erased>> /\ walk' = [walk EXCEPT !.at = "intact"]
  BY DEF VerifyEnd
<1>2. ~Walking' /\ ChainTypeOK'
  BY <1>1 DEF Walking, ChainInv, ChainTypeOK
<1> QED
  BY <1>1, <1>2, OnlyWalks DEF WalkInv

LEMMA ChainStep == ChainInv /\ [ChainNext]_chainVars => ChainInv'
<1> SUFFICES ASSUME ChainInv, [ChainNext]_chainVars PROVE ChainInv'
  OBVIOUS
<1>1. CASE UNCHANGED chainVars
  <2>1. ChainTypeOK'
    BY <1>1 DEF chainVars, ChainInv, ChainTypeOK
  <2>2. WalkInv'
    BY <1>1 DEF chainVars, ChainInv, WalkInv, WalkFits, Walking, InLog, PrevOf
  <2> QED
    BY <1>1, <2>1, <2>2, OnlyWalks DEF chainVars
<1> QED
  BY <1>1, LookKeeps, AddKeeps, AddLockedKeeps, HandOverKeeps, TamperKeeps, ResetKeeps,
     VerifyBeginKeeps, VerifyEntryKeeps, VerifyEndKeeps DEF ChainNext

\* The invariant of audit chains: what appends and a
\* verify in flight hold, and what entries do.
THEOREM ChainsAreSound == ChainSpec => []ChainInv
BY ChainInitially, ChainStep, PTL DEF ChainSpec

\* Logs, writers and walks are of the right type.
THEOREM ChainsTyped == ChainSpec => []ChainTypeOK
<1>1. ChainInv => ChainTypeOK
  BY DEF ChainInv
<1> QED
  BY <1>1, ChainsAreSound, PTL

\* Under the lock no chain forks.
THEOREM LockKeepsChainsWhole == ChainSpec => []LockedChainsAreWhole
<1>1. ChainInv => LockedChainsAreWhole
  BY DEF ChainInv, EntryFits, LockedChainsAreWhole
<1> QED
  BY <1>1, ChainsAreSound, PTL

\* The log is never behind what was handed on.
THEOREM RecordsKeepUp == ChainSpec => []RecordKeepsUp
<1>1. ChainInv => RecordKeepsUp
  BY DEF ChainInv, WriterFits, Entered, InOrder, RecordKeepsUp
<1> QED
  BY <1>1, ChainsAreSound, PTL

\* For any number of writers, edits and resets under verify's loop, what it calls
\* broken was edited, crossed an append or a reset, or follows what a reset took
\* from under the loop; and every edit made before it began is found in time.
THEOREM VerifiesBlameRightly == ChainSpec => VerifyBlamesRightly
<1> DEFINE Blames ==
      /\ walk'.at = "broken" => log[walk.next].edited \/ log[walk.next].crossed \/ walk.stale
      /\ \A i \in DOMAIN log : log[i].hash \in walk.early => walk'.at = "broken" /\ walk.next <= i
<1>1. ASSUME ChainInv, [ChainNext]_chainVars, Walking, ~Walking' PROVE Blames
  <2>1. /\ WalkFits /\ Len(log) \in Nat /\ DOMAIN log = 1..Len(log)
        /\ walk.next \in Nat \ {0} /\ walk.stale \in BOOLEAN
    BY <1>1 DEF ChainInv, ChainTypeOK, WalkInv
  <2>2. CASE VerifyEntry
    <3>1. walk.next \in DOMAIN log /\ (~Sound(log[walk.next], walk.prev) \/ walk'.at = walk.at)
      BY <2>2 DEF VerifyEntry, ChainTypeOK, ChainInv
    <3>2. ~Sound(log[walk.next], walk.prev)
      BY <1>1, <3>1 DEF Walking
    <3>3. walk'.at = "broken"
      BY <1>1, <2>2, <3>2 DEF VerifyEntry, ChainTypeOK, ChainInv
    <3>4. ASSUME ~walk.stale, ~log[walk.next].edited PROVE log[walk.next].crossed
      BY <1>1, <2>1, <3>1, <3>2, <3>4 DEF Sound, WalkFits, ChainInv, EntryFits, Linked
    <3> QED
      BY <2>1, <3>3, <3>4 DEF WalkFits
  <2>3. CASE VerifyEnd
    <3>1. walk'.at = "intact" /\ walk.next > Len(log)
      BY <1>1, <2>3 DEF VerifyEnd, ChainTypeOK, ChainInv
    <3> QED
      BY <2>1, <3>1 DEF WalkFits
  <2>4. ASSUME UNCHANGED walk PROVE FALSE
    BY <1>1, <2>4 DEF Walking
  <2>5. ASSUME ChainReset PROVE FALSE
    BY <1>1, <2>5 DEF Walking, ChainReset, ChainInv, ChainTypeOK
  <2>6. ASSUME VerifyBegin PROVE FALSE
    BY <1>1, <2>6 DEF VerifyBegin
  <2> QED
    BY <1>1, <2>2, <2>3, <2>4, <2>5, <2>6
       DEF ChainNext, chainVars, Look, Add, AddLocked, HandOver, Tamper
<1> QED
  BY <1>1, ChainsAreSound, PTL DEF ChainSpec, VerifyBlamesRightly

-----------------------------------------------------------------------------
(* field-vault *)

\* What the ingest of resetter r has still to put back of claim i.
OwesIdentity(r, i) ==
    \/ resetter[r].at \in {"records", "intake"}
    \/ resetter[r].at = "token" /\ resetter[r].claim <= i
    \/ resetter[r].at = "store" /\ resetter[r].claim < i

OwesRecord(r, i) ==
    \/ resetter[r].at \in {"records", "intake"}
    \/ resetter[r].at \in {"token", "store"} /\ resetter[r].claim <= i

OwesNote(r, i) ==
    \/ resetter[r].at \in {"records", "intake", "token", "store"}
    \/ resetter[r].at = "notes" /\ resetter[r].claim <= i

\* What is missing some ingest still owes.
OwedInv ==
    \A i \in All :
        /\ i \in identity \/ \E r \in Resetters : OwesIdentity(r, i)
        /\ i \in records \/ \E r \in Resetters : OwesRecord(r, i)
        /\ i \in intake \/ \E r \in Resetters : OwesNote(r, i)

\* A request that no reset crossed is being served with none under way.
ReadersInv ==
    \A q \in Readers :
        /\ reader[q].at \in {"asking", "found"} /\ ~reader[q].crossed => ~Underway
        /\ reader[q].at = "found" => reader[q].request # "note"
        /\ reader[q].at = "answered" /\ ~reader[q].crossed => reader[q].answer = Right[reader[q].request]

VaultInv == VaultTypeOK /\ OwedInv /\ ReadersInv

LEMMA NothingOwedAtRest ==
    ASSUME OwedInv, ~Underway
    PROVE  All \subseteq identity /\ All \subseteq records /\ All \subseteq intake
BY DEF OwedInv, Underway, OwesIdentity, OwesRecord, OwesNote

\* A step of an ingest: what it no longer owes it has put there.
LEMMA IngestKeeps ==
    ASSUME VaultInv, NEW r \in Resetters,
           ClearVault(r) \/ ClearRecords(r) \/ ClearIntake(r) \/ Tokenize(r) \/ Store(r) \/ StoreNote(r)
    PROVE  VaultInv'
<1> USE ClaimsAssumption DEF VaultInv, Goes
<1>1. /\ resetter[r] \in [at : {"rested", "records", "intake", "token", "store", "notes"}, claim : All]
      /\ 1 \in All /\ All \subseteq Nat
      /\ resetter[r].claim < Claims => resetter[r].claim + 1 \in All
  BY DEF VaultTypeOK, All
<1>2. \A s \in Resetters \ {r} : resetter'[s] = resetter[s]
  BY DEF ClearVault, ClearRecords, ClearIntake, Tokenize, Store, StoreNote, VaultTypeOK
<1>3. /\ Tokenize(r) => resetter'[r] = [at |-> "store", claim |-> resetter[r].claim]
      /\ Store(r) /\ resetter[r].claim < Claims =>
            resetter'[r] = [at |-> "token", claim |-> resetter[r].claim + 1]
      /\ Store(r) /\ ~(resetter[r].claim < Claims) => resetter'[r] = [at |-> "notes", claim |-> 1]
      /\ StoreNote(r) /\ resetter[r].claim < Claims =>
            resetter'[r] = [at |-> "notes", claim |-> resetter[r].claim + 1]
      /\ StoreNote(r) /\ ~(resetter[r].claim < Claims) => resetter'[r] = [at |-> "rested", claim |-> 1]
  BY DEF Tokenize, Store, StoreNote, VaultTypeOK
<1>4. VaultTypeOK'
  <2> USE <1>1
  <2>1. CASE ClearVault(r)
    BY <2>1 DEF ClearVault, VaultTypeOK
  <2>2. CASE ClearRecords(r) \/ ClearIntake(r)
    <3>1. resetter' \in [Resetters -> [at : {"rested", "records", "intake", "token", "store", "notes"},
                                       claim : All]]
      BY <2>2 DEF ClearRecords, ClearIntake, VaultTypeOK
    <3> QED
      BY <2>2, <3>1 DEF ClearRecords, ClearIntake, VaultTypeOK
  <2>3. CASE Tokenize(r)
    BY <2>3 DEF Tokenize, VaultTypeOK
  <2>4. CASE Store(r)
    <3>1. resetter' \in [Resetters -> [at : {"rested", "records", "intake", "token", "store", "notes"},
                                       claim : All]]
      BY <2>4 DEF Store, VaultTypeOK
    <3> QED
      BY <2>4, <3>1 DEF Store, VaultTypeOK
  <2>5. CASE StoreNote(r)
    <3>1. resetter' \in [Resetters -> [at : {"rested", "records", "intake", "token", "store", "notes"},
                                       claim : All]]
      BY <2>5 DEF StoreNote, VaultTypeOK
    <3> QED
      BY <2>5, <3>1 DEF StoreNote, VaultTypeOK
  <2> QED
    BY <2>1, <2>2, <2>3, <2>4, <2>5
<1>5. OwedInv'
  <2> SUFFICES ASSUME NEW i \in All
               PROVE  /\ i \in identity' \/ \E s \in Resetters : OwesIdentity(s, i)'
                      /\ i \in records' \/ \E s \in Resetters : OwesRecord(s, i)'
                      /\ i \in intake' \/ \E s \in Resetters : OwesNote(s, i)'
    BY DEF OwedInv, All
  <2>1. \A s \in Resetters \ {r} :
          /\ OwesIdentity(s, i)' <=> OwesIdentity(s, i)
          /\ OwesRecord(s, i)' <=> OwesRecord(s, i)
          /\ OwesNote(s, i)' <=> OwesNote(s, i)
    BY <1>2 DEF OwesIdentity, OwesRecord, OwesNote
  <2>2. /\ i \in identity \/ \E s \in Resetters : OwesIdentity(s, i)
        /\ i \in records \/ \E s \in Resetters : OwesRecord(s, i)
        /\ i \in intake \/ \E s \in Resetters : OwesNote(s, i)
    BY DEF OwedInv
  <2> USE <1>1, <1>3
  <2> /\ i \in Nat /\ resetter[r].claim \in Nat /\ Claims \in Nat
      /\ i <= Claims /\ resetter[r].claim <= Claims /\ 1 <= i
    BY DEF All
  <2>3. /\ i \in identity => i \in identity' \/ OwesIdentity(r, i)'
        /\ OwesIdentity(r, i) => i \in identity' \/ OwesIdentity(r, i)'
    <3>1. CASE ClearVault(r) \/ ClearRecords(r) \/ ClearIntake(r)
      BY <3>1, <1>1 DEF ClearVault, ClearRecords, ClearIntake, OwesIdentity, VaultTypeOK, All
    <3>2. CASE Tokenize(r)
      BY <3>2 DEF Tokenize, OwesIdentity, All
    <3>3. CASE Store(r)
      <4>1. CASE resetter[r].claim < Claims
        BY <3>3, <4>1 DEF Store, OwesIdentity
      <4>2. CASE ~(resetter[r].claim < Claims)
        BY <3>3, <4>2 DEF Store, OwesIdentity
      <4> QED
        BY <4>1, <4>2
    <3>4. CASE StoreNote(r)
      <4>1. CASE resetter[r].claim < Claims
        BY <3>4, <4>1 DEF StoreNote, OwesIdentity
      <4>2. CASE ~(resetter[r].claim < Claims)
        BY <3>4, <4>2 DEF StoreNote, OwesIdentity
      <4> QED
        BY <4>1, <4>2
    <3> QED
      BY <3>1, <3>2, <3>3, <3>4
  <2>4. /\ i \in records => i \in records' \/ OwesRecord(r, i)'
        /\ OwesRecord(r, i) => i \in records' \/ OwesRecord(r, i)'
    <3>1. CASE ClearVault(r) \/ ClearRecords(r) \/ ClearIntake(r)
      BY <3>1, <1>1 DEF ClearVault, ClearRecords, ClearIntake, OwesRecord, VaultTypeOK, All
    <3>2. CASE Tokenize(r)
      BY <3>2 DEF Tokenize, OwesRecord, All
    <3>3. CASE Store(r)
      <4>1. CASE resetter[r].claim < Claims
        BY <3>3, <4>1 DEF Store, OwesRecord
      <4>2. CASE ~(resetter[r].claim < Claims)
        BY <3>3, <4>2 DEF Store, OwesRecord
      <4> QED
        BY <4>1, <4>2
    <3>4. CASE StoreNote(r)
      <4>1. CASE resetter[r].claim < Claims
        BY <3>4, <4>1 DEF StoreNote, OwesRecord
      <4>2. CASE ~(resetter[r].claim < Claims)
        BY <3>4, <4>2 DEF StoreNote, OwesRecord
      <4> QED
        BY <4>1, <4>2
    <3> QED
      BY <3>1, <3>2, <3>3, <3>4
  <2>5. /\ i \in intake => i \in intake' \/ OwesNote(r, i)'
        /\ OwesNote(r, i) => i \in intake' \/ OwesNote(r, i)'
    <3>1. CASE ClearVault(r) \/ ClearRecords(r) \/ ClearIntake(r)
      BY <3>1, <1>1 DEF ClearVault, ClearRecords, ClearIntake, OwesNote, VaultTypeOK, All
    <3>2. CASE Tokenize(r)
      BY <3>2 DEF Tokenize, OwesNote, All
    <3>3. CASE Store(r)
      <4>1. CASE resetter[r].claim < Claims
        BY <3>3, <4>1 DEF Store, OwesNote
      <4>2. CASE ~(resetter[r].claim < Claims)
        BY <3>3, <4>2 DEF Store, OwesNote
      <4> QED
        BY <4>1, <4>2
    <3>4. CASE StoreNote(r)
      <4>1. CASE resetter[r].claim < Claims
        BY <3>4, <4>1 DEF StoreNote, OwesNote
      <4>2. CASE ~(resetter[r].claim < Claims)
        BY <3>4, <4>2 DEF StoreNote, OwesNote
      <4> QED
        BY <4>1, <4>2
    <3> QED
      BY <3>1, <3>2, <3>3, <3>4
  <2> QED
    BY <2>1, <2>2, <2>3, <2>4, <2>5
<1>6. ReadersInv'
  <2>1. CASE ClearVault(r)
    BY <2>1 DEF ClearVault, ReadersInv, VaultTypeOK
  <2>2. CASE ~ClearVault(r)
    <3>1. reader' = reader /\ Underway
      BY <2>2 DEF ClearRecords, ClearIntake, Tokenize, Store, StoreNote, Underway
    <3> QED
      BY <3>1 DEF ReadersInv
  <2> QED
    BY <2>1, <2>2
<1> QED
  BY <1>4, <1>5, <1>6

LEMMA ReaderKeeps ==
    ASSUME VaultInv, NEW q \in Readers,
           \/ \E request \in Requests, claim \in All : Request(q, request, claim)
           \/ Find(q) \/ Disclose(q) \/ FindNote(q)
    PROVE  VaultInv'
<1> USE DEF VaultInv, Answers
<1>1. UNCHANGED <<records, identity, intake, resetter>> /\ Underway' = Underway
  BY DEF Request, Find, Disclose, FindNote, surfaces, Underway
<1>2. OwedInv'
  BY <1>1 DEF OwedInv, OwesIdentity, OwesRecord, OwesNote
<1>3. VaultTypeOK'
  <2>1. reader' \in [Readers -> [at : {"unasked", "asking", "found", "answered"},
                                 request : Requests, claim : All, crossed : BOOLEAN,
                                 answer : {"none", "unknown", "denied", "token", "original",
                                           "nothing", "note"}]]
    <3>1. CASE \E request \in Requests, claim \in All : Request(q, request, claim)
      BY <3>1 DEF Request, VaultTypeOK, Underway
    <3>2. CASE Find(q) \/ FindNote(q)
      BY <3>2 DEF Find, FindNote, VaultTypeOK
    <3>3. CASE Disclose(q)
      <4>1. reader[q].request \in {"denied", "read", "reidentify"}
        BY <3>3 DEF Disclose, VaultTypeOK, ReadersInv, Requests
      <4>2. PICK answer \in {"denied", "token", "original", "nothing"} :
                reader' = [reader EXCEPT ![q].at = "answered", ![q].answer = answer]
        BY <3>3, <4>1 DEF Disclose
      <4>3. answer \in {"none", "unknown", "denied", "token", "original", "nothing", "note"}
        OBVIOUS
      <4> HIDE DEF VaultInv
      <4>4. reader' = [reader EXCEPT ![q] = [reader[q] EXCEPT !.at = "answered", !.answer = answer]]
        BY <4>2, Zenon
      <4>5. VaultTypeOK
        BY DEF VaultInv
      <4> QED
        BY <4>3, <4>4, <4>5 DEF VaultTypeOK
    <3> QED
      BY <3>1, <3>2, <3>3
  <2> QED
    BY <1>1, <2>1 DEF VaultTypeOK
<1>4. ASSUME NEW p \in Readers
      PROVE  /\ reader'[p].at \in {"asking", "found"} /\ ~reader'[p].crossed => ~Underway
             /\ reader'[p].at = "found" => reader'[p].request # "note"
             /\ reader'[p].at = "answered" /\ ~reader'[p].crossed
                  => reader'[p].answer = Right[reader'[p].request]
  <2>1. CASE p # q
    BY <2>1 DEF ReadersInv, Request, Find, Disclose, FindNote, VaultTypeOK
  <2>2. CASE p = q /\ \E request \in Requests, claim \in All : Request(q, request, claim)
    BY <2>2 DEF Request, VaultTypeOK
  <2>3. CASE p = q /\ (Find(q) \/ Disclose(q) \/ FindNote(q))
    <3>1. reader[q].claim \in All /\ reader[q].request \in Requests
      BY DEF VaultTypeOK
    <3>2. ~Underway => reader[q].claim \in identity /\ reader[q].claim \in records /\ reader[q].claim \in intake
      BY <3>1, NothingOwedAtRest
    <3> QED
      BY <2>3, <3>1, <3>2 DEF ReadersInv, Find, Disclose, FindNote, VaultTypeOK, Right, Requests
  <2> QED
    BY <2>1, <2>2, <2>3
<1>5. ReadersInv'
  BY <1>1, <1>4 DEF ReadersInv
<1> QED
  BY <1>2, <1>3, <1>5

\* However the resets of field-vault overlap: what is missing some ingest still owes.
THEOREM VaultIsRefilled == VaultSpec => []VaultInv
<1>1. VaultInit => VaultInv
  BY ClaimsAssumption DEF VaultInit, VaultInv, VaultTypeOK, OwedInv, ReadersInv, All, Rested,
     Unasked, Requests, Underway
<1>2. VaultInv /\ [VaultNext]_vaultVars => VaultInv'
  <2> SUFFICES ASSUME VaultInv, [VaultNext]_vaultVars PROVE VaultInv'
    OBVIOUS
  <2>1. CASE UNCHANGED vaultVars
    BY <2>1 DEF vaultVars, VaultInv, VaultTypeOK, OwedInv, ReadersInv, OwesIdentity, OwesRecord,
       OwesNote, Underway
  <2> QED
    BY <2>1, IngestKeeps, ReaderKeeps DEF VaultNext
<1> QED
  BY <1>1, <1>2, PTL DEF VaultSpec

\* After the last of them every record, identity and note is there, and an answer that
\* no reset crossed is the right one.
THEOREM AnswersAlwaysSurviveResets == VaultSpec => []AnswersSurviveResets
<1>1. VaultInv => AnswersSurviveResets
  BY NothingOwedAtRest DEF VaultInv, VaultTypeOK, ReadersInv, AnswersSurviveResets
<1> QED
  BY <1>1, VaultIsRefilled, PTL
=============================================================================
