# Verification project for ai-portfolio

TLA+ specifications of the parts of this repository where order, failure and
concurrency decide whether the program is right, the TLC configurations that
check them on small instances, and TLAPS proofs of the results that matter for
every instance.

## 1. The system

The repository is a monorepo of independent projects under `src/projects/`.
Each is deployed on its own; what they share is the *idea* "code decides, the
model only reads or narrates" and a vendored copy of a fallback router for
language-model providers (`llm.py`, ported to TypeScript, Go and Ruby where the
project is not Python). No project calls another, except `vigil`, which probes
the public health endpoint of each.

### 1.1 Components with state that outlives a request

| Project | Component | State it keeps | Operations | What is hard | What makes it correct |
|---|---|---|---|---|---|
| trueline | reconcile engine (`convex/lib/reconcile.ts`) | none (pure) | `reconcileLine` | two baselines, thresholds, a zero rate, a reviewer's override | flag and recoverable amount agree with each other |
| trueline | invoice store (`convex/invoices.ts`, `schema.ts`) | invoices, lines, purchase orders, catalog, tenant flags | create, submit, seed, baseline, review, correct, status, reset | transactions of several callers in any order | no orphan rows, tenants apart, decisions kept |
| trueline | extraction job (`convex/extract.ts`) | one run's position | read, extract, write, log, mark | not transactional, not retried, overtaken by every mutation | a late run resurrects nothing |
| trueline | dashboard (`app/app/page.tsx`) | one tab's position | auto-seed, load demo, upload, local extraction, fall back | a tab can be closed, two can be open, a call can fail | every upload settles |
| arbiter | proxy, response cache, rules, shadow judge, store | cache, rules, mode, samples, probe | chat, set rules, set mode, generate, reset | threads without a lock; an answer outlives the rules it was made under | no unmeasured substitute answers; the cache is bounded |
| persona-twin | model router and circuit breaker (`llm/`) | failures and cooldowns per model | complete, stream, structured, `PUT /routing` | requests on one event loop share half-open circuits | no model in use past its threshold, the mock last |
| persona-twin | twins, index, ingestion (`api/app.py`, `pipeline/`, `persona/store.py`, `vectorstore/`) | files, records, vector store, keyword index | create, delete, ingest, start up | the index is dropped and rebuilt across awaits, by several requests at once | the index is that of the twins |
| persona-twin | benchmark (`eval/benchmark.py`, `bench_store.py`) | one run, its task, result files | start, measure, stop | a task that is cancelled at any point | what was measured is kept |
| persona-twin | chat, ask, interview | sessions, answer cache | ask, chat | answers cached across changes of the index | outside these modules |
| agent-factory | durable runs and approval gate (`orchestrate.py`) | a checkpoint file per thread | run, pause, approve, resume | a crash or a second approval between acting and saving | acted on only when proposed, and once unless calls overlap or die |
| counsel | approval queue (`approvals.py`) | proposals and their decisions | propose, decide, reset | two people decide at once; a lock guards it | applied once or never |
| vigil | poller, checks and alerts (`probe.py`, `alerts.py`) | probes, breach set, events | probe cycle, probe now, evaluate, dispatch | overlapping cycles, a write that fails in one thread of many, cold starts | the status catches up, an outage is announced |
| vigil | the two stores (`_store_sqlite.py`, `_store_mongo.py`) | targets, checks, results, users, logs | register, remove, edit a check, record | the same calls, two data models; what was looked up may be gone | a caller cannot tell them apart |
| vigil | sessions, rate limiter, webhooks | users, buckets | login, throttle, report | expiry, a shared bucket | outside these modules |
| quorum | orchestrator fan-out and audit chain | audit entries | run a workflow, append, verify | threads append without a lock | verify never cries wolf |
| llm-gateway | gateway, cache, audit | audit chain, redaction maps | complete | one stage of a pipeline failing; the chain has a lock | as above |
| field-vault | records, vault, notes, audit trail | records, tokens, notes, audit chain | reset, read a field, re-identify, verify | emptied and refilled while it is read; no lock | nothing is missing after the last reset; a log as above |
| burnrate | background tasks (`tasks.py`) | a Redis list shared by the replicas | push, drain, run | a job is popped before it runs; whoever pushes also drains | every job is accounted for, none is left behind |
| burnrate, slo-kit | service, metrics, incident | counters, two windows, gauges | send, inject, reset, classify | zero traffic, budgets, one window that forgets and one that does not | an alarm ends, an exhausted budget is not silent |
| cycleledger | partitioned contributions, rollups, query guard | tables in PostgreSQL | insert, roll up, ask | boundaries between partitions | a rollup is the sum of its rows |
| txn-ledger, rate-atlas | seeded store, query assistant | one read-only database | query, roll up | a generated query must be read-only | nothing is written |

`relaytoken` and `rtc-guard` mint and check signed tokens and keep nothing but
the key. `agent-sandbox` runs one agent loop per request and keeps nothing.

### 1.2 Components that are pure functions of a request

`attack-surface`, `baseplate`, `doc-extract`, `evalkit`, `forecast`,
`multimodal-ocr`, `pii-redactor`, `postureline`, `promptguard`, `reconcile` and
`synth-data` compute an answer from a request and keep nothing, apart from the
router's short-lived probe cache. `tanglement-showcase` is documentation, a
static site and one command-line tool.

PROJECT.json lists every one of them with its status, and the hazards at their
lines.

## 2. Plan

Most important first; "done" is what the project holds today.

1. **trueline** (done): `Reconcile` (pure) -> `LineReview` (the engine over
   bounded inputs and corrections); `InvoiceLedger` (abstract) <-
   `TruelineInvoices` (store and job) <- `TruelineDashboard` (clients on top).
   Proved: every safety property that is checked, both refinements, and that the
   engine's bounds hold of every stored line.
2. **arbiter** (done): `ArbiterProxy`, with the evidence behind every
   substitution as its main property; `AnswerMap` (abstract) <- its response cache.
   Proved: every property that is checked, and the refinement.
3. **persona-twin** (done): `TwinRouter` (the router and its breaker), `TwinIndex`
   (twins and their index) and `TwinBenchmark`, checked together by `MCPersonaTwin`;
   `ModelBreaker` (abstract) <- `TwinRouter`.
   Proved: every property that is checked, and the refinement.
4. **agent-factory and counsel** (done): `ApprovalGate` (abstract) <-
   `DurableRuns` and <- `CounselApprovals`, two mechanisms of the same promise.
   Proved: both refinements and every property of the durable runs.
5. **audit chains** (done): `AuditChain`, one module for the append that has a
   lock in llm-gateway and none in quorum and field-vault. Proved: every
   property that is checked.
6. **vigil** (done): `VigilMonitor` (overlapping cycles, threads, alerts, failing
   writes, restarts) and `VigilStores` (two backends under the same calls).
   Proved: every safety property that is checked.
7. **burnrate** and **field-vault** (done): `BurnrateTasks` (the job list between
   replicas; `JobQueue` (abstract) <- `BurnrateTasks`), `BurnrateSlo` (windows, gauges,
   severity) and `FieldVault` (records that are refilled while they are read).
   Proved: every property that is checked, and the refinement.

What is left by now is single components that share nothing with others: vigil's
sessions and its rate limiter, persona-twin's answer cache, cycleledger's rollups.

Theorem still worth having: an abstract check store that both of vigil's backends
implement; so far their agreement is an invariant.

## 3. How to read and run it

Every `MC*.tla` instantiates a module for TLC and every `.cfg` is one run:
`tlc -config PersonaTwin.cfg MCPersonaTwin.tla`. The modules named `*Proofs`
and `NaturalFacts` hold theorems: `tlapm PersonaTwinProofs.tla`. An operator
whose comment begins "A slip" or "Slips" is not the program: it is the definition
below it with the kind of mistake the properties are meant to notice, and
PROJECT.json ("mutants") says which property notices which slip. PROJECT.json
("map") gives the lines each definition stands for.

| Run | Configuration | Distinct states | Question |
|---|---|---|---|
| `line_review` | LineReview.cfg | 106 thousand | do flag, amounts and corrections agree? |
| `trueline_invoices` | TruelineInvoices.cfg | 131 thousand | what survives a late, failed, repeated or lost run? |
| `trueline_dashboard` | TruelineDashboard.cfg | 555 thousand | does its own client ever extract over a decision, or leave an invoice to nobody? |
| `trueline_uploads` | TruelineUploads.cfg | 86 thousand | does every upload end whose calls succeed? (liveness) |
| `trueline_stranded` | TruelineStranded.cfg | finds a counterexample | and when a tab is closed? |
| `arbiter` | ArbiterProxy.cfg | 1.1 million | is every substitute answer measured? |
| `arbiter_threads` | ArbiterThreads.cfg | 214 thousand | how far is the cache's size overshot, and is it still a map? |
| `arbiter_observe` | ArbiterObserve.cfg | finds a counterexample | is observe mode read-only? |
| `persona_twin` | PersonaTwin.cfg | 1.1 million | do circuits, plans and requests agree; is the index that of the twins; are measurements kept? |
| `twin_trial` | TwinTrial.cfg | finds a counterexample | is there one half-open trial? |
| `governance` | Governance.cfg | 430 thousand | do the gates and the audit chains keep their word, and do resets that overlap? |
| `monitoring` | Monitoring.cfg | 463 thousand | what survives overlapping cycles and failing writes, are the stores one, where do jobs go, do alarms end? (liveness) |

`MCGovernance`, `MCMonitoring` and `MCPersonaTwin` run one mechanism in each behaviour
(`part`), which keeps the state space a sum and not a product. The parts share no
state in the code either: the router is asked by requests that leave the index
alone, and a benchmark builds routers of its own.

Type invariants are theorems, and no run repeats one that is proved. `CacheIsAMap`,
`StraysAreFromTheCache`, `RunsKnowTheirTenant`, `LockedChainsAreWhole`, the refinements
`ImplementsBreakers` and `ImplementsQueue`, and the dashboard's `OneExtractor` are
theorems only, too, and so are `NoOrphanLines` and `ExtractingHasNoLines`, which
`ImplementsLedger` implies: the proofs cover them for every instance, and the runs
have their room for the rest.

No run uses deadlock checking: every system here may come to rest. A user need
not act, a request runs once, and the bounds on edits, faults and ids are used
up at some point.

## 4. trueline

### 4.1 Reconcile and LineReview

`Reconcile` is `reconcileLine` with its helpers, as operators: the look-up by
sku or else by description, the benchmark (the lower of the two prices), the
variance over 3% and 10%, the arithmetic check and the flag. Prices are whole
cents and the arithmetic is exact; a description is the listed item it resembles
(`FUZZY_MIN` over tokens is left out). `LineReview` reconciles one line against
up to two purchase orders and a catalog and then lets an estimator correct its
price, and with it the quantity or not, any number of times (`correctLine`'s
decision, without the table around it). Quantities are naturals: fractions and
negative ones, which `v.number()` admits, are left out.

`GreenIsCheap` bounds what is recoverable on a green line by 3% of what it should have
cost; `RedHasCause` says a red line with right arithmetic has an amount to claim back;
`CorrectingDownNeverEscalates` and `CorrectingToBenchmarkSettles` say what a correction
may do to the verdict. One call that lowers the price and raises the quantity may raise
the claim: then what is claimed per unit does not grow. The inputs contain both sides of
each threshold (103 and 104 around 3%, 111 above 10% of 100 cents), a zero and an absent
rate, extensions off by one and two cents (tolerance and beyond), an illegible line and
an item that is listed nowhere, and corrections to no quantity, a smaller and a larger
one.

Proved for all natural prices and quantities (`LineReviewProofs`, on lemmas about the
engine in `ReconcileProofs`): the type invariant, `GreenIsCheap` and `RedHasCause`, and
both action properties. A lower price is over no threshold that the higher one was not
over, and the overcharge of a unit shrinks with it, of which what is recoverable is a
multiple (`CorrectionsDownNeverEscalate`); a price at the benchmark is over neither
baseline, and the extension is computed from it (`CorrectionsToBenchmarkSettle`). The
look-ups are opaque to these proofs: a correction keeps the line's key, so it finds the
same baselines.

### 4.2 TruelineInvoices and InvoiceLedger

One variable per table (`inv` with its columns `totals`, `lines`, `orders`,
`hasCatalog`, `initialized`) and one per run of `extract.run` (`runs`). A Convex
mutation is a serializable transaction, so it is one action; a mutation that
throws changes nothing, so it is a guard. `extract.run` is an action in Convex's
sense: each of its calls is a step here (`RunRead`, `RunExtract`, `RunWrite`,
`RunLog`, `RunMark`), each may fail (`RunFault`) and the whole run may be dropped
(`RunLost`): Convex does not retry actions. Callers are the public API, any tenant
naming any id.

| Property | What could go wrong |
|---|---|
| `NoOrphanLines` (theorem only) | a run writes after `resetDemo` erased its invoice |
| `ExtractingHasNoLines` (theorem only) | `submitExtraction`'s guard protects a review only if "extracting" means there is none |
| `LinesAreOneExtraction` | a re-run inserts lines twice |
| `RunsKnowTheirTenant` (theorem only), `LinesStayInTenant` | `extract.run` trusts the tenant and the invoice it is handed |
| `OnlyCorrectionsUnbalance` | the stored rollup drifts from the lines |
| `SubmissionsKeepReview` | a client's submission erases a decision |
| `ImplementsLedger` | an invoice comes back, waits again or holds lines when it should not |

`InvoiceLedger` is the promise: an invoice is opened once, holds lines only once
settled and is gone when erased. The refinement maps the status column and the set
of invoices with lines, so `ImplementsLedger` implies the two that are theorems only.

Bounds: two tenants, one invoice id (both tenants can name it; the demo set needs
one), two runs at once, two readings (none and two lines), corrections of the price with
the quantity that was read and with another. Tenants and runs are not told apart by their
names, hence the symmetry. One id is enough for the
properties, which speak of one invoice at a time; the second tenant and the second
run are the actors that collide on it.

Proved (`TruelineInvoicesProofs`): `TypeOK`,
`NoOrphanLines`, `ExtractingHasNoLines`, `RunsKnowTheirTenant`, `LinesStayInTenant`
and `ImplementsLedger`, for any numbers of tenants, invoices, runs and readings.
The inductive invariant joins them: a run writes into an invoice of its own tenant
only because the id was that tenant's when the run was scheduled, ids are never
reused, and what existed then is either still that tenant's or erased.

The rest comes from one fact about steps, `NextLines`: whatever runs, an invoice's
lines and rollup are left alone, cleared, filled with one extraction and its totals (by
a run, or else only while there are no lines), or reviewed in one line. From it follow
`LinesAreOneExtraction` (by induction over those four), `OnlyCorrectionsUnbalance`
and `SubmissionsKeepReview`. The totals are opaque to these proofs: sums are
folds, and facts about folds need induction over data; it is enough that a decision
other than a correction leaves the summands as they are. `StoredLinesAreSound` carries
the engine's two bounds (4.1) to the store: every stored verdict is what the engine
said of the price stored with it under some contract, perhaps one that has been
replaced since.

### 4.3 TruelineDashboard

The tabs of `page.tsx` on top of the store: each await is a step boundary, `todo` is the
loop over the demo set. Every call may throw, for what the backend refuses (an invoice
that is gone), and because the platform or the session fails (`CallFails`). What becomes
of the upload then is the code's: a submission that fails falls back to the server, a
creation gives up this upload (`CreateFails`), and the hand-over to the server, which is
outside the try, leaves the loop with the invoice waiting (`FallBackRefused`,
`FallBackFails`, together with `LoadDemoFails` in `GivesUp`). `MayFail` are the uploads
whose calls may fail. A tab keeps its tenant. `trueline_dashboard` drives the store by
its own client, two tabs that are opened and closed at any point, and shows that the
client never causes the loss the API allows (section 9), and that an invoice is left
waiting for nobody only by three losses: a tab that is closed while it holds the
invoice, a hand-over to the server whose call fails, and a run the platform drops
(`OnlyLossStrands`; the run has the first two, the proof all three). Tabs and invoice
ids are interchangeable there, hence the symmetry.

Proved (`TruelineInvoicesProofs`), for any numbers of tabs, runs and invoices, and a
finite demo set (`DEMO_INVOICES` is a literal): every step of a tab is a step
of the store or leaves it alone (`DashboardImplementsBackend`), so every theorem of
4.2 holds under the client too; and `ExtractionsKeepReview` (`ClientKeepsReview`),
which the API alone violates. Its invariant is `OneExtractor`: of the tabs that
try their local model on an invoice and the runs that have not written yet, at most
one is about that invoice, and the invoice has no lines then. A tab has just
created an invoice when it begins on it, the run is scheduled as the tab lets go,
and nothing else schedules one. `OnlyLossStrands` (`StrandingNeedsALoss`) needs one fact
more, that a tab or a run about an invoice is its owner's: only then does the store
accept what settles the invoice, so that every step that lets go of it has either
settled it or handed it on. It is the safety half of `UploadSettles`: what
fairness cannot mend arises from a loss and from nothing else.

`trueline_uploads` checks `UploadSettles`: an upload leaves "extracting", unless a call
of its own fails; calls of other uploads may, at any point, and end the loop they are
in. Fairness:
weak fairness of each open tab's code and of each run's steps. The browser's
event loop and Convex's scheduler justify it: both go on with code that is ready.
Nothing is assumed of users, of faults or of a run that is dropped, and in this
run no tab is closed and no run dropped: `trueline_stranded` lifts the first of
these and finds the invoice that waits forever, a finding in PROJECT.json.

## 5. arbiter

`ArbiterProxy` cuts `handle()` where a thread may be preempted between two
accesses to shared state: look-up (`Ask`, `Drop` for the expired entry), `Decide`,
`Call`, the four stages of `ResponseCache.put` (`PutCheck`, `PutSweep`, `PutEvict`,
`PutInsert`), `Judge`, `Shadow`, `Deliver`. `admins` holds operators' calls whose
second half, the copy to the meta table, is a step of its own; `saved` is that
table, `Restart` reads it. `up` is the world: which providers answer. `Toggle`,
`ProbeExpires`, `EntryExpires` and `Restart` are faults, bounded by `MaxFaults`.

| Property | What could go wrong |
|---|---|
| `RoutesHaveEvidence` | samples, generated and hand-made rules, floors and resets in any order end in an unmeasured model answering |
| `CacheHoldsMeasuredAnswers` | the cache remembers such an answer, or the offline stub of an outage |
| `RestartKeepsSettings` | an edit is acknowledged but not stored |
| `CacheBounded` | the unlocked check is overshot by more than the threads in flight |
| `ImplementsAnswerMap` | an interleaving mixes up two keys, serves an expired answer, or lets a thread that was served write the answer back with a new expiry |
| `CacheIsAMap` (theorem only) | two threads insert the same key twice |
| `StraysAreFromTheCache` (theorem only) | the mode is read again at every step while an operator changes it, and a request is routed outside route mode |

Bounds: `arbiter` has one thread, one operator, two models, two requests, three
edits and one fault: enough to measure, generate, route, cache, change the floor
and restart, in any order. `arbiter_threads` has two threads and four prompts over
a cache of two: both may be anywhere in `put`, and eviction happens. Prompts and
threads are interchangeable, hence the symmetry.

`AnswerMap` is the promise of the response cache: an atomic map from requests to
answers somebody computed for that very request, each remembered whole until it is
forgotten and served while it is fresh. `ImplementsAnswerMap` maps the dict to the
set of answers under each key (a set, so that a key in the dict twice would show)
and each thread to its request and what the cache gave it. That two threads may
fail with a KeyError, one with an error while it searches a full cache another thread
changes (`PutCheck`), or drop an entry that was just renewed, is within the promise.

Proved (`ArbiterProxyProofs`, on `NaturalFacts`): all the properties of the table, for any
constants that satisfy `ArbiterAssumption`. The invariant has four layers: types;
the rules
in memory, in the meta table and on their way there carry evidence that is measured
or none; the honest threads (each position of a thread carries what earlier
positions established); the sound cache. Two arguments are
of their own kind. `CacheStaysNearItsSize` (which assumes room for at least two
entries: with one, the eviction of half of it removes nothing)
counts: the length of the cache plus the threads about to insert stays below the
size plus the threads. `RestartRestores` assumes a single operator:
with two, the copies may be written in the other order. The refinement
(`CacheImplementsMap`) takes each step to one of the map or to none; beside the
invariant it needs that a thread that was served only has to deliver.

`ObserveServesBaseline`, which `arbiter_observe` violates, is proved on the hypothesis
that no operator ever sends mode "route" (`NeverRoutes`,
`ObserveIsReadOnlyWithoutRouting`). A deployment that only observes satisfies it, with
every rule, sample, fault and restart the model has: the finding is therefore about
answers that were routed and cached before, and not about observe mode itself.

## 6. persona-twin

### 6.1 TwinRouter

`TwinRouter` goes from one await to the next. A request holds `complete`'s locals:
its plan, its place in it (`at`), the pass, what it skipped and what failed. When a
call ends, `FailOver`, `Retry` or `CutOff` records the outcome with the breaker and
`Proceed` runs the loop up to the next await: the next healthy model
(`CallHealthy`), the next skipped one in the second pass (`CallSkipped`), or the
error (`GiveUp`). All of it is one action, since nothing else runs on the event
loop meanwhile. `structured` requests are `complete_structured` with its retry, the only
caller of `complete`; `stream` ones are `stream_complete`, which cannot fail over after
a token. A client may leave at any await, and then nothing is recorded. An
answer, a second misfit and a departure end in the same state, "done": only errors
that name what failed are told apart.

The breaker's clock is abstracted: a circuit is open, its cooldown may elapse at
any time (`Elapse`), and `is_open`'s side effect on an elapsed circuit is in
`Looked`. "half" is a circuit that `is_open` closed and no answer has decided; the
code does not distinguish it from a closed one except by its failure count, and
`CircuitsFollowFailures` is the statement that the count does its work:

| Property | What could go wrong |
|---|---|
| `CircuitsFollowFailures` | late failures, successes and looks in any order leave a model in use at its threshold, or a trial that starts with the wrong count |
| `NobodyGivesUpEarly` | circuits that open and elapse between the two passes hide a model from both, or show it to both |
| `LastResortsComeLast` | the mock, or a model that cools down, is asked before its time |
| `FailedTrialsReopen` | a trial's failure leaves its circuit closed |

Bounds: two models that fail, with and without the mock, threshold 2 (the code's),
three requests that each run once, a question with its retry and two streams. Two
requests are the fewest that share a trial; the third is the late answer that
decides the circuit under them. Requests
start afresh, so a longer history of the breaker comes from their retries, and from
the proof.

Proved (`PersonaTwinProofs`): all four and `TypeOK`, for any finite registry, any
requests and any positive threshold. The breaker's part is inductive by itself and
kept by each breaker operation separately (`LookedIsSound`, `FailedIsSound`,
`SucceededIsSound`), whoever calls it. The request's part says what it has disposed of: in
the first pass exactly the models before its place have failed or were skipped; in
the second every model has, and of the skipped ones those ahead have not failed
(`Waiting`; `Settled` is the same between a failure and the next call). That the
mock's circuit never opens, since it never raises, is part of the invariant:
without it the second pass could not be shown to be out of the mock's reach.

`ModelBreaker` is what breaker.py:1-14 promises of a single model: a circuit closes
on a success, is open after `Threshold` failures in a row at the latest, stays open
until its cooldown is over and is then on trial until an answer decides it; a late
failure cannot end a cooldown, nor a look end a trial. `RouterImplementsBreakers`
shows that the one breaker all requests share is that for each model. A step of the
router reports one outcome and looks at one circuit at most (`Leaves`,
`LookedOnce`); an outcome leaves no elapsed circuit behind, so the look that
follows it moves another model's circuit or none, and each circuit takes one abstract
step. The abstract streak counts only while a circuit is closed: the code's
`_failures` is overwritten by a trial and means nothing while a cooldown runs.

### 6.2 TwinIndex

`disk` are the files of `PersonaStore`, `records` is `AppState.records`, `store` the
vector store and `bm25` the chunks of the keyword index. A twin is its id and the
number of its creation, so that one created again under its id is another, and
its chunks are that one value: what the code keys by chunk id is keyed by the twin's
id here, and a namesake's chunks replace the older ones (`Upserted`). In the code an
older chunk stays if the namesake has none of its document and position; what
explains it is then what explained it before.

A job is a handler between two awaits: `Create`, `Delete` and `Ingest` are what
happens up to the first, then come `Drop`, `Capture` (the records are cut into
chunks when the drop has returned, as they are *then*), `Upsert` for each batch,
`ReadAll` and `Build`. Which chunks a batch holds is left open. `boot` is
the start-up: `Count` ingests into an empty store only, and requests are accepted
once it is through. `FailJob` is an embedder or a store that raises, at any await;
`Restart` ends everything at any point, keeps the files and, with Atlas, the store.
A save or an unlink may fail and is only logged (`Save`, `Unlink`).

| Property | What could go wrong |
|---|---|
| `IndexIsWhole` | a rebuild that captured the records too early stores an index without a twin that was created meanwhile |
| `LeftoversHaveCause` | chunks of a deleted twin go on answering |
| `KeywordsCatchUp` | keyword search misses what vector search finds |

Each holds but for what the code does not guard against, and states that as an
exception, recorded by three history variables. `broken`: a request failed or was cut
short, and nothing was dropped since; an index that is rebuilt is whole again, so the
exception ends with the next `POST /ingest`. `raced`: two requests had read the chunks
for the keyword index at once, and the later to build may have read first. `haunted`:
twins that went while a request still held their chunks, or whose file was not there at
a restart. Section 9 lists what follows from each.

Bounds: the start-up and two requests, each free to run again; three ids, one of them
in the corpus; two creations, so one twin can be created, deleted and created again
beside another rebuild. Atlas, hybrid retrieval and a drop that waits are the case
with the most interleavings: the memory store awaits nothing in `drop` and
`all_chunks`, so its behaviours are among these, but for the store that a restart
empties, which is the value FALSE of `Atlas` and is covered by the proof. A read of
Atlas's cursor is one step here.

Proved (`PersonaTwinProofs`), for any jobs, twins, ids and both values of `Atlas`: the
three properties and `IndexTypeOK`. The invariant says of each twin without chunks
that a request under way is still going to store them, or to capture the records after
a drop (`Covered`); of each chunk without its twin that a drop is to come or
history explains it; and of a keyword index that lags that the request which will
rebuild it has yet to read (`KeywordsCovered`).

### 6.3 TwinBenchmark

`Post` creates the task (`scheduled`), `StartRun` is its first step, `Measure` one
combination, `Stop` a cancellation that takes effect at the next step (`Cancelled`) or,
before the first, at once. `Filed` writes what there is, however the run ended; an
unwritable directory is only logged. `ResultsAreKept` says that a measurement is in a
file once its run is over, unless the process or the disk took it (`lost`), and
that a run does not measure what a file already holds unless it is forced. Three
combinations: one measured before, one that is, one to come. The rerank baselines,
which every run repeats, are no combinations.

Proved (`PersonaTwinProofs`): `ResultsAreKept`, for any combinations.

## 7. Gates and audit chains

### 7.1 ApprovalGate, DurableRuns and CounselApprovals

`ApprovalGate` is the promise two projects make: nothing is carried out that was
not proposed first, nothing declined is carried out, nothing carried out is
declined.

`DurableRuns` is `orchestrate.run` cut where another process or request thread may
come between two accesses to the store: the one look at the checkpoint (`Reread`,
`Approve`, `Start`), `Plan`, `Execute`, `Save`, `Record`. `run` holds a call's
locals, `store` the checkpoint files; a call may `Die` between any two steps. A
plan is named by the call that built it. `before` is history: whose results were
saved when the call began.

`CounselApprovals` is counsel's queue. Every method holds one lock throughout, so
each is one action, and `told` is what clients were answered, which a reset does
not take back.

| Property | What could go wrong |
|---|---|
| `DurableRunsAreGated` | with `hitl`, tools run on a plan that was never saved as pending |
| `ActsOnceInTurn` | a plan is carried out again by a call made after its result was saved |
| `PendingPlansGiveWay` | a pending plan is thrown away by a call that could have seen it |
| `CounselIsGated` | two people, or a reset between them, apply and decline the same proposal |

What does *not* hold is part of these statements: two approvals that overlap both
act, and so does one after a crash before the save. "In turn" excepts exactly these.

Proved (`GovernanceProofs`): all four, for any number of calls, threads and proposals
and every spec, which a service keeps. The runs' inductive invariant (`RunsInv`) carries
one fact that no run checks, `ClosedPlansStayClosed`: a plan whose execution was saved
never waits for approval again. It holds because a pending plan of the store always
belongs to a call that saved it, and a call that could still write a pending plan has
not saved.

### 7.2 AuditChain

One module for three copies of the same class. `Look` reads the last hash and the
length, `Add` appends after the hashing, and another thread may come between them;
`AddLocked` is llm-gateway's, one step. quorum's writers wait for the stage before
(`MayBegin`, the join of the fan-out), field-vault's hand their value over after the
append, and its log can be reset. llm-gateway appends when its policy has `audit`
on, which is the case that is modelled. `Tamper` is the demo's edit. `crossed` is
history: the list changed while this append was under way.

`verify` walks the live list, one entry a step (`VerifyBegin`, `VerifyEntry`,
`VerifyEnd`): `walk` holds its place and the hash it expects. In field-vault it takes no
lock, so appends, edits and resets come between two entries: a reset shortens the list
behind the walk's place, which then goes on in the middle of newer entries and calls the
first of them broken though nobody edited it and no other writer crossed it. `stale`,
history, marks such a walk. llm-gateway's holds the lock throughout, so `AddLocked` and
`Tamper` wait for it, and quorum's begins when the writers have joined.

| Property | What could go wrong |
|---|---|
| `LockedChainsAreWhole` (theorem only) | requests fork or misnumber the locked chain |
| `VerifyBlamesRightly` | `verify` misses an edit made before it began, or blames an entry that was neither edited nor appended across another, with no reset behind its place |
| `RecordKeepsUp` | something is handed on without its entry, or a fan-out's entries overtake their stage |

Bounds: three writers over two stages: two that cross in a fan-out and one before
them. Three durable calls are the fewest with a planner and two approvers, two
threads the fewest on which a plan could land on the wrong one.

Proved (`GovernanceProofs`): all three. `ChainInv` says of each entry that its
writer has appended it and, unless crossed, it holds the hash of the entry
before it, and of each writer between its look and its append that, unless crossed,
what it read is still the end of the list; `WalkFits` says of a walk that, unless it is
stale, it expects the hash that is before its place, and that what had been edited when it
began and is still there is ahead of it.

### 7.3 FieldVault

A reset (`ingest`) empties the vault, the records and the notes and fills them again,
claim after claim; each access to one of them is a step, and request threads read
between any two. A claim stands for its record, its one token and its note.
`Find` is the look-up of a record, which is kept while the policy decides, `Disclose`
what the answer then holds: the stored field, or the original if the vault knows the
token *at that moment*. `crossed` is history: a reset was under way during the request.

`AnswersSurviveResets` says that what any number of overlapping resets leave behind is
everything, and that an answer no reset crossed is the right one. Answers given
during a reset may be wrong (a record unknown, a re-identification that is allowed
and audited and discloses nothing): the code accepts that, and so does the property.

Bounds: two resets and one reader over two claims, so that one reset can empty what
another has half filled. Proved (`GovernanceProofs`), for any numbers of them: the
invariant `OwedInv` says that what is missing some reset still owes.

## 8. vigil and burnrate

### 8.1 VigilMonitor

A cycle (`probe_all`) goes from one await to the next: `Begin` lists the targets and
starts a thread for each, `Gather` waits for all, `Evaluate` runs the alerts without an
await. `cycle` has a slot for the poller and one for the administrator's probe-now.
`thread[c][t]` is the probe of a target: `Check` is the request of one of its checks,
`Legacy` one of the two GETs of a target without any, `Write` its row. The first GET of
a target that sleeps may time out or meet its host's 503 page, and the second is judged
as it comes (`Judged`): a host that still answers for its instance makes it a failure,
and the target down (`slept`; section 9). `breaching` is `_breaching`. `world` is what a
target is: answering, asleep on a free host, or down; `Change` moves it at any time. A
store write may fail in a thread (`FailToWrite`), which ends the cycle for every target
while the other threads go on, or under an alert (`EvaluateRaises`), which leaves the
remaining rules unevaluated; a read before a target's alerts, or the log line after
them, may fail, too (`EvaluateStops`). `Restart` loses whatever is in the process. A
slot begins its next cycle when the threads an aborted one left behind have ended. The
code's would not wait for them, but a cycle that begins meanwhile is then the other
slot's: only their fairness tells the slots apart.

| Property | What could go wrong |
|---|---|
| `DownWasSeen` | a service that sleeps when its probe begins is recorded as down without a second GET, or although the second found it awake |
| `BreachesAreAnnounced` | a breach is remembered and was never sent; edge-triggered, it never would be |
| `StatusCatchesUp` | after failures and late writes of an overlapping cycle, a target that is up stays shown as down (liveness) |
| `OutagesAreAnnounced` | an outage that lasts is never sent to anybody (liveness) |

Fairness (`MonitorFairness`): the poller begins its next cycle, the event loop runs
what is ready (`Gather`, `Evaluate`), and a thread's request ends and its row is
written. `poller_loop` suppresses whatever a cycle raises and sleeps for the interval,
every request has a timeout, and nothing else holds the loop. Nothing is assumed of
the administrator, of probe-now, of targets or of faults; faults are bounded by
`MaxFaults`. Both liveness properties speak of a target whose state and registration
have settled.

### 8.2 VigilStores

Both backends side by side under the same calls: `sql` has a table each for targets,
checks and results, `mongo` documents that hold their checks. `Start` is `init_db`,
`CreateCheck` comes from a caller who looked the target up earlier, `RecordResult`
from a probe that listed the check earlier. `BackendsAgree` says a caller sees the
same targets, checks and results in both, whatever was interleaved, but for two known
differences, a target that was removed and a result that came after the deletion of its check
(section 9). Pruning and the other collections are left out.

### 8.3 Bounds and proofs

`MCMonitoring` has three parts of vigil. "overlap": one target, both cycles, checks and
rules that are edited. "fleet": two targets, one with a check and one without, under the
poller, so that an abort caused by one target reaches the other. "stores": two targets,
three check ids, so that a check can be deleted, its target removed and another made.
One fault, a window of two (a failure is still in it after a success), one check.

Proved (`MonitoringProofs`), for any targets, cycles, windows, checks and number of faults:
`DownWasSeen`, `BreachesAreAnnounced`, `BackendsAgree` and the type invariants
`MonitorTypeOK` and `StoresTypeOK`, which no run repeats. The monitor's invariant excuses a
probe as soon as its target is in a state that could fail it (`Fair`), since an
excuse found only at the request that fails would not survive the next change; that the
second GET found its target asleep is recorded when it is judged (`slept`). The
stores' invariant adds that a check is its owner's in both (`Kept`) and that a result
which did not come late has its check (`ResultsHaveChecks`): a deletion that finds
nothing in MongoDB then has nothing to clear.

### 8.4 BurnrateTasks

A request for a task pushes a job onto a Redis list (`Delay`, `RPush`) and then drains
it itself (`LPop`, `RunJob`, until `Leave` or `MaxJobs`); without Redis it runs
its job at once (`RunInline`). Whether there is Redis is probed once per process
(`Probed`). The deployment has two replicas, each one synchronous worker, so a
replica serves one request at a time and what interleaves are the commands of different
replicas on the list. Redis may be out (`Outage`; `RPushFails`, `LeaveCut`), may carry
out a command and answer too late (`Unanswered`), and a replica may be killed at any
point (`Kill`). `lost` and `cut` are history: the jobs and the requests that such a
fault took.

| Property | What could go wrong |
|---|---|
| `JobsAreAccountedFor` | a job is run twice, or told deferred and nowhere, without a fault that took it |
| `NoJobIsStranded` | drains end while jobs of others are in the list, which nobody looks at again |

A job in hand of a killed worker is lost, and a client may be told "deferred" of
a push that never arrived: the properties say that nothing else goes missing.

Bounds: two replicas, three jobs, two jobs to a drain (the code's 10 can then be
reached while jobs are left), one fault. Proved (`MonitoringProofs`), for any replicas,
jobs and faults. Of the invariant, `PlacesInv` keeps a job in one place, and
`CountInv` is `NoJobIsStranded` for the drains whose own job was not cut short:
every push adds a drain that will look again, every pop takes one at most.

`JobQueue` is a queue whose jobs go one way: new, waiting, in one worker's hand, then
run, or lost on the way. `ListIsAQueue` shows that the replicas and their list
implement it: pops are in the order of the pushes whoever makes them, and a job a
fault took is not run, queued or taken later. For this the invariant needs that a
lost job is nowhere and no request is about to push it (`LostForGood`): an
unanswered push counts as done and a failed one is never tried again.

### 8.5 BurnrateSlo

`Serve` is a request that simulates sends and publishes; `SetFault`, `ResetService` and
`NewProcess` do not publish what follows from them until the next one. `recent` is the
deque of the short window, `gauges` what Prometheus was last given, `calm` counts the
sends since the last one under an error rate. Rates are exact fractions. `Action`,
`Situation` and `Severity` are `alert_policy` and `classify`.

`AlarmsEnd`: once the short window has only sends under no error rate there is no page
and no ticket, although the long window, which is everything since the reset,
still burns; an exhausted budget is reported until it has recovered; the gauges are what the
service decides by as soon as anything was sent.

Bounds: a short window of two and seven sends, thresholds of a small budget, so that
each severity occurs and the window fills, slides and clears. Proved (`MonitoringProofs`), for
any windows, budgets and rates: of the latest sends those of the calm have not failed
(`CalmInv`), through the concatenation and the cut of the window.

## 9. Disagreements met while modelling

Those with a run are findings in PROJECT.json: an upload stranded by a closed tab
(`trueline_stranded`), an answer of another model in observe mode
(`arbiter_observe`), more than one half-open trial (`twin_trial`). These have
none; each was read in the code against a document or a comment of the repository:

trueline (paths under `projects/trueline/`)
- `convex/lib/reconcile.ts:135` gives a rate of zero no variance, so the line is
  green, while `:180` still counts the whole amount as recoverable.
- `convex/lib/reconcile.ts:106`: a line listed in the catalog only is "none" as
  if nothing matched, against the field's comments at `:123-125` and `:153`.
- `convex/invoices.ts:336`: `scheduleExtract` checks the owner and not the status,
  so the API can extract over a reviewed invoice; `development-plan.md:143-145`
  describes the guard as if it covered that. The client never does it (4.3).
- `convex/invoices.ts:232`: `seedIfEmpty` on a tenant with a contract and no
  invoices adds a second purchase order; `spec.md:30` speaks of one.
- `convex/invoices.ts:286`: two tabs that load the demo set at once create it
  twice, against `:266-267` and `schema.ts:126-128`.
- `app/app/page.tsx:266`: the hand-over to the server is awaited outside the try, so when
  the call fails the invoice waits for nobody although its tab is open, and the uploads
  that remain are never begun, against `docs/WALKTHROUGH.md:966-969` ("so extraction
  always happens somewhere"). `OnlyLossStrands` has it as one of its three losses.
- `convex/invoices.ts:575`: a run that ends after the approval puts the invoice
  back to review, against `ARCHITECTURE.md:86`.

arbiter (paths under `projects/arbiter/`)
- `src/arbiter/cache.py:98`: two threads that find the same expired entry both
  delete it, and the second request fails with a KeyError.
- `src/arbiter/proxy.py:81`, `:192`: only `ProviderError` is caught, so a provider
  that stops answering, or a comparison that fails after the answer is known, fails
  the request, against `README.md:146-147` and `:41`.
- `src/arbiter/proxy.py:98`: the floor is not applied to cached answers, against
  `README.md:42`.
- `src/arbiter/rules.py:110`: a generated rule names no baseline, so it can route a
  request to a dearer model than the one it asked for, against `README.md:5-6`.
- `src/arbiter/proxy.py:161`: a routed answer is never shadow-judged, against
  `README.md:42` and `proxy.py:7-8`.
- `src/arbiter/api.py:114`: a rule list sent back by `PUT /rules` loses its
  evidence, against `rules.py:5-7`.
- `src/arbiter/cache.py:40`: the key leaves out the response format, against
  `cache.py:6`.

persona-twin (paths under `projects/persona-twin/`; `llm/` and `app.py` are
`src/persona_twin/llm/` and `src/persona_twin/api/app.py`)
- `llm/breaker.py:52`: when the cooldown of an open circuit ends during a call that then
  fails, `is_open` replaces the count just incremented, so this failure is not
  counted: the circuit stays closed, one failure short, where `:10-11` says of a
  failure after the cooldown that it "re-opens".
- `llm/breaker.py:61-62`: an ordinary failure after a rate limit replaces the longer
  cooldown by the shorter one, against `:7-8`.
- `llm/router.py:277`: two answers that do not fit the schema end the request without a
  try of another model or of the mock, against `:249-250` ("before failing over").
- `app.py:575`: a run that is stopped before its task took its first step is never
  marked: the status stays "running", no later run is accepted (`:474`), and a client
  that follows the comment at `:576` ("keeps polling until status == "stopped"") polls
  until the process restarts. `docs/spec/spec.md:253-254` has runs stopped and marked.
- `app.py:357`: a twin is saved and listed before it is ingested, so after an error
  of the embedder it exists without chunks, and the same request again is refused as a
  conflict. On Atlas no restart repairs it (`:143`), nor a start-up that was cut short.
- `app.py:384`: a delete that overlaps a creation or another rebuild can be undone in
  the index: chunks the other request had already taken are stored after the drop.
  They answer for nobody until a twin of the same id is created, which then answers
  from them, against `:376-377` ("Rebuilds the index from the remaining corpus").
- `persona/store.py:109`: a file that cannot be unlinked is not reported (`app.py:382`
  ignores the result): the twin is gone until the next start, which brings it back.
- `app.py:248`: of two rebuilds that overlap the older read may be built last; keyword
  search then misses what vector search finds, until the next rebuild.
- `app.py:775-781`: the key of a cached answer names the persona's id, not the index. A question
  asked during a rebuild caches its refusal for an hour, and a twin created again under
  an id is served its predecessor's answers. `docs/deployment.md:85-88` gives
  the key, and says the backend set is in it so that no other stack's answers are served.

agent-factory (paths under `projects/agent-factory/`)
- `src/agent_factory/orchestrate.py:9-10` and `README.md:103-105`: "a crash mid-run
  leaves a resumable checkpoint". The only save of an execution is the one after it
  (`:152`, `:187`), so a crash while tools run leaves the state of before, and the
  next approval runs every tool again.
- `orchestrate.py:157`: an approval of a thread that is complete is a fresh run with
  the empty task that the service passes (`scaffold.py:445`), whose plan replaces the
  completed checkpoint.
- `orchestrate.py:142`: two approvals that overlap both act. `PendingPlansGiveWay`
  and `ActsOnceInTurn` state what is left of the promise.

quorum and field-vault
- `quorum/src/quorum/governance.py:96` and field-vault's copy: appends that overlap
  take the same last hash, and `verify` then reports a broken link nobody edited.
  llm-gateway's copy has the lock. `quorum/README.md:145-147` has only edits break
  the chain.
- `field-vault/src/field_vault/audit.py:41`: `verify` walks the list without a lock, so
  after a reset under its walk it reports an entry of the new log as broken that nobody
  edited and no append crossed.

vigil (paths under `projects/vigil/`)
- `src/vigil/config.py:47-50`: "a short probe would read every idle-but-healthy demo
  as down", hence the second, longer request. `probe.py:133` gives it to targets
  without checks only, and `seed_default_checks` gives every target a check at the
  next start, so a seeded demo that sleeps is recorded as down. `DownWasSeen` holds
  for the path that has the second request; its excuse for a probe with checks is this
  disagreement.
- `src/vigil/probe.py:104`: the second GET's answer is judged as it comes (`:118`), a
  warm-up page among them, and nothing waits between the two GETs: a host that answers 503
  at once while its instance boots has the target recorded as down, against `:36-39` ("A
  monitor must not paint these as 'down'"). `DownWasSeen` excepts it.
- `src/vigil/_store_sqlite.py:4-5` ("the identical function surface") and
  `tests/test_store_contract.py:3-6` ("behaves identically regardless of backend"):
  SQLite keeps the checks of a removed target for the next target of its slug and
  accepts a check for one that is gone, MongoDB does neither; a repeated deletion
  clears a result that came late in SQLite only; SQLite prunes by count, MongoDB by
  age. `BackendsAgree` excepts the first two; pruning is not modelled.

burnrate (paths under `projects/burnrate/`)
- `src/burnrate/incident.py:85-87`: "an exhausted budget is sev1"; `:112-119` make it sev3
  unless both windows burn, as the comment at `:108-111` has it.
- `src/burnrate/slo.py:85`: "burning" needs an error rate above the budget with some
  budget remaining, and the budget remaining is zero as soon as the rate is above it.
- `src/burnrate/slo.py:30-32`: "the short window is 1/12 of the long". The long one is
  everything since the last reset (`metrics.py:78-81`), as `README.md:386` says.
- `docs/runbook.md:45-50` resolves a page when 300 sends leave `overall_status` healthy:
  the long window still holds every failure since the reset, so the action returns to
  none at once (`AlarmsEnd`), the status not before enough sends have diluted it.
- `src/burnrate/app.py:70` ("publish the current SLO-derived gauges") and `tasks.py:238`:
  both call `snapshot`, which publishes nothing. A process that has sent nothing yet
  exposes a remaining budget of zero.
- `src/burnrate/tasks.py:120`: a `redis-cli` that cannot connect is not noticed, and the
  request is answered as deferred.
- `deploy/k8s/deployment.yaml:15` has two replicas, and `README.md:383-385` one consistent
  source at one replica only: a job can run in the replica whose metrics nobody reads.

## 10. What is not modelled, and what is not proved

- Liveness (`UploadSettles`, `StatusCatchesUp`, `OutagesAreAnnounced`) is checked
  and not proved: fairness and ENABLED are beyond the prover. Every other property
  that a passing run checks is a theorem as well. Induction over data is out of
  reach, too: what a sum or the order of a list is for every length. The proofs use
  neither.
- Numbers are exact: cents, and pairs of sum and count for means. Rounding of
  floating-point dollars is not modelled.
- arbiter's event table, costs, token counts, latency and prompt-prefix caching,
  and its `min_samples` as a setting (a constant here); persona-twin's prices,
  latencies and prompts, its chunking, redaction and ranking, its chats, interviews
  and answer cache, and what its benchmark measures; trueline's prompts, diagnostics and views.
- Text: token overlap, classification, PII patterns, schemas. Each is a choice
  among its outcomes.
- vigil's own entry in the registry, targets with optional checks only, latency
  rules, the scrape of app metrics, users, logs and pruning; what an assertion of a
  check compares.
- what agent-factory's tools do, what quorum's agents answer, llm-gateway's
  firewall and redaction, what field-vault's policy grants whom; burnrate's latency percentiles,
  outbox and summaries.
- The other projects are pure functions of a request, generated code or glue around
  a library: PROJECT.json lists each with the reason.
