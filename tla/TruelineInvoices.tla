--------------------------- MODULE TruelineInvoices ---------------------------
(***************************************************************************)
(* trueline's backend: the Convex mutations of invoices.ts and the action  *)
(* extract.run they schedule.  A mutation is one transaction, hence one    *)
(* action here; extract.run is not transactional, so each call it makes is *)
(* a step of its own, and a run can be overtaken by any mutation between   *)
(* two of them.  Callers are the public API: any tenant, any order.        *)
(***************************************************************************)
EXTENDS Reconcile, Functions

CONSTANTS Orgs,          \* tenants
          Invoices,      \* invoice ids; the database never gives one out twice
          Numbers,       \* invoice numbers, chosen by the uploader
          DemoNumbers,   \* those of DEMO_INVOICES
          DemoReading,   \* what parsePipeInvoice reads in each of them
          DemoList,      \* DEMO_PO_LINES
          Catalog,       \* DEMO_CATALOG
          Lists,         \* the contracts a tenant may upload
          Readings,      \* what an extraction may return for an invoice
          Corrections,   \* the unit prices an estimator may enter
          Quantities,    \* the quantities an estimator may enter
          RunSlots,      \* runs of extract.run alive at once (a bound)
          CanBeLost,     \* the runs the platform may drop: they are not retried
          NoOrg, NoInvoice

ASSUME TruelineAssumption ==
    /\ NoOrg \notin Orgs
    /\ NoInvoice \notin Invoices
    /\ DemoNumbers \subseteq Numbers
    /\ Catalog \in PriceLists
    /\ DemoList \in PriceLists
    /\ Lists \subseteq PriceLists
    /\ Readings \subseteq Seq(ReadLines)
    /\ <<>> \in Readings
    /\ DemoReading \in [DemoNumbers -> Seq(ReadLines)]
    /\ Corrections \subseteq Prices
    /\ Quantities \subseteq Nat
    /\ CanBeLost \subseteq RunSlots

VARIABLES inv,          \* the invoices table, and the ids not in it
          totals,       \* its columns recoverableUsd and claimedTotal
          lines,        \* the invoiceLines table, by invoice
          orders,       \* the purchaseOrders table, by tenant
          hasCatalog,   \* whether the tenant's catalog has been seeded
          initialized,  \* tenantState.demoInitialized
          runs          \* the scheduled and running extract.run
vars == <<inv, totals, lines, orders, hasCatalog, initialized, runs>>

Stored == {"extracting", "needs_review", "approved", "rejected"}
Decisions == {"pending", "approved", "edited", "rejected"}

InvoiceRows == [status : Stored \cup {"unused", "deleted"}, org : Orgs \cup {NoOrg},
                number : Numbers \cup {NoInvoice}, failed : BOOLEAN]
LineRows == [org : Orgs, read : ReadLines, verdict : Verdicts, decision : Decisions]
RunStates == [pc : {"idle", "read", "extract", "write", "log", "mark"},
              inv : Invoices \cup {NoInvoice}, org : Orgs \cup {NoOrg},
              out : Readings]

Sum(amounts) == FoldFunction(LAMBDA x, y : x + y, 0, amounts)

\* The rollup insertReconciledLines returns for the rows it inserts.
TotalsOf(rows) ==
    [recoverable |-> Sum([k \in DOMAIN rows |-> rows[k].verdict.recoverable]),
     claimed     |-> Sum([k \in DOMAIN rows |-> rows[k].read.ext])]
NoTotals == TotalsOf(<<>>)   \* a column that is absent counts as zero

NoRow(status) == [status |-> status, org |-> NoOrg, number |-> NoInvoice,
                  failed |-> FALSE]
IdleRun == [pc |-> "idle", inv |-> NoInvoice, org |-> NoOrg, out |-> <<>>]

TypeOK ==
    /\ inv \in [Invoices -> InvoiceRows]
    /\ totals = [i \in Invoices |-> totals[i]]
    /\ lines \in [Invoices -> Seq(LineRows)]
    /\ orders \in [Orgs -> Seq(PriceLists)]
    /\ hasCatalog \in [Orgs -> BOOLEAN]
    /\ initialized \in [Orgs -> BOOLEAN]
    /\ runs \in [RunSlots -> RunStates]

Init ==
    /\ inv = [i \in Invoices |-> NoRow("unused")]
    /\ totals = [i \in Invoices |-> NoTotals]
    /\ lines = [i \in Invoices |-> <<>>]
    /\ orders = [o \in Orgs |-> <<>>]
    /\ hasCatalog = [o \in Orgs |-> FALSE]
    /\ initialized = [o \in Orgs |-> FALSE]
    /\ runs = [r \in RunSlots |-> IdleRun]

Exists(i) == inv[i].status \in Stored
\* The check every mutation makes after ctx.db.get: it throws otherwise, and
\* a mutation that throws changes nothing.
Owned(o, i) == Exists(i) /\ inv[i].org = o
InvoicesOf(o) == {i \in Invoices : Owned(o, i)}
Unused == {i \in Invoices : inv[i].status = "unused"}

----------------------------------------------------------------------------
(* What the mutations share.                                               *)

EmptyList == [item \in Items |-> NoPrice]
CatalogOf(o) == IF hasCatalog[o] THEN Catalog ELSE EmptyList

\* The rows insertReconciledLines inserts for a reading, against the given
\* purchase orders and catalog.
Reconciled(o, reading, pos, list) ==
    [k \in DOMAIN reading |->
        [org |-> o, read |-> reading[k],
         verdict |-> ReconcileLine(reading[k], pos, list, NoPrice),
         decision |-> "pending"]]

\* Slips of the function below that the checks must notice: the earlier
\* lines are kept, the rollup is not patched, the status is not patched.
StoreExtractionAppends(o, i, reading) ==
    LET rows == lines[i] \o Reconciled(o, reading, orders[o], CatalogOf(o))
    IN  /\ lines' = [lines EXCEPT ![i] = rows]
        /\ totals' = [totals EXCEPT ![i] = TotalsOf(rows)]
        /\ inv' = [inv EXCEPT ![i].status = "needs_review", ![i].failed = FALSE]
StoreExtractionNoTotals(o, i, reading) ==
    /\ lines' = [lines EXCEPT ![i] = Reconciled(o, reading, orders[o], CatalogOf(o))]
    /\ inv' = [inv EXCEPT ![i].status = "needs_review", ![i].failed = FALSE]
    /\ UNCHANGED totals
StoreExtractionNoStatus(o, i, reading) ==
    LET rows == Reconciled(o, reading, orders[o], CatalogOf(o))
    IN  /\ lines' = [lines EXCEPT ![i] = rows]
        /\ totals' = [totals EXCEPT ![i] = TotalsOf(rows)]
        /\ inv' = [inv EXCEPT ![i].failed = FALSE]

\* insertReconciledLines, and the patch both of its callers make: earlier
\* lines are cleared, whatever was decided on them.
StoreExtraction(o, i, reading) ==
    LET rows == Reconciled(o, reading, orders[o], CatalogOf(o))
    IN  /\ lines' = [lines EXCEPT ![i] = rows]
        /\ totals' = [totals EXCEPT ![i] = TotalsOf(rows)]
        /\ inv' = [inv EXCEPT ![i].status = "needs_review", ![i].failed = FALSE]

Schedule(o, i) ==
    \E r \in RunSlots :
        /\ runs[r].pc = "idle"
        /\ runs' = [runs EXCEPT ![r] = [pc |-> "read", inv |-> i, org |-> o, out |-> <<>>]]

NewInvoice(o, number, status) ==
    [status |-> status, org |-> o, number |-> number, failed |-> FALSE]

----------------------------------------------------------------------------
(* The mutations.                                                          *)

CreateAs(o, i, number, deferServer) ==
    /\ i \in Unused
    /\ inv' = [inv EXCEPT ![i] = NewInvoice(o, number, "extracting")]
    /\ IF deferServer THEN UNCHANGED runs ELSE Schedule(o, i)
    /\ UNCHANGED <<totals, lines, orders, hasCatalog, initialized>>

CreateInvoiceFromText(o, number, deferServer) ==
    \E i \in Invoices : CreateAs(o, i, number, deferServer)

\* A slip: the owner is not compared.
ScheduleExtractAnyTenant(o, i) ==
    /\ Exists(i)
    /\ Schedule(o, i)
    /\ UNCHANGED <<inv, totals, lines, orders, hasCatalog, initialized>>

ScheduleExtract(o, i) ==
    /\ Owned(o, i)
    /\ Schedule(o, i)
    /\ UNCHANGED <<inv, totals, lines, orders, hasCatalog, initialized>>

\* A slip: any owned invoice may be submitted to.
SubmitExtractionAnyStatus(o, i, reading) ==
    /\ Owned(o, i)
    /\ StoreExtraction(o, i, reading)
    /\ UNCHANGED <<orders, hasCatalog, initialized, runs>>

SubmitExtraction(o, i, reading) ==
    /\ Owned(o, i)
    /\ inv[i].status = "extracting"
    /\ StoreExtraction(o, i, reading)
    /\ UNCHANGED <<orders, hasCatalog, initialized, runs>>

\* seedIfEmpty on a tenant that has an invoice only marks it initialized.
SeedIfEmpty(o) ==
    /\ initialized' = [initialized EXCEPT ![o] = TRUE]
    /\ IF InvoicesOf(o) # {}
       THEN UNCHANGED <<inv, totals, lines, orders, hasCatalog>>
       ELSE \E id \in [DemoNumbers -> Unused] :
            LET pos == Append(orders[o], DemoList)
                numberOf(i) == CHOOSE n \in DemoNumbers : id[n] = i
                rows(n) == Reconciled(o, DemoReading[n], pos, Catalog)
                seeded == {id[n] : n \in DemoNumbers}
            IN  /\ \A m, n \in DemoNumbers : id[m] = id[n] => m = n
                /\ orders' = [orders EXCEPT ![o] = pos]
                /\ hasCatalog' = [hasCatalog EXCEPT ![o] = TRUE]
                /\ lines' = [i \in Invoices |->
                     IF i \in seeded THEN rows(numberOf(i)) ELSE lines[i]]
                /\ totals' = [i \in Invoices |->
                     IF i \in seeded THEN TotalsOf(rows(numberOf(i))) ELSE totals[i]]
                /\ inv' = [i \in Invoices |->
                     IF i \in seeded THEN NewInvoice(o, numberOf(i), "needs_review") ELSE inv[i]]
    /\ UNCHANGED runs

SeedDemoBaseline(o) ==
    /\ initialized' = [initialized EXCEPT ![o] = TRUE]
    /\ IF orders[o] # <<>>
       THEN UNCHANGED <<orders, hasCatalog>>
       ELSE /\ orders' = [orders EXCEPT ![o] = <<DemoList>>]
            /\ hasCatalog' = [hasCatalog EXCEPT ![o] = TRUE]
    /\ UNCHANGED <<inv, totals, lines, runs>>

\* Replacing the contract leaves what was reconciled against the old one.
SetBaselineFromText(o, list) ==
    /\ orders' = [orders EXCEPT ![o] = <<list>>]
    /\ hasCatalog' = [hasCatalog EXCEPT ![o] = TRUE]
    /\ UNCHANGED <<inv, totals, lines, initialized, runs>>

ResetDemo(o) ==
    /\ inv' = [i \in Invoices |-> IF Owned(o, i) THEN NoRow("deleted") ELSE inv[i]]
    /\ lines' = [i \in Invoices |-> IF Owned(o, i) THEN <<>> ELSE lines[i]]
    /\ totals' = [i \in Invoices |-> IF Owned(o, i) THEN NoTotals ELSE totals[i]]
    /\ orders' = [orders EXCEPT ![o] = <<>>]
    /\ hasCatalog' = [hasCatalog EXCEPT ![o] = FALSE]
    /\ initialized' = [initialized EXCEPT ![o] = TRUE]
    /\ UNCHANGED runs

\* A line id is only known while the line exists: a decision on a line that
\* was cleared meanwhile throws.
OwnedLine(o, i, k) == k \in DOMAIN lines[i] /\ lines[i][k].org = o

ReviewLine(o, i, k, decision) ==
    /\ OwnedLine(o, i, k)
    /\ lines' = [lines EXCEPT ![i][k].decision = decision]
    /\ UNCHANGED <<inv, totals, orders, hasCatalog, initialized, runs>>

\* correctLine's quantity is optional: without one the line keeps its own.
Enterable(i, k) == {lines[i][k].read.qty} \cup Quantities

\* The line takes the entered price and quantity and is reconciled again; the
\* invoice's rollup is left alone.
CorrectLine(o, i, k, price, qty) ==
    /\ OwnedLine(o, i, k)
    /\ LET read == [lines[i][k].read EXCEPT !.price = price, !.qty = qty, !.ext = qty * price]
       IN  lines' = [lines EXCEPT ![i][k] =
             [org |-> o, read |-> read,
              verdict |-> ReconcileLine(read, orders[o], CatalogOf(o), price),
              decision |-> "edited"]]
    /\ UNCHANGED <<inv, totals, orders, hasCatalog, initialized, runs>>

SetInvoiceStatus(o, i, status) ==
    /\ Owned(o, i)
    /\ inv' = [inv EXCEPT ![i].status = status]
    /\ UNCHANGED <<totals, lines, orders, hasCatalog, initialized, runs>>

----------------------------------------------------------------------------
(* extract.run, step by step.                                              *)

\* _getRaw: the run returns quietly when the invoice is gone.
RunRead(r) ==
    /\ runs[r].pc = "read"
    /\ runs' = IF Exists(runs[r].inv) THEN [runs EXCEPT ![r].pc = "extract"]
               ELSE [runs EXCEPT ![r] = IdleRun]
    /\ UNCHANGED <<inv, totals, lines, orders, hasCatalog, initialized>>

\* extractLineItems always returns: some model's reading, or the parser's.
RunExtract(r, reading) ==
    /\ runs[r].pc = "extract"
    /\ runs' = [runs EXCEPT ![r].pc = "write", ![r].out = reading]
    /\ UNCHANGED <<inv, totals, lines, orders, hasCatalog, initialized>>

\* A slip: the lines and the patch are two transactions.
RunWriteInTwo(r) ==
    /\ runs[r].pc = "write"
    /\ IF Exists(runs[r].inv)
       THEN /\ StoreExtraction(runs[r].org, runs[r].inv, runs[r].out)
            /\ runs' = [runs EXCEPT ![r].pc = "log", ![r].out = <<>>]
       ELSE /\ lines' = [lines EXCEPT ![runs[r].inv] =
                 Reconciled(runs[r].org, runs[r].out, orders[runs[r].org], CatalogOf(runs[r].org))]
            /\ runs' = [runs EXCEPT ![r].pc = "mark", ![r].out = <<>>]
            /\ UNCHANGED <<inv, totals>>
    /\ UNCHANGED <<orders, hasCatalog, initialized>>

\* writeResults: patching an invoice that is gone throws, which undoes the
\* lines inserted before it.
RunWrite(r) ==
    /\ runs[r].pc = "write"
    /\ IF Exists(runs[r].inv)
       THEN /\ StoreExtraction(runs[r].org, runs[r].inv, runs[r].out)
            /\ runs' = [runs EXCEPT ![r].pc = "log", ![r].out = <<>>]
       ELSE /\ runs' = [runs EXCEPT ![r].pc = "mark", ![r].out = <<>>]
            /\ UNCHANGED <<inv, totals, lines>>
    /\ UNCHANGED <<orders, hasCatalog, initialized>>

\* appendLog, the last call inside the try.
RunLog(r) ==
    /\ runs[r].pc = "log"
    /\ runs' = [runs EXCEPT ![r] = IdleRun]
    /\ UNCHANGED <<inv, totals, lines, orders, hasCatalog, initialized>>

\* Any call inside the try may fail for a reason of the platform's own.
RunFault(r) ==
    /\ runs[r].pc \in {"read", "extract", "write", "log"}
    /\ runs' = [runs EXCEPT ![r].pc = "mark", ![r].out = <<>>]
    /\ UNCHANGED <<inv, totals, lines, orders, hasCatalog, initialized>>

\* Slips: the invoice is written back without looking; the status stays.
RunMarkUnchecked(r) ==
    /\ runs[r].pc = "mark"
    /\ inv' = [inv EXCEPT ![runs[r].inv].status = "needs_review",
                          ![runs[r].inv].failed = TRUE]
    /\ runs' = [runs EXCEPT ![r] = IdleRun]
    /\ UNCHANGED <<totals, lines, orders, hasCatalog, initialized>>
RunMarkNoStatus(r) ==
    /\ runs[r].pc = "mark"
    /\ inv' = IF Exists(runs[r].inv) THEN [inv EXCEPT ![runs[r].inv].failed = TRUE] ELSE inv
    /\ runs' = [runs EXCEPT ![r] = IdleRun]
    /\ UNCHANGED <<totals, lines, orders, hasCatalog, initialized>>

\* markError, in the catch: it throws in turn when the invoice is gone.
RunMark(r) ==
    /\ runs[r].pc = "mark"
    /\ inv' = IF Exists(runs[r].inv)
              THEN [inv EXCEPT ![runs[r].inv].status = "needs_review",
                               ![runs[r].inv].failed = TRUE]
              ELSE inv
    /\ runs' = [runs EXCEPT ![r] = IdleRun]
    /\ UNCHANGED <<totals, lines, orders, hasCatalog, initialized>>

\* An action is not retried: one the platform drops is gone.
RunLost(r) ==
    /\ r \in CanBeLost
    /\ runs[r].pc # "idle"
    /\ runs' = [runs EXCEPT ![r] = IdleRun]
    /\ UNCHANGED <<inv, totals, lines, orders, hasCatalog, initialized>>

RunStep(r) ==
    \/ RunRead(r)
    \/ \E reading \in Readings : RunExtract(r, reading)
    \/ RunWrite(r)
    \/ RunLog(r)
    \/ RunMark(r)

----------------------------------------------------------------------------
Upload(o) ==
    \/ \E n \in Numbers, deferServer \in BOOLEAN : CreateInvoiceFromText(o, n, deferServer)
    \/ \E i \in Invoices : ScheduleExtract(o, i)
    \/ \E i \in Invoices, reading \in Readings : SubmitExtraction(o, i, reading)

Review(o) ==
    \E i \in Invoices :
        \/ \E k \in DOMAIN lines[i] :
              \/ \E d \in {"approved", "rejected"} : ReviewLine(o, i, k, d)
              \/ \E p \in Corrections, q \in Enterable(i, k) : CorrectLine(o, i, k, p, q)
        \/ \E s \in {"approved", "rejected", "needs_review"} : SetInvoiceStatus(o, i, s)

Setup(o) ==
    \/ SeedIfEmpty(o)
    \/ SeedDemoBaseline(o)
    \/ \E list \in Lists : SetBaselineFromText(o, list)
    \/ ResetDemo(o)

Next ==
    \/ \E o \in Orgs : Upload(o) \/ Review(o) \/ Setup(o)
    \/ \E r \in RunSlots : RunStep(r) \/ RunFault(r) \/ RunLost(r)

Spec == Init /\ [][Next]_vars

----------------------------------------------------------------------------
(* Safety.                                                                 *)

\* A line exists only with its invoice: a run that writes after resetDemo has
\* deleted the invoice must leave no rows behind (invoices.ts:574-583, the
\* insert precedes the patch that throws).
NoOrphanLines == \A i \in Invoices : lines[i] # <<>> => Exists(i)

\* An invoice still awaiting extraction has no lines.  submitExtraction's
\* guard rests on it: `extracting' must mean that there is no review to lose.
ExtractingHasNoLines ==
    \A i \in Invoices : inv[i].status = "extracting" => lines[i] = <<>>

\* A scheduled run is for an invoice of the tenant it was scheduled by, or for
\* one that tenant has erased since: extract.run checks neither argument.
RunsKnowTheirTenant ==
    \A r \in RunSlots : runs[r].pc # "idle" =>
        /\ runs[r].inv \in Invoices
        /\ runs[r].org \in Orgs
        /\ inv[runs[r].inv].status # "unused"
        /\ Exists(runs[r].inv) => inv[runs[r].inv].org = runs[r].org

\* A line belongs to the tenant of its invoice, although extract.run is handed
\* the tenant and the invoice as two arguments and checks neither.
LinesStayInTenant ==
    \A i \in Invoices : \A k \in DOMAIN lines[i] : lines[i][k].org = inv[i].org

\* `A re-run can't double-insert' (extract.ts:16-18): whatever runs,
\* submissions and corrections an invoice went through, its lines are those
\* of one extraction: one line for each item read, and a line nobody decided
\* about is what was read.
LinesAreOneExtraction ==
    \A i \in Invoices : lines[i] # <<>> =>
        \E reading \in Readings \cup {DemoReading[n] : n \in DemoNumbers} :
            /\ Len(reading) = Len(lines[i])
            /\ \A k \in DOMAIN lines[i] :
                 /\ lines[i][k].read.sku = reading[k].sku
                 /\ lines[i][k].read.desc = reading[k].desc
                 /\ lines[i][k].decision = "pending" => lines[i][k].read = reading[k]

\* The invoice's rollup is the sum of its lines.
Balanced(i) == totals[i] = TotalsOf(lines[i])

\* Only a correction takes an invoice's rollup away from its lines: neither a
\* late extraction, a seed, a reset nor a decision does.
OnlyCorrectionsUnbalance ==
    [][\A i \in Invoices : Balanced(i) /\ ~Balanced(i)' =>
         \E k \in DOMAIN lines[i] :
             lines'[i][k].decision = "edited" /\ lines'[i][k] # lines[i][k]]_vars

\* The reviewer's decision on line k of invoice i is lost in this step.
DecisionLost(i, k) ==
    /\ lines[i][k].decision # "pending"
    /\ k \notin DOMAIN lines'[i] \/ lines'[i][k].decision = "pending"

\* A run of extract.run writes its results on invoice i in this step.
RunWrites(i) ==
    \E r \in RunSlots : /\ runs[r].pc = "write" /\ runs[r].inv = i
                        /\ runs'[r].pc = "log"

\* A decision is erased by a reset or by a late server run, and by nothing
\* else: in particular never by lines a client submits (invoices.ts:372-377).
SubmissionsKeepReview ==
    [][\A i \in Invoices : \A k \in DOMAIN lines[i] :
         DecisionLost(i, k) => inv'[i].status = "deleted" \/ RunWrites(i)]_vars

\* What the guard of submitExtraction is said to give (development-plan.md:
\* 143-145): no extraction clobbers a reviewer's decisions.
ExtractionsKeepReview ==
    [][\A i \in Invoices : \A k \in DOMAIN lines[i] :
         DecisionLost(i, k) => inv'[i].status = "deleted"]_vars

----------------------------------------------------------------------------
(* The store implements its abstract specification.                        *)

Phase(status) ==
    CASE status = "unused" -> "absent"
      [] status = "extracting" -> "awaiting"
      [] status \in {"needs_review", "approved", "rejected"} -> "settled"
      [] status = "deleted" -> "erased"

Ledger == INSTANCE InvoiceLedger
    WITH phase <- [i \in Invoices |-> Phase(inv[i].status)],
         holding <- {i \in Invoices : lines[i] # <<>>}

\* Every mutation and every step of extract.run is a step of the ledger or
\* leaves it alone: in particular a run that outlives its invoice neither
\* brings it back nor leaves lines behind.
ImplementsLedger == Ledger!Spec
=============================================================================
