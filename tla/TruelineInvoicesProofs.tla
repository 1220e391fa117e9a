------------------------ MODULE TruelineInvoicesProofs ------------------------
(***************************************************************************)
(* trueline's backend for any number of tenants, invoices, lines and runs: *)
(* the invariant that makes it safe to let a run of extract.run write      *)
(* whenever it gets round to it, the ledger the store implements, what no  *)
(* step does to lines and rollups; and, for any number of tabs, that its   *)
(* own dashboard extracts an invoice once at a time.                       *)
(***************************************************************************)
EXTENDS TruelineDashboard, ReconcileProofs

USE TruelineAssumption

\* The inductive invariant.  A run writes on the strength of its arguments
\* alone, so LinesStayInTenant needs RunsKnowTheirTenant; a new invoice gets an
\* id without lines because of NoOrphanLines.
IInv ==
    /\ TypeOK
    /\ NoOrphanLines
    /\ ExtractingHasNoLines
    /\ RunsKnowTheirTenant
    /\ LinesStayInTenant

----------------------------------------------------------------------------
(* What the mutations share.                                               *)

LEMMA CatalogType ==
    ASSUME NEW o \in Orgs
    PROVE  CatalogOf(o) \in PriceLists
BY DEF CatalogOf, EmptyList, PriceLists

\* insertReconciledLines inserts rows of the tenant it is given.
LEMMA ReconciledType ==
    ASSUME NEW o \in Orgs, NEW reading \in Seq(ReadLines),
           NEW pos \in Seq(PriceLists), NEW list \in PriceLists
    PROVE  /\ Reconciled(o, reading, pos, list) \in Seq(LineRows)
           /\ \A k \in DOMAIN Reconciled(o, reading, pos, list) :
                 Reconciled(o, reading, pos, list)[k].org = o
<1> DEFINE row(k) == [org |-> o, read |-> reading[k],
                      verdict |-> ReconcileLine(reading[k], pos, list, NoPrice),
                      decision |-> "pending"]
<1>1. \A k \in 1..Len(reading) : row(k) \in LineRows
  <2> SUFFICES ASSUME NEW k \in 1..Len(reading) PROVE row(k) \in LineRows
    OBVIOUS
  <2>1. reading[k] \in ReadLines /\ NoPrice \in Int
    BY DEF NoPrice
  <2>2. ReconcileLine(reading[k], pos, list, NoPrice) \in Verdicts
    BY <2>1, ReconcileLineType
  <2> QED
    BY <2>1, <2>2 DEF LineRows, Decisions
<1>2. Reconciled(o, reading, pos, list) = [k \in 1..Len(reading) |-> row(k)]
  BY DEF Reconciled
<1>3. \A k \in 1..Len(reading) : row(k).org = o
  OBVIOUS
<1> HIDE DEF row
<1> QED
  BY <1>1, <1>2, <1>3

\* What an extraction stores on an invoice of its tenant.
LEMMA StoreType ==
    ASSUME IInv, NEW o \in Orgs, NEW i \in Invoices, NEW reading \in Readings,
           Owned(o, i), StoreExtraction(o, i, reading)
    PROVE  /\ lines' \in [Invoices -> Seq(LineRows)]
           /\ totals' = [j \in Invoices |-> totals'[j]]
           /\ inv' \in [Invoices -> InvoiceRows]
           /\ \A k \in DOMAIN lines'[i] : lines'[i][k].org = o
           /\ \A j \in Invoices \ {i} : lines'[j] = lines[j] /\ inv'[j] = inv[j]
           /\ inv'[i] = [inv[i] EXCEPT !.status = "needs_review", !.failed = FALSE]
<1> DEFINE rows == Reconciled(o, reading, orders[o], CatalogOf(o))
<1>1. orders[o] \in Seq(PriceLists) /\ reading \in Seq(ReadLines)
  BY DEF IInv, TypeOK
<1>2. rows \in Seq(LineRows) /\ \A k \in DOMAIN rows : rows[k].org = o
  BY <1>1, CatalogType, ReconciledType
<1>3. /\ lines' = [lines EXCEPT ![i] = rows]
      /\ totals' = [totals EXCEPT ![i] = TotalsOf(rows)]
      /\ inv' = [inv EXCEPT ![i].status = "needs_review", ![i].failed = FALSE]
  BY DEF StoreExtraction
<1> HIDE DEF rows
<1>4. totals' = [j \in Invoices |-> totals'[j]]
  BY <1>3 DEF IInv, TypeOK
<1>5. lines' \in [Invoices -> Seq(LineRows)]
  BY <1>2, <1>3 DEF IInv, TypeOK
<1>6. inv' \in [Invoices -> InvoiceRows]
  <2>1. inv \in [Invoices -> InvoiceRows]
    BY DEF IInv, TypeOK
  <2>2. [inv[i] EXCEPT !.status = "needs_review", !.failed = FALSE] \in InvoiceRows
    BY <2>1 DEF InvoiceRows, Stored
  <2>3. inv' = [inv EXCEPT ![i] = [inv[i] EXCEPT !.status = "needs_review", !.failed = FALSE]]
    BY <1>3, <2>1
  <2> QED
    BY <2>1, <2>2, <2>3
<1>7. lines'[i] = rows
  BY <1>3 DEF IInv, TypeOK
<1> QED
  BY <1>2, <1>3, <1>4, <1>5, <1>6, <1>7 DEF IInv, TypeOK, InvoiceRows

\* Scheduling a run of a tenant's own invoice.
LEMMA ScheduleType ==
    ASSUME IInv, NEW o \in Orgs, NEW i \in Invoices, Schedule(o, i)
    PROVE  /\ runs' \in [RunSlots -> RunStates]
           /\ \A r \in RunSlots : runs'[r] = runs[r] \/ (runs'[r].inv = i /\ runs'[r].org = o)
BY DEF Schedule, IInv, TypeOK, RunStates

----------------------------------------------------------------------------
(* The mutations keep the invariant.                                       *)

LEMMA InitIInv == Init => IInv
<1> SUFFICES ASSUME Init PROVE IInv
  OBVIOUS
<1>1. TypeOK
  BY DEF Init, TypeOK, NoRow, IdleRun, InvoiceRows, RunStates
<1> QED
  BY <1>1 DEF Init, IInv, NoRow, IdleRun, NoOrphanLines, ExtractingHasNoLines,
              RunsKnowTheirTenant, LinesStayInTenant, Exists, Stored

LEMMA CreateIInv ==
    ASSUME IInv, NEW o \in Orgs, NEW i \in Invoices, NEW n \in Numbers,
           NEW deferServer \in BOOLEAN, CreateAs(o, i, n, deferServer)
    PROVE  IInv'
<1>1. /\ inv[i].status = "unused"
      /\ inv' = [inv EXCEPT ![i] = NewInvoice(o, n, "extracting")]
      /\ UNCHANGED <<totals, lines, orders, hasCatalog, initialized>>
  BY DEF CreateAs, Unused
<1>2. NewInvoice(o, n, "extracting") \in InvoiceRows
  BY DEF NewInvoice, InvoiceRows, Stored
<1>3. inv'[i].status = "extracting" /\ inv'[i].org = o
  BY <1>1 DEF NewInvoice, IInv, TypeOK
<1>4. lines[i] = <<>>
  BY <1>1 DEF IInv, NoOrphanLines, Exists, Stored
<1>5. /\ runs' \in [RunSlots -> RunStates]
      /\ \A r \in RunSlots : runs'[r] = runs[r] \/ (runs'[r].inv = i /\ runs'[r].org = o)
  <2>1. CASE deferServer
    BY <2>1 DEF CreateAs, IInv, TypeOK
  <2>2. CASE ~deferServer
    BY <2>2, ScheduleType DEF CreateAs
  <2> QED
    BY <2>1, <2>2
<1>6. TypeOK'
  BY <1>1, <1>2, <1>5 DEF IInv, TypeOK
<1>7. \A j \in Invoices \ {i} : inv'[j] = inv[j]
  BY <1>1 DEF IInv, TypeOK
<1>8. NoOrphanLines' /\ ExtractingHasNoLines' /\ LinesStayInTenant'
  BY <1>1, <1>4, <1>7 DEF IInv, NoOrphanLines, ExtractingHasNoLines, LinesStayInTenant, Exists
<1>9. RunsKnowTheirTenant'
  BY <1>1, <1>3, <1>5, <1>7 DEF IInv, RunsKnowTheirTenant, Exists
<1> QED
  BY <1>6, <1>8, <1>9 DEF IInv

LEMMA ScheduleExtractIInv ==
    ASSUME IInv, NEW o \in Orgs, NEW i \in Invoices, ScheduleExtract(o, i)
    PROVE  IInv'
<1>1. Owned(o, i) /\ UNCHANGED <<inv, totals, lines, orders, hasCatalog, initialized>>
  BY DEF ScheduleExtract
<1>2. /\ runs' \in [RunSlots -> RunStates]
      /\ \A r \in RunSlots : runs'[r] = runs[r] \/ (runs'[r].inv = i /\ runs'[r].org = o)
  BY ScheduleType DEF ScheduleExtract
<1>3. RunsKnowTheirTenant'
  BY <1>1, <1>2 DEF IInv, RunsKnowTheirTenant, Owned, Exists, Stored
<1> QED
  BY <1>1, <1>2, <1>3 DEF IInv, TypeOK, NoOrphanLines, ExtractingHasNoLines,
                          LinesStayInTenant, Exists

\* Whoever stores an extraction on an invoice of its own tenant keeps every
\* part of the invariant that does not speak of runs.
LEMMA StoreIInv ==
    ASSUME IInv, NEW o \in Orgs, NEW i \in Invoices, NEW reading \in Readings,
           Owned(o, i), StoreExtraction(o, i, reading)
    PROVE  /\ NoOrphanLines' /\ ExtractingHasNoLines' /\ LinesStayInTenant'
           /\ \A j \in Invoices : /\ inv'[j].org = inv[j].org
                                  /\ inv'[j].status \in Stored <=> inv[j].status \in Stored
                                  /\ inv'[j].status = "unused" <=> inv[j].status = "unused"
<1>1. /\ \A k \in DOMAIN lines'[i] : lines'[i][k].org = o
      /\ \A j \in Invoices \ {i} : lines'[j] = lines[j] /\ inv'[j] = inv[j]
      /\ inv'[i] = [inv[i] EXCEPT !.status = "needs_review", !.failed = FALSE]
  BY StoreType
<1>2. inv[i] \in InvoiceRows /\ inv[i].org = o /\ inv[i].status \in Stored
  BY DEF Owned, Exists, IInv, TypeOK
<1>3. inv'[i].status = "needs_review" /\ inv'[i].org = o
  BY <1>1, <1>2 DEF InvoiceRows
<1>4. Exists(i)' /\ Exists(i)
  BY <1>2, <1>3 DEF Exists, Stored
<1>5. \A j \in Invoices : /\ inv'[j].org = inv[j].org
                          /\ inv'[j].status \in Stored <=> inv[j].status \in Stored
                          /\ inv'[j].status = "unused" <=> inv[j].status = "unused"
  <2> TAKE j \in Invoices
  <2>1. CASE j = i
    BY <2>1, <1>2, <1>3 DEF Stored
  <2>2. CASE j # i
    BY <2>2, <1>1
  <2> QED
    BY <2>1, <2>2
<1>6. NoOrphanLines'
  BY <1>1, <1>4 DEF IInv, NoOrphanLines, Exists
<1>7. ExtractingHasNoLines'
  BY <1>1, <1>3 DEF IInv, ExtractingHasNoLines
<1>8. LinesStayInTenant'
  BY <1>1, <1>3 DEF IInv, LinesStayInTenant
<1> QED
  BY <1>5, <1>6, <1>7, <1>8

LEMMA SubmitIInv ==
    ASSUME IInv, NEW o \in Orgs, NEW i \in Invoices, NEW reading \in Readings,
           SubmitExtraction(o, i, reading)
    PROVE  IInv'
<1>1. /\ Owned(o, i)
      /\ StoreExtraction(o, i, reading)
      /\ UNCHANGED <<orders, hasCatalog, initialized, runs>>
  BY DEF SubmitExtraction
<1>2. TypeOK'
  BY <1>1, StoreType DEF IInv, TypeOK
<1>3. RunsKnowTheirTenant'
  BY <1>1, StoreIInv DEF IInv, RunsKnowTheirTenant, Exists
<1> QED
  BY <1>1, <1>2, <1>3, StoreIInv DEF IInv

\* seedIfEmpty on an empty tenant: the demo invoices take ids that no run
\* knows, and enter settled with their own lines.
LEMMA SeedIIInv ==
    ASSUME IInv, NEW o \in Orgs, SeedIfEmpty(o)
    PROVE  IInv'
<1>1. CASE InvoicesOf(o) # {}
  <2>1. UNCHANGED <<inv, totals, lines, orders, hasCatalog, runs>>
        /\ initialized' = [initialized EXCEPT ![o] = TRUE]
    BY <1>1 DEF SeedIfEmpty
  <2> QED
    BY <2>1 DEF IInv, TypeOK, NoOrphanLines, ExtractingHasNoLines, RunsKnowTheirTenant,
                LinesStayInTenant, Exists
<1>2. CASE InvoicesOf(o) = {}
  <2> DEFINE pos == Append(orders[o], DemoList)
             rows(n) == Reconciled(o, DemoReading[n], pos, Catalog)
  <2>1. PICK id \in [DemoNumbers -> Unused] :
          LET numberOf(i) == CHOOSE n \in DemoNumbers : id[n] = i
              seeded == {id[n] : n \in DemoNumbers}
          IN  /\ orders' = [orders EXCEPT ![o] = pos]
              /\ hasCatalog' = [hasCatalog EXCEPT ![o] = TRUE]
              /\ lines' = [i \in Invoices |->
                   IF i \in seeded THEN rows(numberOf(i)) ELSE lines[i]]
              /\ totals' = [i \in Invoices |->
                   IF i \in seeded THEN TotalsOf(rows(numberOf(i))) ELSE totals[i]]
              /\ inv' = [i \in Invoices |->
                   IF i \in seeded THEN NewInvoice(o, numberOf(i), "needs_review") ELSE inv[i]]
    BY <1>2, Zenon DEF SeedIfEmpty
  <2>2. UNCHANGED runs /\ initialized' = [initialized EXCEPT ![o] = TRUE]
    BY DEF SeedIfEmpty
  <2> DEFINE numberOf(i) == CHOOSE n \in DemoNumbers : id[n] = i
             seeded == {id[n] : n \in DemoNumbers}
  <2>3. pos \in Seq(PriceLists)
    BY DEF IInv, TypeOK
  <2> HIDE DEF pos
  <2>4. \A n \in DemoNumbers : /\ rows(n) \in Seq(LineRows)
                               /\ \A k \in DOMAIN rows(n) : rows(n)[k].org = o
    BY <2>3, ReconciledType
  <2> HIDE DEF rows
  <2>5. \A i \in seeded : /\ numberOf(i) \in DemoNumbers
                          /\ i \in Invoices
                          /\ inv[i].status = "unused"
    BY DEF Unused
  <2> HIDE DEF numberOf, seeded
  <2>6. \A i \in seeded : /\ inv'[i] = NewInvoice(o, numberOf(i), "needs_review")
                          /\ lines'[i] = rows(numberOf(i))
    BY <2>1, <2>5 DEF numberOf, seeded
  <2>7. \A i \in Invoices \ seeded : inv'[i] = inv[i] /\ lines'[i] = lines[i]
    BY <2>1 DEF seeded
  <2>8. \A i \in seeded : /\ NewInvoice(o, numberOf(i), "needs_review") \in InvoiceRows
                          /\ rows(numberOf(i)) \in Seq(LineRows)
    BY <2>4, <2>5 DEF NewInvoice, InvoiceRows, Stored
  <2>9. inv' \in [Invoices -> InvoiceRows] /\ lines' \in [Invoices -> Seq(LineRows)]
    <3>1. DOMAIN inv' = Invoices /\ DOMAIN lines' = Invoices
          /\ inv' = [i \in Invoices |-> inv'[i]] /\ lines' = [i \in Invoices |-> lines'[i]]
      BY <2>1
    <3>2. \A i \in Invoices : inv'[i] \in InvoiceRows /\ lines'[i] \in Seq(LineRows)
      <4> TAKE i \in Invoices
      <4>1. CASE i \in seeded
        BY <4>1, <2>6, <2>8
      <4>2. CASE i \notin seeded
        BY <4>2, <2>7 DEF IInv, TypeOK
      <4> QED
        BY <4>1, <4>2
    <3> QED
      BY <3>1, <3>2
  <2>10. totals' = [i \in Invoices |-> totals'[i]]
    BY <2>1
  <2>11. orders' \in [Orgs -> Seq(PriceLists)] /\ hasCatalog' \in [Orgs -> BOOLEAN]
         /\ initialized' \in [Orgs -> BOOLEAN] /\ runs' = runs
    BY <2>1, <2>2, <2>3 DEF IInv, TypeOK
  <2>12. TypeOK'
    BY <2>9, <2>10, <2>11 DEF IInv, TypeOK
  <2>13. \A i \in seeded : inv'[i].status = "needs_review" /\ inv'[i].org = o
    <3> TAKE i \in seeded
    <3>1. inv'[i] = NewInvoice(o, numberOf(i), "needs_review")
      BY <2>6
    <3> QED
      BY <3>1 DEF NewInvoice
  <2>14. NoOrphanLines'
    BY <2>7, <2>13 DEF IInv, NoOrphanLines, Exists, Stored
  <2>15. ExtractingHasNoLines'
    BY <2>7, <2>13 DEF IInv, ExtractingHasNoLines
  <2>16. LinesStayInTenant'
    <3> SUFFICES ASSUME NEW i \in Invoices, NEW k \in DOMAIN lines'[i]
                 PROVE  lines'[i][k].org = inv'[i].org
      BY DEF LinesStayInTenant
    <3>1. CASE i \in seeded
      <4>1. lines'[i] = rows(numberOf(i)) /\ inv'[i].org = o /\ numberOf(i) \in DemoNumbers
        BY <2>5, <2>6, <2>13, <3>1
      <4> QED
        BY <2>4, <4>1
    <3>2. CASE i \notin seeded
      BY <2>7, <3>2 DEF IInv, LinesStayInTenant
    <3> QED
      BY <3>1, <3>2
  <2>17. RunsKnowTheirTenant'
    BY <2>2, <2>5, <2>7 DEF IInv, RunsKnowTheirTenant, Exists
  <2> QED
    BY <2>12, <2>14, <2>15, <2>16, <2>17 DEF IInv
<1> QED
  BY <1>1, <1>2

LEMMA SetupIInv ==
    ASSUME IInv, NEW o \in Orgs, Setup(o)
    PROVE  IInv'
<1>1. CASE SeedIfEmpty(o)
  BY <1>1, SeedIIInv
<1>2. CASE SeedDemoBaseline(o)
  <2>1. UNCHANGED <<inv, totals, lines, runs>>
    BY <1>2 DEF SeedDemoBaseline
  <2>2. /\ orders' \in [Orgs -> Seq(PriceLists)] /\ hasCatalog' \in [Orgs -> BOOLEAN]
        /\ initialized' \in [Orgs -> BOOLEAN]
    <3>1. initialized' \in [Orgs -> BOOLEAN] /\ <<DemoList>> \in Seq(PriceLists)
      BY <1>2 DEF SeedDemoBaseline, IInv, TypeOK
    <3>2. CASE orders[o] # <<>>
      BY <1>2, <3>1, <3>2 DEF SeedDemoBaseline, IInv, TypeOK
    <3>3. CASE orders[o] = <<>>
      BY <1>2, <3>1, <3>3 DEF SeedDemoBaseline, IInv, TypeOK
    <3> QED
      BY <3>2, <3>3
  <2> QED
    BY <2>1, <2>2 DEF IInv, TypeOK, NoOrphanLines, ExtractingHasNoLines, RunsKnowTheirTenant,
                      LinesStayInTenant, Exists
<1>3. CASE \E list \in Lists : SetBaselineFromText(o, list)
  <2>1. UNCHANGED <<inv, totals, lines, initialized, runs>>
    BY <1>3 DEF SetBaselineFromText
  <2>2. orders' \in [Orgs -> Seq(PriceLists)] /\ hasCatalog' \in [Orgs -> BOOLEAN]
    BY <1>3 DEF SetBaselineFromText, IInv, TypeOK
  <2> QED
    BY <2>1, <2>2 DEF IInv, TypeOK, NoOrphanLines, ExtractingHasNoLines, RunsKnowTheirTenant,
                      LinesStayInTenant, Exists
<1>4. CASE ResetDemo(o)
  <2>1. NoRow("deleted") \in InvoiceRows /\ <<>> \in Seq(LineRows) /\ <<>> \in Seq(PriceLists)
    BY DEF NoRow, InvoiceRows
  <2>2. TypeOK'
    BY <1>4, <2>1 DEF ResetDemo, IInv, TypeOK
  <2>3. \A i \in Invoices : \/ inv'[i] = inv[i] /\ lines'[i] = lines[i]
                            \/ inv'[i].status = "deleted" /\ lines'[i] = <<>>
    BY <1>4 DEF ResetDemo, NoRow
  <2>4. runs' = runs
    BY <1>4 DEF ResetDemo
  <2>5. NoOrphanLines' /\ ExtractingHasNoLines' /\ LinesStayInTenant'
    BY <2>3 DEF IInv, NoOrphanLines, ExtractingHasNoLines, LinesStayInTenant, Exists
  <2>6. RunsKnowTheirTenant'
    BY <2>3, <2>4 DEF IInv, RunsKnowTheirTenant, Exists, Stored
  <2> QED
    BY <2>2, <2>5, <2>6 DEF IInv
<1> QED
  BY <1>1, <1>2, <1>3, <1>4 DEF Setup

\* Replacing one row of an invoice by a row of the same tenant.
LEMMA RowIInv ==
    ASSUME IInv, NEW i \in Invoices, NEW k \in DOMAIN lines[i], NEW row \in LineRows,
           row.org = inv[i].org,
           lines' = [lines EXCEPT ![i] = [lines[i] EXCEPT ![k] = row]],
           UNCHANGED <<inv, totals, orders, hasCatalog, initialized, runs>>
    PROVE  IInv'
<1>1. lines \in [Invoices -> Seq(LineRows)]
  BY DEF IInv, TypeOK
<1>2. /\ [lines[i] EXCEPT ![k] = row] \in Seq(LineRows)
      /\ \A j \in DOMAIN lines[i] : [lines[i] EXCEPT ![k] = row][j] = IF j = k THEN row ELSE lines[i][j]
      /\ DOMAIN [lines[i] EXCEPT ![k] = row] = DOMAIN lines[i]
      /\ lines[i] # <<>>
  BY <1>1
<1>3. lines' \in [Invoices -> Seq(LineRows)]
  BY <1>1, <1>2
<1>4. TypeOK'
  BY <1>3 DEF IInv, TypeOK
<1>5. /\ \A j \in Invoices \ {i} : lines'[j] = lines[j]
      /\ lines'[i] = [lines[i] EXCEPT ![k] = row]
  BY <1>1
<1>6. NoOrphanLines' /\ ExtractingHasNoLines'
  BY <1>2, <1>5 DEF IInv, NoOrphanLines, ExtractingHasNoLines, Exists
<1>7. LinesStayInTenant'
  BY <1>2, <1>5 DEF IInv, LinesStayInTenant
<1>8. RunsKnowTheirTenant'
  BY DEF IInv, RunsKnowTheirTenant, Exists
<1> QED
  BY <1>4, <1>6, <1>7, <1>8 DEF IInv

LEMMA ReviewLineIInv ==
    ASSUME IInv, NEW o \in Orgs, NEW i \in Invoices, NEW k \in DOMAIN lines[i],
           NEW d \in {"approved", "rejected"}, ReviewLine(o, i, k, d)
    PROVE  IInv'
<1> DEFINE row == [lines[i][k] EXCEPT !.decision = d]
<1>1. lines \in [Invoices -> Seq(LineRows)] /\ lines[i][k] \in LineRows
  BY DEF IInv, TypeOK
<1>2. row \in LineRows /\ row.org = inv[i].org
  BY <1>1 DEF LineRows, Decisions, IInv, LinesStayInTenant
<1>3. lines' = [lines EXCEPT ![i] = [lines[i] EXCEPT ![k] = row]]
      /\ UNCHANGED <<inv, totals, orders, hasCatalog, initialized, runs>>
  BY <1>1 DEF ReviewLine
<1> QED
  BY <1>2, <1>3, RowIInv

LEMMA CorrectLineIInv ==
    ASSUME IInv, NEW o \in Orgs, NEW i \in Invoices, NEW k \in DOMAIN lines[i],
           NEW price \in Corrections, NEW qty \in Enterable(i, k),
           CorrectLine(o, i, k, price, qty)
    PROVE  IInv'
<1> DEFINE old == lines[i][k].read
           read == [old EXCEPT !.price = price, !.qty = qty, !.ext = qty * price]
           row == [org |-> o, read |-> read,
                   verdict |-> ReconcileLine(read, orders[o], CatalogOf(o), price),
                   decision |-> "edited"]
<1>1. /\ lines \in [Invoices -> Seq(LineRows)] /\ lines[i][k] \in LineRows
      /\ orders[o] \in Seq(PriceLists)
  BY DEF IInv, TypeOK
<1>2. old \in ReadLines /\ lines[i][k].org = o
  BY <1>1 DEF LineRows, CorrectLine, OwnedLine
<1>3. read \in ReadLines
  <2>1. \A m, n \in Nat : m * n \in Nat
    OBVIOUS
  <2>2. price \in Nat /\ qty \in Nat
    BY <1>2 DEF ReadLines, Prices, Enterable
  <2>3. qty * price \in Nat
    BY <2>1, <2>2
  <2> HIDE DEF old
  <2> QED
    BY <1>2, <2>2, <2>3 DEF ReadLines, Prices
<1> HIDE DEF read
<1>4. ReconcileLine(read, orders[o], CatalogOf(o), price) \in Verdicts
  <2>1. price \in Int
    BY DEF Prices
  <2> QED
    BY <1>1, <1>3, <2>1, CatalogType, ReconcileLineType
<1>5. row \in LineRows /\ row.org = inv[i].org
  BY <1>2, <1>3, <1>4 DEF LineRows, Decisions, IInv, LinesStayInTenant
<1>6. lines' = [lines EXCEPT ![i] = [lines[i] EXCEPT ![k] = row]]
      /\ UNCHANGED <<inv, totals, orders, hasCatalog, initialized, runs>>
  BY <1>1 DEF CorrectLine, read
<1> HIDE DEF row
<1> QED
  BY <1>5, <1>6, RowIInv

LEMMA SetStatusIInv ==
    ASSUME IInv, NEW o \in Orgs, NEW i \in Invoices,
           NEW s \in {"approved", "rejected", "needs_review"}, SetInvoiceStatus(o, i, s)
    PROVE  IInv'
<1>1. /\ Owned(o, i)
      /\ inv' = [inv EXCEPT ![i].status = s]
      /\ UNCHANGED <<totals, lines, orders, hasCatalog, initialized, runs>>
  BY DEF SetInvoiceStatus
<1>2. inv \in [Invoices -> InvoiceRows]
  BY DEF IInv, TypeOK
<1>3. /\ inv' \in [Invoices -> InvoiceRows]
      /\ \A j \in Invoices \ {i} : inv'[j] = inv[j]
      /\ inv'[i].status = s /\ inv'[i].org = inv[i].org
  BY <1>1, <1>2 DEF InvoiceRows, Stored
<1>4. Exists(i)
  BY <1>1 DEF Owned
<1>5. TypeOK'
  BY <1>1, <1>3 DEF IInv, TypeOK
<1>6. NoOrphanLines' /\ ExtractingHasNoLines' /\ LinesStayInTenant'
  BY <1>1, <1>3 DEF IInv, NoOrphanLines, ExtractingHasNoLines, LinesStayInTenant, Exists, Stored
<1>7. RunsKnowTheirTenant'
  BY <1>1, <1>3, <1>4 DEF IInv, RunsKnowTheirTenant, Exists, Stored
<1> QED
  BY <1>5, <1>6, <1>7 DEF IInv

----------------------------------------------------------------------------
(* The steps of extract.run keep the invariant.                            *)

\* A step that only moves a run on, or ends it.
LEMMA RunMovesIInv ==
    ASSUME IInv, NEW r \in RunSlots, runs[r].pc # "idle",
           UNCHANGED <<inv, totals, lines, orders, hasCatalog, initialized>>,
           NEW next \in RunStates,
           next.pc = "idle" \/ (next.inv = runs[r].inv /\ next.org = runs[r].org),
           runs' = [runs EXCEPT ![r] = next]
    PROVE  IInv'
<1>1. runs \in [RunSlots -> RunStates]
  BY DEF IInv, TypeOK
<1>2. TypeOK'
  BY <1>1 DEF IInv, TypeOK
<1>3. RunsKnowTheirTenant'
  BY <1>1 DEF IInv, RunsKnowTheirTenant, Exists
<1> QED
  BY <1>2, <1>3 DEF IInv, NoOrphanLines, ExtractingHasNoLines, LinesStayInTenant, Exists

LEMMA RunMoves ==
    ASSUME IInv, NEW r \in RunSlots
    PROVE  /\ IdleRun \in RunStates /\ IdleRun.pc = "idle"
           /\ \A pc \in {"extract", "write", "log", "mark"}, out \in Readings :
                /\ [runs[r] EXCEPT !.pc = pc] \in RunStates
                /\ [runs[r] EXCEPT !.pc = pc].inv = runs[r].inv
                /\ [runs[r] EXCEPT !.pc = pc].org = runs[r].org
                /\ [runs[r] EXCEPT !.pc = pc, !.out = out] \in RunStates
                /\ [runs[r] EXCEPT !.pc = pc, !.out = out].inv = runs[r].inv
                /\ [runs[r] EXCEPT !.pc = pc, !.out = out].org = runs[r].org
BY DEF IInv, TypeOK, RunStates, IdleRun

LEMMA RunWriteIInv ==
    ASSUME IInv, NEW r \in RunSlots, RunWrite(r)
    PROVE  IInv'
<1>1. runs \in [RunSlots -> RunStates] /\ runs[r].pc = "write" /\ runs[r].out \in Readings
  BY DEF RunWrite, IInv, TypeOK, RunStates
<1>2. runs[r].inv \in Invoices /\ runs[r].org \in Orgs
  BY <1>1 DEF IInv, RunsKnowTheirTenant
<1>3. CASE Exists(runs[r].inv)
  <2> DEFINE next == [runs[r] EXCEPT !.pc = "log", !.out = <<>>]
  <2>1. /\ StoreExtraction(runs[r].org, runs[r].inv, runs[r].out)
        /\ runs' = [runs EXCEPT ![r] = next]
        /\ UNCHANGED <<orders, hasCatalog, initialized>>
    BY <1>1, <1>3 DEF RunWrite
  <2>2. Owned(runs[r].org, runs[r].inv)
    BY <1>1, <1>3 DEF Owned, IInv, RunsKnowTheirTenant
  <2>3. next \in RunStates /\ next.inv = runs[r].inv /\ next.org = runs[r].org
    BY RunMoves
  <2> HIDE DEF next
  <2>4. TypeOK'
    BY <1>1, <1>2, <2>1, <2>2, <2>3, StoreType DEF IInv, TypeOK
  <2>5. /\ NoOrphanLines' /\ ExtractingHasNoLines' /\ LinesStayInTenant'
        /\ \A j \in Invoices : /\ inv'[j].org = inv[j].org
                               /\ inv'[j].status \in Stored <=> inv[j].status \in Stored
                               /\ inv'[j].status = "unused" <=> inv[j].status = "unused"
    BY <1>1, <1>2, <2>1, <2>2, StoreIInv
  <2>6. RunsKnowTheirTenant'
    <3> SUFFICES ASSUME NEW q \in RunSlots, runs'[q].pc # "idle"
                 PROVE  /\ runs'[q].inv \in Invoices
                        /\ runs'[q].org \in Orgs
                        /\ inv'[runs'[q].inv].status # "unused"
                        /\ inv'[runs'[q].inv].status \in Stored =>
                             inv'[runs'[q].inv].org = runs'[q].org
      BY DEF RunsKnowTheirTenant, Exists
    <3>1. runs[q].pc # "idle" /\ runs'[q].inv = runs[q].inv /\ runs'[q].org = runs[q].org
      BY <1>1, <2>1, <2>3
    <3> QED
      BY <2>5, <3>1 DEF IInv, RunsKnowTheirTenant, Exists
  <2> QED
    BY <2>4, <2>5, <2>6 DEF IInv
<1>4. CASE ~ Exists(runs[r].inv)
  <2>1. /\ runs' = [runs EXCEPT ![r] = [runs[r] EXCEPT !.pc = "mark", !.out = <<>>]]
        /\ UNCHANGED <<inv, totals, lines, orders, hasCatalog, initialized>>
    BY <1>1, <1>4 DEF RunWrite
  <2> QED
    BY <1>1, <2>1, RunMoves, RunMovesIInv
<1> QED
  BY <1>3, <1>4

LEMMA RunMarkIInv ==
    ASSUME IInv, NEW r \in RunSlots, RunMark(r)
    PROVE  IInv'
<1>1. /\ runs \in [RunSlots -> RunStates] /\ runs[r].pc = "mark"
      /\ runs' = [runs EXCEPT ![r] = IdleRun]
      /\ UNCHANGED <<totals, lines, orders, hasCatalog, initialized>>
  BY DEF RunMark, IInv, TypeOK
<1>2. CASE Exists(runs[r].inv)
  <2> DEFINE i == runs[r].inv
             marked == [inv[i] EXCEPT !.status = "needs_review", !.failed = TRUE]
  <2>1. i \in Invoices /\ inv \in [Invoices -> InvoiceRows] /\ inv[i].status \in Stored
    BY <1>1, <1>2 DEF IInv, TypeOK, RunsKnowTheirTenant, Exists
  <2>2. inv' = [inv EXCEPT ![i].status = "needs_review", ![i].failed = TRUE]
    BY <1>2 DEF RunMark
  <2> HIDE DEF i
  <2>3. inv' = [inv EXCEPT ![i] = marked]
    BY <2>1, <2>2
  <2>4. marked \in InvoiceRows /\ marked.status = "needs_review" /\ marked.org = inv[i].org
    BY <2>1 DEF InvoiceRows, Stored
  <2> HIDE DEF marked
  <2>5. /\ inv' \in [Invoices -> InvoiceRows]
        /\ \A j \in Invoices \ {i} : inv'[j] = inv[j]
        /\ inv'[i].status = "needs_review" /\ inv'[i].org = inv[i].org
    BY <2>1, <2>3, <2>4
  <2>6. TypeOK'
    BY <1>1, <2>5, RunMoves DEF IInv, TypeOK
  <2>7. NoOrphanLines' /\ ExtractingHasNoLines' /\ LinesStayInTenant'
    BY <1>1, <2>5 DEF IInv, NoOrphanLines, ExtractingHasNoLines, LinesStayInTenant, Exists, Stored
  <2>8. RunsKnowTheirTenant'
    <3> SUFFICES ASSUME NEW q \in RunSlots, runs'[q].pc # "idle"
                 PROVE  /\ runs'[q].inv \in Invoices
                        /\ runs'[q].org \in Orgs
                        /\ inv'[runs'[q].inv].status # "unused"
                        /\ inv'[runs'[q].inv].status \in Stored =>
                             inv'[runs'[q].inv].org = runs'[q].org
      BY DEF RunsKnowTheirTenant, Exists
    <3>1. runs'[q] = runs[q]
      BY <1>1 DEF IdleRun
    <3>2. /\ runs[q].inv \in Invoices
          /\ runs[q].org \in Orgs
          /\ inv[runs[q].inv].status # "unused"
          /\ inv[runs[q].inv].status \in Stored => inv[runs[q].inv].org = runs[q].org
      BY <3>1 DEF IInv, RunsKnowTheirTenant, Exists
    <3>3. CASE runs[q].inv = i
      BY <2>1, <2>5, <3>1, <3>2, <3>3
    <3>4. CASE runs[q].inv # i
      BY <2>5, <3>1, <3>2, <3>4
    <3> QED
      BY <3>3, <3>4
  <2> QED
    BY <2>6, <2>7, <2>8 DEF IInv
<1>3. CASE ~ Exists(runs[r].inv)
  <2>1. UNCHANGED inv
    BY <1>3 DEF RunMark
  <2> QED
    BY <1>1, <2>1, RunMoves, RunMovesIInv
<1> QED
  BY <1>2, <1>3

LEMMA RunIInv ==
    ASSUME IInv, NEW r \in RunSlots, RunStep(r) \/ RunFault(r) \/ RunLost(r)
    PROVE  IInv'
<1>0. runs \in [RunSlots -> RunStates]
  BY DEF IInv, TypeOK
<1>1. CASE RunRead(r)
  <2>1. /\ runs[r].pc = "read"
        /\ UNCHANGED <<inv, totals, lines, orders, hasCatalog, initialized>>
        /\ \/ runs' = [runs EXCEPT ![r] = [runs[r] EXCEPT !.pc = "extract"]]
           \/ runs' = [runs EXCEPT ![r] = IdleRun]
    BY <1>0, <1>1 DEF RunRead
  <2> QED
    BY <2>1, RunMoves, RunMovesIInv
<1>2. CASE \E reading \in Readings : RunExtract(r, reading)
  <2>1. PICK reading \in Readings : RunExtract(r, reading)
    BY <1>2
  <2>2. /\ runs[r].pc = "extract"
        /\ UNCHANGED <<inv, totals, lines, orders, hasCatalog, initialized>>
        /\ runs' = [runs EXCEPT ![r] = [runs[r] EXCEPT !.pc = "write", !.out = reading]]
    BY <1>0, <2>1 DEF RunExtract
  <2> QED
    BY <2>2, RunMoves, RunMovesIInv
<1>3. CASE RunWrite(r)
  BY <1>3, RunWriteIInv
<1>4. CASE RunLog(r) \/ RunLost(r)
  <2>1. /\ runs[r].pc # "idle"
        /\ UNCHANGED <<inv, totals, lines, orders, hasCatalog, initialized>>
        /\ runs' = [runs EXCEPT ![r] = IdleRun]
    BY <1>4 DEF RunLog, RunLost
  <2> QED
    BY <2>1, RunMoves, RunMovesIInv
<1>5. CASE RunMark(r)
  BY <1>5, RunMarkIInv
<1>6. CASE RunFault(r)
  <2>1. /\ runs[r].pc # "idle"
        /\ UNCHANGED <<inv, totals, lines, orders, hasCatalog, initialized>>
        /\ runs' = [runs EXCEPT ![r] = [runs[r] EXCEPT !.pc = "mark", !.out = <<>>]]
    BY <1>0, <1>6 DEF RunFault
  <2> QED
    BY <2>1, RunMoves, RunMovesIInv
<1> QED
  BY <1>1, <1>2, <1>3, <1>4, <1>5, <1>6 DEF RunStep

----------------------------------------------------------------------------
(* The theorems.                                                           *)

LEMMA NextIInv == ASSUME IInv, [Next]_vars PROVE IInv'
<1>1. CASE \E o \in Orgs : Upload(o)
  <2>1. PICK o \in Orgs : Upload(o)
    BY <1>1
  <2>2. CASE \E n \in Numbers, deferServer \in BOOLEAN : CreateInvoiceFromText(o, n, deferServer)
    BY <2>2, CreateIInv DEF CreateInvoiceFromText
  <2>3. CASE \E i \in Invoices : ScheduleExtract(o, i)
    BY <2>3, ScheduleExtractIInv
  <2>4. CASE \E i \in Invoices, reading \in Readings : SubmitExtraction(o, i, reading)
    BY <2>4, SubmitIInv
  <2> QED
    BY <2>1, <2>2, <2>3, <2>4 DEF Upload
<1>2. CASE \E o \in Orgs : Review(o)
  BY <1>2, ReviewLineIInv, CorrectLineIInv, SetStatusIInv DEF Review
<1>3. CASE \E o \in Orgs : Setup(o)
  BY <1>3, SetupIInv
<1>4. CASE \E r \in RunSlots : RunStep(r) \/ RunFault(r) \/ RunLost(r)
  BY <1>4, RunIInv
<1>5. CASE UNCHANGED vars
  BY <1>5 DEF vars, IInv, TypeOK, NoOrphanLines, ExtractingHasNoLines, RunsKnowTheirTenant,
              LinesStayInTenant, Exists
<1> QED
  BY <1>1, <1>2, <1>3, <1>4, <1>5 DEF Next

\* The invariant of the backend, for any number of tenants, invoices and runs.
THEOREM BackendIInv == Spec => []IInv
<1>1. Init => IInv
  BY InitIInv
<1>2. IInv /\ [Next]_vars => IInv'
  BY NextIInv
<1> QED
  BY <1>1, <1>2, PTL DEF Spec

\* The tables hold what schema.ts says they hold.
THEOREM BackendTypeOK == Spec => []TypeOK
<1>1. IInv => TypeOK
  BY DEF IInv
<1> QED
  BY <1>1, BackendIInv, PTL

\* No interleaving of resetDemo with a run that is about to write leaves line
\* items without an invoice (invoices.ts:449-477, 573-585).
THEOREM LinesHaveAnInvoice == Spec => []NoOrphanLines
<1>1. IInv => NoOrphanLines
  BY DEF IInv
<1> QED
  BY <1>1, BackendIInv, PTL

\* An invoice that waits for an extraction has nothing to lose to one: what
\* submitExtraction's guard on `extracting' (invoices.ts:372-377) relies on.
THEOREM WaitingMeansEmpty == Spec => []ExtractingHasNoLines
<1>1. IInv => ExtractingHasNoLines
  BY DEF IInv
<1> QED
  BY <1>1, BackendIInv, PTL

\* No tenant's line items end on another tenant's invoice, although a run
\* checks neither of the two ids it was handed (extract.ts:19-24).
THEOREM TenantsAreIsolated == Spec => []LinesStayInTenant
<1>1. IInv => LinesStayInTenant
  BY DEF IInv
<1> QED
  BY <1>1, BackendIInv, PTL

\* A scheduled run's invoice belongs to the tenant that scheduled it, or is
\* erased (invoices.ts:336-344): what TenantsAreIsolated rests on.
THEOREM RunsAreTheirTenants == Spec => []RunsKnowTheirTenant
<1>1. IInv => RunsKnowTheirTenant
  BY DEF IInv
<1> QED
  BY <1>1, BackendIInv, PTL

-----------------------------------------------------------------------------
(* The store implements InvoiceLedger: each mutation and each step of       *)
(* extract.run maps to one step of the ledger or to none.                   *)

Settled == {"needs_review", "approved", "rejected"}

LEMMA PhaseValues ==
    /\ Phase("unused") = "absent"
    /\ Phase("extracting") = "awaiting"
    /\ \A s \in Settled : Phase(s) = "settled"
    /\ Phase("deleted") = "erased"
BY DEF Phase, Settled

SamePhase(i) == Phase(inv'[i].status) = Phase(inv[i].status)
SameHolding(i) == lines'[i] # <<>> <=> lines[i] # <<>>

\* A step that leaves every invoice in its phase, and filled or empty.
LEMMA Unseen ==
    ASSUME \A i \in Invoices : SamePhase(i) /\ SameHolding(i)
    PROVE  UNCHANGED Ledger!ledger
BY DEF SamePhase, SameHolding, Ledger!ledger

LEMMA SettleStep ==
    ASSUME NEW i \in Invoices, Exists(i), inv'[i].status \in Settled,
           \A j \in Invoices \ {i} : SamePhase(j) /\ SameHolding(j)
    PROVE  Ledger!Settle(i)
<1>1. Phase(inv[i].status) \in {"awaiting", "settled"}
  BY PhaseValues DEF Exists, Stored, Settled
<1>2. Phase(inv'[i].status) = "settled"
  BY PhaseValues
<1>3. [j \in Invoices |-> Phase(inv'[j].status)]
        = [[j \in Invoices |-> Phase(inv[j].status)] EXCEPT ![i] = "settled"]
  BY <1>2 DEF SamePhase
<1>4. {j \in Invoices : lines'[j] # <<>>} \in
        {{j \in Invoices : lines[j] # <<>>}, {j \in Invoices : lines[j] # <<>>} \cup {i},
         {j \in Invoices : lines[j] # <<>>} \ {i}}
  BY DEF SameHolding
<1> QED
  BY <1>1, <1>3, <1>4 DEF Ledger!Settle, Ledger!Alive

LEMMA OpenStep ==
    ASSUME NEW i \in Invoices, inv[i].status = "unused", inv'[i].status = "extracting",
           \A j \in Invoices \ {i} : SamePhase(j),
           \A j \in Invoices : SameHolding(j)
    PROVE  Ledger!Open(i)
<1>1. Phase(inv[i].status) = "absent" /\ Phase(inv'[i].status) = "awaiting"
  BY PhaseValues
<1>2. [j \in Invoices |-> Phase(inv'[j].status)]
        = [[j \in Invoices |-> Phase(inv[j].status)] EXCEPT ![i] = "awaiting"]
  BY <1>1 DEF SamePhase
<1> QED
  BY <1>1, <1>2 DEF Ledger!Open, SameHolding

LEMMA ImportStep ==
    ASSUME NEW S \in SUBSET Invoices,
           \A i \in S : inv[i].status = "unused" /\ inv'[i].status \in Settled /\ lines[i] = <<>>,
           \A j \in Invoices \ S : SamePhase(j) /\ SameHolding(j)
    PROVE  Ledger!Import(S)
<1>1. \A i \in S : Phase(inv[i].status) = "absent" /\ Phase(inv'[i].status) = "settled"
  BY PhaseValues
<1>2. [j \in Invoices |-> Phase(inv'[j].status)]
        = [j \in Invoices |-> IF j \in S THEN "settled" ELSE Phase(inv[j].status)]
  BY <1>1 DEF SamePhase
<1> DEFINE filled == {i \in S : lines'[i] # <<>>}
<1>3. {j \in Invoices : lines'[j] # <<>>} = {j \in Invoices : lines[j] # <<>>} \cup filled
  BY DEF SameHolding
<1>4. [j \in Invoices |-> IF j \in S THEN "settled" ELSE Phase(inv[j].status)]
        = [j \in Invoices |-> IF j \in S THEN "settled"
                              ELSE [k \in Invoices |-> Phase(inv[k].status)][j]]
  OBVIOUS
<1> QED
  BY <1>1, <1>2, <1>3, <1>4 DEF Ledger!Import

LEMMA EraseStep ==
    ASSUME NEW S \in SUBSET Invoices,
           \A i \in S : Exists(i) /\ inv'[i].status = "deleted" /\ lines'[i] = <<>>,
           \A j \in Invoices \ S : SamePhase(j) /\ SameHolding(j)
    PROVE  Ledger!Erase(S)
<1>1. \A i \in S : Phase(inv[i].status) \in {"awaiting", "settled"}
  BY PhaseValues DEF Exists, Stored, Settled
<1>2. \A i \in S : Phase(inv'[i].status) = "erased"
  BY PhaseValues
<1>3. [j \in Invoices |-> Phase(inv'[j].status)]
        = [j \in Invoices |-> IF j \in S THEN "erased"
                              ELSE [k \in Invoices |-> Phase(inv[k].status)][j]]
  BY <1>2 DEF SamePhase
<1>4. {j \in Invoices : lines'[j] # <<>>} = {j \in Invoices : lines[j] # <<>>} \ S
  BY DEF SameHolding
<1> QED
  BY <1>1, <1>3, <1>4 DEF Ledger!Erase, Ledger!Alive

\* Storing an extraction, by a client or by a run, settles the invoice.
LEMMA StoreSettles ==
    ASSUME IInv, NEW o \in Orgs, NEW i \in Invoices, NEW reading \in Readings,
           Owned(o, i), StoreExtraction(o, i, reading)
    PROVE  Ledger!Settle(i)
<1>1. /\ \A j \in Invoices \ {i} : lines'[j] = lines[j] /\ inv'[j] = inv[j]
      /\ inv'[i] = [inv[i] EXCEPT !.status = "needs_review", !.failed = FALSE]
  BY StoreType
<1>2. inv[i] \in InvoiceRows /\ Exists(i)
  BY DEF Owned, IInv, TypeOK
<1>3. inv'[i].status \in Settled
  BY <1>1, <1>2 DEF InvoiceRows, Settled
<1>4. \A j \in Invoices \ {i} : SamePhase(j) /\ SameHolding(j)
  BY <1>1 DEF SamePhase, SameHolding
<1> QED
  BY <1>2, <1>3, <1>4, SettleStep

\* What a mutation may do to the ledger.
Ledgered == \/ \E i \in Invoices : Ledger!Open(i) \/ Ledger!Settle(i)
            \/ \E S \in SUBSET Invoices : Ledger!Import(S) \/ Ledger!Erase(S)
            \/ UNCHANGED Ledger!ledger

LEMMA UploadLedgered ==
    ASSUME IInv, NEW o \in Orgs, Upload(o)
    PROVE  Ledgered
<1>1. CASE \E n \in Numbers, deferServer \in BOOLEAN : CreateInvoiceFromText(o, n, deferServer)
  <2>1. PICK n \in Numbers, deferServer \in BOOLEAN, i \in Invoices :
              CreateAs(o, i, n, deferServer)
    BY <1>1 DEF CreateInvoiceFromText
  <2>2. /\ inv[i].status = "unused"
        /\ inv' = [inv EXCEPT ![i] = NewInvoice(o, n, "extracting")]
        /\ lines' = lines
    BY <2>1 DEF CreateAs, Unused
  <2>3. inv'[i].status = "extracting" /\ \A j \in Invoices \ {i} : inv'[j] = inv[j]
    BY <2>2 DEF NewInvoice, IInv, TypeOK
  <2>4. Ledger!Open(i)
    <3>1. \A j \in Invoices \ {i} : SamePhase(j)
      BY <2>3 DEF SamePhase
    <3>2. \A j \in Invoices : SameHolding(j)
      BY <2>2 DEF SameHolding
    <3> QED
      BY <2>2, <2>3, <3>1, <3>2, OpenStep
  <2> QED
    BY <2>4 DEF Ledgered
<1>2. CASE \E i \in Invoices : ScheduleExtract(o, i)
  <2>1. inv' = inv /\ lines' = lines
    BY <1>2 DEF ScheduleExtract
  <2>2. \A i \in Invoices : SamePhase(i) /\ SameHolding(i)
    BY <2>1 DEF SamePhase, SameHolding
  <2> QED
    BY <2>2, Unseen DEF Ledgered
<1>3. CASE \E i \in Invoices, reading \in Readings : SubmitExtraction(o, i, reading)
  BY <1>3, StoreSettles DEF SubmitExtraction, Ledgered
<1> QED
  BY <1>1, <1>2, <1>3 DEF Upload

LEMMA ReviewLedgered ==
    ASSUME IInv, NEW o \in Orgs, Review(o)
    PROVE  Ledgered
<1>1. PICK i \in Invoices :
        \/ \E k \in DOMAIN lines[i] :
              \/ \E d \in {"approved", "rejected"} : ReviewLine(o, i, k, d)
              \/ \E p \in Corrections, q \in Enterable(i, k) : CorrectLine(o, i, k, p, q)
        \/ \E s \in {"approved", "rejected", "needs_review"} : SetInvoiceStatus(o, i, s)
  BY DEF Review
<1>2. lines \in [Invoices -> Seq(LineRows)]
  BY DEF IInv, TypeOK
<1>3. ASSUME NEW k \in DOMAIN lines[i], NEW row,
             inv' = inv, lines' = [lines EXCEPT ![i] = [lines[i] EXCEPT ![k] = row]]
      PROVE  Ledgered
  <2>1. \A j \in Invoices : SamePhase(j)
    BY <1>3 DEF SamePhase
  <2>2. DOMAIN lines'[i] = DOMAIN lines[i] /\ k \in DOMAIN lines[i]
    BY <1>2, <1>3
  <2>3. lines'[i] # <<>> /\ lines[i] # <<>>
    BY <2>2
  <2>4. \A j \in Invoices : SameHolding(j)
    BY <1>2, <1>3, <2>3 DEF SameHolding
  <2> QED
    BY <2>1, <2>4, Unseen DEF Ledgered
<1>4. CASE \E k \in DOMAIN lines[i] : \E d \in {"approved", "rejected"} : ReviewLine(o, i, k, d)
  <2>1. PICK k \in DOMAIN lines[i], d \in {"approved", "rejected"} : ReviewLine(o, i, k, d)
    BY <1>4
  <2>2. inv' = inv /\ lines' = [lines EXCEPT ![i] =
                        [lines[i] EXCEPT ![k] = [lines[i][k] EXCEPT !.decision = d]]]
    BY <1>2, <2>1 DEF ReviewLine
  <2> QED
    BY <2>2, <1>3
<1>5. CASE \E k \in DOMAIN lines[i] :
             \E p \in Corrections, q \in Enterable(i, k) : CorrectLine(o, i, k, p, q)
  <2>0. PICK k \in DOMAIN lines[i] :
             \E p \in Corrections, q \in Enterable(i, k) : CorrectLine(o, i, k, p, q)
    BY <1>5
  <2>1. PICK p \in Corrections, q \in Enterable(i, k) : CorrectLine(o, i, k, p, q)
    BY <2>0
  <2>2. PICK row : inv' = inv /\ lines' = [lines EXCEPT ![i] = [lines[i] EXCEPT ![k] = row]]
    BY <1>2, <2>1 DEF CorrectLine
  <2> QED
    BY <2>2, <1>3
<1>6. CASE \E s \in {"approved", "rejected", "needs_review"} : SetInvoiceStatus(o, i, s)
  <2>1. PICK s \in Settled : SetInvoiceStatus(o, i, s)
    BY <1>6 DEF Settled
  <2>2. /\ Exists(i) /\ lines' = lines
        /\ inv'[i].status = s
        /\ \A j \in Invoices \ {i} : inv'[j] = inv[j]
    BY <2>1 DEF SetInvoiceStatus, Owned, IInv, TypeOK, InvoiceRows
  <2>3. \A j \in Invoices \ {i} : SamePhase(j) /\ SameHolding(j)
    BY <2>2 DEF SamePhase, SameHolding
  <2> QED
    BY <2>2, <2>3, SettleStep DEF Ledgered
<1> QED
  BY <1>1, <1>4, <1>5, <1>6

LEMMA SetupLedgered ==
    ASSUME IInv, NEW o \in Orgs, Setup(o)
    PROVE  Ledgered
<1>1. CASE inv' = inv /\ lines' = lines
  BY <1>1, Unseen DEF SamePhase, SameHolding, Ledgered
<1>2. CASE SeedIfEmpty(o) /\ InvoicesOf(o) = {}
  <2>1. PICK id \in [DemoNumbers -> Unused] :
          LET numberOf(i) == CHOOSE n \in DemoNumbers : id[n] = i
              seeded == {id[n] : n \in DemoNumbers}
          IN  /\ lines' = [i \in Invoices |->
                   IF i \in seeded
                   THEN Reconciled(o, DemoReading[numberOf(i)], Append(orders[o], DemoList), Catalog)
                   ELSE lines[i]]
              /\ inv' = [i \in Invoices |->
                   IF i \in seeded THEN NewInvoice(o, numberOf(i), "needs_review") ELSE inv[i]]
    BY <1>2, Zenon DEF SeedIfEmpty
  <2> DEFINE seeded == {id[n] : n \in DemoNumbers}
  <2>2. seeded \in SUBSET Invoices /\ \A i \in seeded : inv[i].status = "unused"
    BY DEF Unused
  <2>3. \A i \in seeded : inv'[i].status \in Settled
    BY <2>1, <2>2 DEF NewInvoice, Settled
  <2>4. \A j \in Invoices \ seeded : inv'[j] = inv[j] /\ lines'[j] = lines[j]
    BY <2>1
  <2> HIDE DEF seeded
  <2>5. \A i \in seeded : lines[i] = <<>>
    BY <2>2 DEF IInv, NoOrphanLines, Exists, Stored
  <2>6. \A j \in Invoices \ seeded : SamePhase(j) /\ SameHolding(j)
    BY <2>4 DEF SamePhase, SameHolding
  <2>7. Ledger!Import(seeded)
    BY <2>2, <2>3, <2>5, <2>6, ImportStep
  <2> QED
    BY <2>2, <2>7 DEF Ledgered
<1>3. CASE ResetDemo(o)
  <2>0. PICK gone \in SUBSET Invoices : gone = InvoicesOf(o)
    BY DEF InvoicesOf
  <2>1. /\ \A i \in gone : Exists(i) /\ inv'[i].status = "deleted" /\ lines'[i] = <<>>
    BY <1>3, <2>0 DEF ResetDemo, NoRow, InvoicesOf, Owned
  <2>2. \A j \in Invoices \ gone : inv'[j] = inv[j] /\ lines'[j] = lines[j]
    BY <1>3, <2>0 DEF ResetDemo, InvoicesOf
  <2>3. \A j \in Invoices \ gone : SamePhase(j) /\ SameHolding(j)
    BY <2>2 DEF SamePhase, SameHolding
  <2>4. Ledger!Erase(gone)
    BY <2>1, <2>3, EraseStep
  <2> QED
    BY <2>1, <2>4 DEF Ledgered
<1>4. \/ inv' = inv /\ lines' = lines
      \/ SeedIfEmpty(o) /\ InvoicesOf(o) = {}
      \/ ResetDemo(o)
  BY DEF Setup, SeedIfEmpty, SeedDemoBaseline, SetBaselineFromText
<1> QED
  BY <1>1, <1>2, <1>3, <1>4

\* A run settles an invoice that is still there, and touches nothing when it
\* has been erased.
LEMMA RunLedgered ==
    ASSUME IInv, NEW r \in RunSlots, RunStep(r) \/ RunFault(r) \/ RunLost(r)
    PROVE  Ledgered
<1>1. CASE inv' = inv /\ lines' = lines
  BY <1>1, Unseen DEF SamePhase, SameHolding, Ledgered
<1>2. CASE RunWrite(r) /\ Exists(runs[r].inv)
  <2>1. runs[r] \in RunStates /\ runs[r].pc = "write"
    BY <1>2 DEF RunWrite, IInv, TypeOK
  <2>2. /\ runs[r].inv \in Invoices /\ runs[r].org \in Orgs /\ runs[r].out \in Readings
        /\ Owned(runs[r].org, runs[r].inv)
    BY <1>2, <2>1 DEF IInv, RunsKnowTheirTenant, RunStates, Owned
  <2>3. StoreExtraction(runs[r].org, runs[r].inv, runs[r].out)
    BY <1>2 DEF RunWrite
  <2> QED
    BY <2>2, <2>3, StoreSettles DEF Ledgered
<1>3. CASE RunMark(r) /\ Exists(runs[r].inv)
  <2> DEFINE i == runs[r].inv
  <2>1. i \in Invoices /\ inv \in [Invoices -> InvoiceRows]
    BY <1>3 DEF RunMark, IInv, TypeOK, RunsKnowTheirTenant
  <2>2. /\ inv' = [inv EXCEPT ![i].status = "needs_review", ![i].failed = TRUE]
        /\ lines' = lines
    BY <1>3 DEF RunMark
  <2> HIDE DEF i
  <2>3. inv'[i].status \in Settled /\ \A j \in Invoices \ {i} : inv'[j] = inv[j]
    BY <2>1, <2>2 DEF InvoiceRows, Settled
  <2>4. \A j \in Invoices \ {i} : SamePhase(j) /\ SameHolding(j)
    BY <2>2, <2>3 DEF SamePhase, SameHolding
  <2>5. Exists(i)
    BY <1>3 DEF i
  <2> QED
    BY <2>1, <2>3, <2>4, <2>5, SettleStep DEF Ledgered
<1>4. \/ inv' = inv /\ lines' = lines
      \/ RunWrite(r) /\ Exists(runs[r].inv)
      \/ RunMark(r) /\ Exists(runs[r].inv)
  BY DEF RunStep, RunFault, RunLost, RunRead, RunExtract, RunWrite, RunLog, RunMark
<1> QED
  BY <1>1, <1>2, <1>3, <1>4

\* The store implements the ledger: an invoice opens once, is settled only
\* while it exists, and is never brought back by a run that outlives it
\* (invoices.ts:449-592, extract.ts:19-65).
THEOREM StoreImplementsLedger == Spec => ImplementsLedger
<1>1. Init => Ledger!Init
  <2> SUFFICES ASSUME Init PROVE Ledger!Init
    OBVIOUS
  <2>1. \A i \in Invoices : inv[i].status = "unused" /\ lines[i] = <<>>
    BY DEF Init, NoRow
  <2>2. [i \in Invoices |-> Phase(inv[i].status)] = [i \in Invoices |-> "absent"]
    BY <2>1, PhaseValues
  <2> QED
    BY <2>1, <2>2 DEF Ledger!Init
<1>2. IInv /\ [Next]_vars => [Ledger!Next]_(Ledger!ledger)
  <2> SUFFICES ASSUME IInv, [Next]_vars PROVE Ledgered
    BY DEF Ledgered, Ledger!Next
  <2>1. CASE UNCHANGED vars
    BY <2>1, Unseen DEF vars, SamePhase, SameHolding, Ledgered
  <2> QED
    BY <2>1, UploadLedgered, ReviewLedgered, SetupLedgered, RunLedgered DEF Next
<1> QED
  BY <1>1, <1>2, BackendIInv, PTL DEF Spec, ImplementsLedger, Ledger!Spec

-----------------------------------------------------------------------------
(* What a step may do to the line items and the rollup of an invoice.      *)

\* Everything an extraction may have read.
Read == Readings \cup {DemoReading[n] : n \in DemoNumbers}

\* What one of them stored, with the decisions and corrections made since.
FromOne(rows) ==
    \E reading \in Read :
        /\ Len(reading) = Len(rows)
        /\ \A k \in DOMAIN rows :
             /\ rows[k].read.sku = reading[k].sku
             /\ rows[k].read.desc = reading[k].desc
             /\ rows[k].decision = "pending" => rows[k].read = reading[k]

\* The verdict of a row is the engine's for what the row says was read, under
\* some contract and, if it was corrected, some accepted rate.
EnginesRow(row) ==
    \E pos \in Seq(PriceLists), list \in PriceLists, accepted \in Int :
        row.verdict = ReconcileLine(row.read, pos, list, accepted)

LeftAlone(i) == lines'[i] = lines[i] /\ totals'[i] = totals[i]
Cleared(i) == lines'[i] = <<>> /\ totals'[i] = NoTotals /\ inv'[i].status = "deleted"
Filled(i) ==
    /\ lines[i] = <<>> \/ RunWrites(i)
    /\ totals'[i] = TotalsOf(lines'[i])
    /\ \E o \in Orgs, reading \in Read, pos \in Seq(PriceLists), list \in PriceLists :
         lines'[i] = Reconciled(o, reading, pos, list)
Reviewed(i) ==
    /\ totals'[i] = totals[i]
    /\ \E k \in DOMAIN lines[i], row \in LineRows :
         /\ lines'[i] = [lines[i] EXCEPT ![k] = row]
         /\ row.read.sku = lines[i][k].read.sku
         /\ row.read.desc = lines[i][k].read.desc
         /\ \/ row.decision = "edited" /\ EnginesRow(row)
            \/ /\ row.decision \in {"approved", "rejected"}
               /\ row.read = lines[i][k].read /\ row.verdict = lines[i][k].verdict

LineChange(i) == LeftAlone(i) \/ Cleared(i) \/ Filled(i) \/ Reviewed(i)

LEMMA StillLines ==
    ASSUME UNCHANGED <<lines, totals>>
    PROVE  \A i \in Invoices : LineChange(i)
BY DEF LineChange, LeftAlone

\* An extraction that is stored on an empty invoice, or by a run.
LEMMA StoreFills ==
    ASSUME IInv, NEW o \in Orgs, NEW i \in Invoices, NEW reading \in Readings,
           Owned(o, i), StoreExtraction(o, i, reading),
           lines[i] = <<>> \/ RunWrites(i)
    PROVE  \A j \in Invoices : LineChange(j)
<1> DEFINE rows == Reconciled(o, reading, orders[o], CatalogOf(o))
<1>1. /\ lines \in [Invoices -> Seq(LineRows)] /\ orders[o] \in Seq(PriceLists)
      /\ totals = [j \in Invoices |-> totals[j]]
  BY DEF IInv, TypeOK
<1>2. lines' = [lines EXCEPT ![i] = rows] /\ totals' = [totals EXCEPT ![i] = TotalsOf(rows)]
  BY DEF StoreExtraction
<1>3. reading \in Read /\ CatalogOf(o) \in PriceLists
  BY CatalogType DEF Read
<1>4. \E p \in Orgs, r \in Read, pos \in Seq(PriceLists), list \in PriceLists :
          rows = Reconciled(p, r, pos, list)
  BY <1>1, <1>3
<1> HIDE DEF rows
<1>5. lines'[i] = rows /\ totals'[i] = TotalsOf(rows)
  BY <1>1, <1>2
<1>6. Filled(i)
  BY <1>4, <1>5 DEF Filled
<1>7. \A j \in Invoices \ {i} : LeftAlone(j)
  BY <1>1, <1>2 DEF LeftAlone
<1> QED
  BY <1>6, <1>7 DEF LineChange

LEMMA UploadLines ==
    ASSUME IInv, NEW o \in Orgs, Upload(o)
    PROVE  \A i \in Invoices : LineChange(i)
<1>1. CASE UNCHANGED <<lines, totals>>
  BY <1>1, StillLines
<1>2. CASE \E i \in Invoices, reading \in Readings : SubmitExtraction(o, i, reading)
  <2>1. PICK i \in Invoices, reading \in Readings : SubmitExtraction(o, i, reading)
    BY <1>2
  <2>2. Owned(o, i) /\ StoreExtraction(o, i, reading) /\ lines[i] = <<>>
    BY <2>1 DEF SubmitExtraction, IInv, ExtractingHasNoLines
  <2> QED
    BY <2>2, StoreFills
<1> QED
  BY <1>1, <1>2 DEF Upload, CreateInvoiceFromText, CreateAs, ScheduleExtract

LEMMA ReviewLines ==
    ASSUME IInv, NEW o \in Orgs, Review(o)
    PROVE  \A i \in Invoices : LineChange(i)
<1>1. lines \in [Invoices -> Seq(LineRows)]
  BY DEF IInv, TypeOK
<1>2. ASSUME NEW i \in Invoices, NEW k \in DOMAIN lines[i], NEW row \in LineRows,
             lines' = [lines EXCEPT ![i] = [lines[i] EXCEPT ![k] = row]], totals' = totals,
             row.read.sku = lines[i][k].read.sku, row.read.desc = lines[i][k].read.desc,
             \/ row.decision = "edited" /\ EnginesRow(row)
             \/ /\ row.decision \in {"approved", "rejected"}
                /\ row.read = lines[i][k].read /\ row.verdict = lines[i][k].verdict
      PROVE  \A j \in Invoices : LineChange(j)
  <2>1. lines'[i] = [lines[i] EXCEPT ![k] = row]
    BY <1>1, <1>2
  <2>2. Reviewed(i)
    BY <1>2, <2>1 DEF Reviewed
  <2>3. \A j \in Invoices \ {i} : LeftAlone(j)
    BY <1>1, <1>2 DEF LeftAlone
  <2> QED
    BY <2>2, <2>3 DEF LineChange
<1>3. CASE \E i \in Invoices : \E k \in DOMAIN lines[i] :
             \E d \in {"approved", "rejected"} : ReviewLine(o, i, k, d)
  <2>0. PICK i \in Invoices : \E k \in DOMAIN lines[i] :
             \E d \in {"approved", "rejected"} : ReviewLine(o, i, k, d)
    BY <1>3
  <2>1. PICK k \in DOMAIN lines[i], d \in {"approved", "rejected"} : ReviewLine(o, i, k, d)
    BY <2>0
  <2>2. lines[i][k] \in LineRows
    BY <1>1
  <2> DEFINE row == [lines[i][k] EXCEPT !.decision = d]
  <2>3. /\ row \in LineRows /\ row.decision = d
        /\ row.read = lines[i][k].read /\ row.verdict = lines[i][k].verdict
    BY <2>2 DEF LineRows, Decisions
  <2>4. lines' = [lines EXCEPT ![i] = [lines[i] EXCEPT ![k] = row]] /\ totals' = totals
    BY <1>1, <2>1 DEF ReviewLine
  <2> HIDE DEF row
  <2> QED
    BY <2>3, <2>4, <1>2
<1>4. CASE \E i \in Invoices : \E k \in DOMAIN lines[i] :
             \E p \in Corrections, q \in Enterable(i, k) : CorrectLine(o, i, k, p, q)
  <2>0. PICK i \in Invoices : \E k \in DOMAIN lines[i] :
             \E p \in Corrections, q \in Enterable(i, k) : CorrectLine(o, i, k, p, q)
    BY <1>4
  <2>10. PICK k \in DOMAIN lines[i] :
             \E p \in Corrections, q \in Enterable(i, k) : CorrectLine(o, i, k, p, q)
    BY <2>0
  <2>1. PICK p \in Corrections, q \in Enterable(i, k) : CorrectLine(o, i, k, p, q)
    BY <2>10
  <2>2. lines[i][k] \in LineRows
    BY <1>1
  <2> DEFINE old == lines[i][k].read
             read == [old EXCEPT !.price = p, !.qty = q, !.ext = q * p]
             row == [org |-> o, read |-> read,
                     verdict |-> ReconcileLine(read, orders[o], CatalogOf(o), p),
                     decision |-> "edited"]
  <2>3. lines' = [lines EXCEPT ![i] = [lines[i] EXCEPT ![k] = row]] /\ totals' = totals
    BY <1>1, <2>1 DEF CorrectLine
  <2>4. row.read.sku = old.sku /\ row.read.desc = old.desc /\ row.decision = "edited"
    BY <2>2 DEF LineRows, ReadLines
  <2>5. IInv'
    BY <2>1, CorrectLineIInv
  <2>6. lines'[i][k] = row
    BY <1>1, <2>3
  <2>7. lines'[i] \in Seq(LineRows) /\ k \in DOMAIN lines'[i]
    BY <1>1, <2>3, <2>5 DEF IInv, TypeOK
  <2>8. row \in LineRows
    BY <2>6, <2>7
  <2>9. EnginesRow(row)
    <3>1. orders[o] \in Seq(PriceLists) /\ p \in Int
      BY DEF IInv, TypeOK, Prices
    <3>2. CatalogOf(o) \in PriceLists
      BY CatalogType
    <3>3. row.verdict = ReconcileLine(row.read, orders[o], CatalogOf(o), p)
      OBVIOUS
    <3> HIDE DEF row
    <3> QED
      BY <3>1, <3>2, <3>3 DEF EnginesRow
  <2> HIDE DEF row
  <2> QED
    BY <2>3, <2>4, <2>8, <2>9, <1>2
<1>5. CASE \E i \in Invoices : \E s \in {"approved", "rejected", "needs_review"} :
             SetInvoiceStatus(o, i, s)
  BY <1>5, StillLines DEF SetInvoiceStatus
<1> QED
  BY <1>3, <1>4, <1>5 DEF Review

LEMMA SetupLines ==
    ASSUME IInv, NEW o \in Orgs, Setup(o)
    PROVE  \A i \in Invoices : LineChange(i)
<1>1. CASE UNCHANGED <<lines, totals>>
  BY <1>1, StillLines
<1>2. CASE SeedIfEmpty(o) /\ InvoicesOf(o) = {}
  <2> DEFINE pos == Append(orders[o], DemoList)
             rows(n) == Reconciled(o, DemoReading[n], pos, Catalog)
  <2>1. PICK id \in [DemoNumbers -> Unused] :
          LET numberOf(i) == CHOOSE n \in DemoNumbers : id[n] = i
              seeded == {id[n] : n \in DemoNumbers}
          IN  /\ lines' = [i \in Invoices |->
                   IF i \in seeded THEN rows(numberOf(i)) ELSE lines[i]]
              /\ totals' = [i \in Invoices |->
                   IF i \in seeded THEN TotalsOf(rows(numberOf(i))) ELSE totals[i]]
    BY <1>2, Zenon DEF SeedIfEmpty
  <2> DEFINE numberOf(i) == CHOOSE n \in DemoNumbers : id[n] = i
             seeded == {id[n] : n \in DemoNumbers}
  <2>2. pos \in Seq(PriceLists)
    BY DEF IInv, TypeOK
  <2> HIDE DEF pos
  <2>3. \A n \in DemoNumbers : \E p \in Orgs, r \in Read, l \in Seq(PriceLists), c \in PriceLists :
            rows(n) = Reconciled(p, r, l, c)
    BY <2>2 DEF Read
  <2> HIDE DEF rows
  <2>4. \A i \in seeded : numberOf(i) \in DemoNumbers /\ i \in Invoices /\ inv[i].status = "unused"
    BY DEF Unused
  <2> HIDE DEF numberOf, seeded
  <2>5. \A i \in seeded : /\ lines'[i] = rows(numberOf(i))
                          /\ totals'[i] = TotalsOf(rows(numberOf(i)))
    BY <2>1, <2>4 DEF numberOf, seeded
  <2>6. \A i \in Invoices \ seeded : LeftAlone(i)
    BY <2>1 DEF seeded, LeftAlone
  <2>7. \A i \in seeded : lines[i] = <<>>
    BY <2>4 DEF IInv, NoOrphanLines, Exists, Stored
  <2>8. \A i \in seeded : Filled(i)
    BY <2>3, <2>4, <2>5, <2>7 DEF Filled
  <2> QED
    BY <2>6, <2>8 DEF LineChange
<1>3. CASE ResetDemo(o)
  BY <1>3 DEF ResetDemo, NoRow, LineChange, LeftAlone, Cleared
<1>4. \/ UNCHANGED <<lines, totals>>
      \/ SeedIfEmpty(o) /\ InvoicesOf(o) = {}
      \/ ResetDemo(o)
  BY DEF Setup, SeedIfEmpty, SeedDemoBaseline, SetBaselineFromText
<1> QED
  BY <1>1, <1>2, <1>3, <1>4

LEMMA RunLines ==
    ASSUME IInv, NEW r \in RunSlots, RunStep(r) \/ RunFault(r) \/ RunLost(r)
    PROVE  \A i \in Invoices : LineChange(i)
<1>1. CASE UNCHANGED <<lines, totals>>
  BY <1>1, StillLines
<1>2. CASE RunWrite(r) /\ Exists(runs[r].inv)
  <2>1. runs \in [RunSlots -> RunStates] /\ runs[r].pc = "write"
    BY <1>2 DEF RunWrite, IInv, TypeOK
  <2>2. /\ runs[r].inv \in Invoices /\ runs[r].org \in Orgs /\ runs[r].out \in Readings
        /\ Owned(runs[r].org, runs[r].inv)
    BY <1>2, <2>1 DEF IInv, RunsKnowTheirTenant, RunStates, Owned
  <2>3. StoreExtraction(runs[r].org, runs[r].inv, runs[r].out)
    BY <1>2 DEF RunWrite
  <2>4. runs'[r].pc = "log"
    BY <1>2, <2>1 DEF RunWrite, RunStates
  <2>5. RunWrites(runs[r].inv)
    BY <2>1, <2>4 DEF RunWrites
  <2> QED
    BY <2>2, <2>3, <2>5, StoreFills
<1>3. \/ UNCHANGED <<lines, totals>>
      \/ RunWrite(r) /\ Exists(runs[r].inv)
  BY DEF RunStep, RunFault, RunLost, RunRead, RunExtract, RunWrite, RunLog, RunMark
<1> QED
  BY <1>1, <1>2, <1>3

\* Each step leaves an invoice's lines alone, erases them with the invoice,
\* fills an empty invoice or overwrites it from a run, or has one row reviewed.
LEMMA NextLines ==
    ASSUME IInv, [Next]_vars
    PROVE  \A i \in Invoices : LineChange(i)
<1>1. CASE UNCHANGED vars
  BY <1>1, StillLines DEF vars
<1> QED
  BY <1>1, UploadLines, ReviewLines, SetupLines, RunLines DEF Next

-----------------------------------------------------------------------------
(* The lines of an invoice are those of one extraction.                    *)

LEMMA ReadType == \A reading \in Read : reading \in Seq(ReadLines)
BY DEF Read

\* What insertReconciledLines inserts is what it was given, one row for each
\* line.
LEMMA ReconciledFromOne ==
    ASSUME NEW o \in Orgs, NEW reading \in Read, NEW pos \in Seq(PriceLists),
           NEW list \in PriceLists
    PROVE  FromOne(Reconciled(o, reading, pos, list))
<1> DEFINE rows == Reconciled(o, reading, pos, list)
<1>1. reading \in Seq(ReadLines)
  BY ReadType
<1>2. rows \in Seq(LineRows)
  BY <1>1, ReconciledType
<1>3. DOMAIN rows = DOMAIN reading /\ \A k \in DOMAIN rows : rows[k].read = reading[k]
  BY DEF Reconciled
<1> HIDE DEF rows
<1>4. Len(reading) = Len(rows)
  BY <1>1, <1>2, <1>3
<1>5. FromOne(rows)
  BY <1>3, <1>4 DEF FromOne
<1> QED
  BY <1>5 DEF rows

LEMMA ReviewedFromOne ==
    ASSUME NEW rows \in Seq(LineRows), FromOne(rows), NEW k \in DOMAIN rows, NEW row \in LineRows,
           row.read.sku = rows[k].read.sku, row.read.desc = rows[k].read.desc,
           row.decision # "pending"
    PROVE  FromOne([rows EXCEPT ![k] = row])
<1> DEFINE new == [rows EXCEPT ![k] = row]
<1>1. PICK reading \in Read :
        /\ Len(reading) = Len(rows)
        /\ \A j \in DOMAIN rows :
             /\ rows[j].read.sku = reading[j].sku
             /\ rows[j].read.desc = reading[j].desc
             /\ rows[j].decision = "pending" => rows[j].read = reading[j]
  BY DEF FromOne
<1>2. /\ Len(new) = Len(rows) /\ DOMAIN new = DOMAIN rows
      /\ \A j \in DOMAIN rows : new[j] = IF j = k THEN row ELSE rows[j]
  OBVIOUS
<1> HIDE DEF new
<1>3. \A j \in DOMAIN new :
        /\ new[j].read.sku = reading[j].sku
        /\ new[j].read.desc = reading[j].desc
        /\ new[j].decision = "pending" => new[j].read = reading[j]
  <2> TAKE j \in DOMAIN new
  <2>1. j \in DOMAIN rows
    BY <1>2
  <2>2. CASE j = k
    BY <1>1, <1>2, <2>1, <2>2
  <2>3. CASE j # k
    BY <1>1, <1>2, <2>1, <2>3
  <2> QED
    BY <2>2, <2>3
<1>4. FromOne(new)
  BY <1>1, <1>2, <1>3 DEF FromOne
<1> QED
  BY <1>4 DEF new

LEMMA OneExtractionStep ==
    ASSUME IInv, LinesAreOneExtraction, [Next]_vars
    PROVE  LinesAreOneExtraction'
<1> SUFFICES ASSUME NEW i \in Invoices, lines'[i] # <<>>
             PROVE  FromOne(lines'[i])
  BY DEF LinesAreOneExtraction, FromOne, Read
<1>1. lines[i] \in Seq(LineRows) /\ (lines[i] # <<>> => FromOne(lines[i]))
  BY DEF IInv, TypeOK, LinesAreOneExtraction, FromOne, Read
<1>2. LineChange(i)
  BY NextLines
<1>3. CASE LeftAlone(i)
  BY <1>1, <1>3 DEF LeftAlone
<1>4. CASE Filled(i)
  <2>1. PICK o \in Orgs, reading \in Read, pos \in Seq(PriceLists), list \in PriceLists :
            lines'[i] = Reconciled(o, reading, pos, list)
    BY <1>4 DEF Filled
  <2> QED
    BY <2>1, ReconciledFromOne
<1>5. CASE Reviewed(i)
  <2>1. PICK k \in DOMAIN lines[i], row \in LineRows :
         /\ lines'[i] = [lines[i] EXCEPT ![k] = row]
         /\ row.read.sku = lines[i][k].read.sku
         /\ row.read.desc = lines[i][k].read.desc
         /\ row.decision # "pending"
    BY <1>5 DEF Reviewed
  <2>2. lines[i] # <<>>
    BY <2>1
  <2>3. FromOne([lines[i] EXCEPT ![k] = row])
    BY <1>1, <2>1, <2>2, ReviewedFromOne
  <2> QED
    BY <2>1, <2>3
<1> QED
  BY <1>2, <1>3, <1>4, <1>5 DEF LineChange, Cleared

\* `A re-run can't double-insert' (extract.ts:16-18), for any runs, submissions,
\* seeds, resets and corrections: the lines are those of a single extraction.
THEOREM NothingIsInsertedTwice == Spec => []LinesAreOneExtraction
<1>1. Init => LinesAreOneExtraction
  BY DEF Init, LinesAreOneExtraction
<1>2. IInv /\ LinesAreOneExtraction /\ [Next]_vars => LinesAreOneExtraction'
  BY OneExtractionStep
<1> QED
  BY <1>1, <1>2, BackendIInv, PTL DEF Spec

-----------------------------------------------------------------------------
(* The rollup and the review.                                              *)

\* A decision on a row does not change what the rows add up to: the sums are
\* over the same amounts.
LEMMA DecisionsKeepTotals ==
    ASSUME NEW rows \in Seq(LineRows), NEW k \in DOMAIN rows, NEW row \in LineRows,
           row.read = rows[k].read, row.verdict = rows[k].verdict
    PROVE  TotalsOf([rows EXCEPT ![k] = row]) = TotalsOf(rows)
<1> DEFINE new == [rows EXCEPT ![k] = row]
<1>1. DOMAIN new = DOMAIN rows
  OBVIOUS
<1>2. \A j \in DOMAIN rows : new[j].read = rows[j].read /\ new[j].verdict = rows[j].verdict
  OBVIOUS
<1> HIDE DEF new
<1>3. [j \in DOMAIN new |-> new[j].verdict.recoverable]
        = [j \in DOMAIN rows |-> rows[j].verdict.recoverable]
  BY <1>1, <1>2
<1>4. [j \in DOMAIN new |-> new[j].read.ext] = [j \in DOMAIN rows |-> rows[j].read.ext]
  BY <1>1, <1>2
<1>5. TotalsOf(new) = TotalsOf(rows)
  BY <1>3, <1>4 DEF TotalsOf
<1> QED
  BY <1>5 DEF new

LEMMA UnbalanceStep ==
    ASSUME IInv, [Next]_vars, NEW i \in Invoices,
           totals[i] = TotalsOf(lines[i]), totals'[i] # TotalsOf(lines'[i])
    PROVE  \E k \in DOMAIN lines[i] :
               lines'[i][k].decision = "edited" /\ lines'[i][k] # lines[i][k]
<1>1. lines[i] \in Seq(LineRows)
  BY DEF IInv, TypeOK
<1>2. LineChange(i)
  BY NextLines
<1>3. ~ LeftAlone(i)
  BY DEF LeftAlone
<1>4. ~ Cleared(i)
  BY DEF Cleared, NoTotals
<1>5. ~ Filled(i)
  BY DEF Filled
<1>6. PICK k \in DOMAIN lines[i], row \in LineRows :
         /\ totals'[i] = totals[i]
         /\ lines'[i] = [lines[i] EXCEPT ![k] = row]
         /\ \/ row.decision = "edited"
            \/ row.read = lines[i][k].read /\ row.verdict = lines[i][k].verdict
  BY <1>2, <1>3, <1>4, <1>5 DEF LineChange, Reviewed
<1>7. ~ (row.read = lines[i][k].read /\ row.verdict = lines[i][k].verdict)
  <2> SUFFICES ASSUME row.read = lines[i][k].read, row.verdict = lines[i][k].verdict
               PROVE  FALSE
    OBVIOUS
  <2>1. TotalsOf([lines[i] EXCEPT ![k] = row]) = TotalsOf(lines[i])
    BY <1>1, DecisionsKeepTotals
  <2>2. TotalsOf(lines'[i]) = TotalsOf(lines[i])
    BY <1>6, <2>1
  <2> QED
    BY <1>6, <2>2
<1>8. lines'[i][k] = row
  BY <1>1, <1>6
<1> QED
  BY <1>6, <1>7, <1>8

\* The rollup schema.ts keeps on an invoice and its lines part only when a line
\* is corrected (invoices.ts:491-536), for any number of actors.
THEOREM RollupsPartByCorrection == Spec => OnlyCorrectionsUnbalance
<1>1. IInv /\ [Next]_vars =>
        [\A i \in Invoices : Balanced(i) /\ ~Balanced(i)' =>
           \E k \in DOMAIN lines[i] :
               lines'[i][k].decision = "edited" /\ lines'[i][k] # lines[i][k]]_vars
  BY UnbalanceStep DEF Balanced
<1> QED
  BY <1>1, BackendIInv, PTL DEF Spec, OnlyCorrectionsUnbalance

LEMMA DecisionStep ==
    ASSUME IInv, [Next]_vars, NEW i \in Invoices, NEW k \in DOMAIN lines[i], DecisionLost(i, k)
    PROVE  inv'[i].status = "deleted" \/ RunWrites(i)
<1>1. lines[i] \in Seq(LineRows) /\ lines[i] # <<>>
  BY DEF IInv, TypeOK
<1>2. LineChange(i)
  BY NextLines
<1>3. ~ LeftAlone(i)
  BY DEF LeftAlone, DecisionLost
<1>4. ~ Reviewed(i)
  <2> SUFFICES ASSUME Reviewed(i) PROVE FALSE
    OBVIOUS
  <2>1. PICK j \in DOMAIN lines[i], row \in LineRows :
            /\ lines'[i] = [lines[i] EXCEPT ![j] = row]
            /\ row.decision # "pending"
    BY DEF Reviewed
  <2>2. k \in DOMAIN lines'[i] /\ lines'[i][k] = IF k = j THEN row ELSE lines[i][k]
    BY <1>1, <2>1
  <2> QED
    BY <2>1, <2>2 DEF DecisionLost
<1> QED
  BY <1>1, <1>2, <1>3, <1>4 DEF LineChange, Cleared, Filled

\* submitExtraction never costs a reviewer a decision (invoices.ts:372-377):
\* only a reset or a server run does, whoever calls and in whatever order.
THEOREM SubmissionsNeverEraseReview == Spec => SubmissionsKeepReview
<1>1. IInv /\ [Next]_vars =>
        [\A i \in Invoices : \A k \in DOMAIN lines[i] :
           DecisionLost(i, k) => inv'[i].status = "deleted" \/ RunWrites(i)]_vars
  BY DecisionStep
<1> QED
  BY <1>1, BackendIInv, PTL DEF Spec, SubmissionsKeepReview

-----------------------------------------------------------------------------
(* The engine's guarantees hold of every stored line, although the contract *)
(* it was reconciled against may have been replaced since.                  *)

StoredVerdicts == \A i \in Invoices : \A k \in DOMAIN lines[i] : EnginesRow(lines[i][k])

LEMMA ReconciledRows ==
    ASSUME NEW o \in Orgs, NEW reading \in Read, NEW pos \in Seq(PriceLists),
           NEW list \in PriceLists, NEW k \in DOMAIN Reconciled(o, reading, pos, list)
    PROVE  EnginesRow(Reconciled(o, reading, pos, list)[k])
<1>1. PICK row : row = Reconciled(o, reading, pos, list)[k]
  OBVIOUS
<1>2. row.verdict = ReconcileLine(row.read, pos, list, NoPrice)
  BY <1>1 DEF Reconciled
<1>3. NoPrice \in Int
  BY DEF NoPrice
<1> QED
  BY <1>1, <1>2, <1>3 DEF EnginesRow

LEMMA StoredVerdictsStep ==
    ASSUME IInv, StoredVerdicts, [Next]_vars
    PROVE  StoredVerdicts'
<1> SUFFICES ASSUME NEW i \in Invoices, NEW k \in DOMAIN lines'[i]
             PROVE  EnginesRow(lines'[i][k])
  BY DEF StoredVerdicts, EnginesRow
<1>1. /\ lines[i] \in Seq(LineRows)
      /\ \A j \in DOMAIN lines[i] : EnginesRow(lines[i][j])
  BY DEF IInv, TypeOK, StoredVerdicts
<1>2. LineChange(i)
  BY NextLines
<1>3. CASE LeftAlone(i)
  BY <1>1, <1>3 DEF LeftAlone
<1>4. CASE Filled(i)
  <2>1. PICK o \in Orgs, reading \in Read, pos \in Seq(PriceLists), list \in PriceLists :
            lines'[i] = Reconciled(o, reading, pos, list)
    BY <1>4 DEF Filled
  <2> QED
    BY <2>1, ReconciledRows
<1>5. CASE Reviewed(i)
  <2>1. PICK j \in DOMAIN lines[i], row \in LineRows :
         /\ lines'[i] = [lines[i] EXCEPT ![j] = row]
         /\ \/ EnginesRow(row)
            \/ row.read = lines[i][j].read /\ row.verdict = lines[i][j].verdict
    BY <1>5 DEF Reviewed
  <2>2. EnginesRow(row)
    BY <1>1, <2>1 DEF EnginesRow
  <2>3. k \in DOMAIN lines[i] /\ lines'[i][k] = IF k = j THEN row ELSE lines[i][k]
    BY <1>1, <2>1
  <2> QED
    BY <1>1, <2>2, <2>3
<1> QED
  BY <1>2, <1>3, <1>4, <1>5 DEF LineChange, Cleared

\* What the engine promises of a row: green is within 3% of each baseline that
\* is not zero, red on right arithmetic has an amount to claim back.
SoundRow(row) ==
    LET verdict == row.verdict
        baselines == {verdict.po, verdict.catalog} \ {NoPrice}
    IN  /\ verdict.flag = "green" /\ 0 \notin baselines =>
             \A base \in baselines : verdict.recoverable * 100 <= 3 * base * row.read.qty
        /\ verdict.flag = "red" /\ verdict.mathOk /\ row.read.qty > 0 => verdict.recoverable > 0

EngineHolds == \A i \in Invoices : \A k \in DOMAIN lines[i] : SoundRow(lines[i][k])

LEMMA EnginesRowIsSound ==
    ASSUME NEW row \in LineRows, EnginesRow(row)
    PROVE  SoundRow(row)
<1>1. PICK pos \in Seq(PriceLists), list \in PriceLists, accepted \in Int :
        row.verdict = ReconcileLine(row.read, pos, list, accepted)
  BY DEF EnginesRow
<1>2. row.read \in ReadLines
  BY DEF LineRows
<1>3. ASSUME row.verdict.flag = "green",
             0 \notin {row.verdict.po, row.verdict.catalog} \ {NoPrice},
             NEW base \in {row.verdict.po, row.verdict.catalog} \ {NoPrice}
      PROVE  row.verdict.recoverable * 100 <= 3 * base * row.read.qty
  BY <1>1, <1>2, <1>3, GreenVerdict
<1>4. ASSUME row.verdict.flag = "red", row.verdict.mathOk, row.read.qty > 0
      PROVE  row.verdict.recoverable > 0
  BY <1>1, <1>2, <1>4, RedVerdict
<1> QED
  BY <1>3, <1>4 DEF SoundRow

\* GreenIsCheap and RedHasCause of LineReview, for every line in the database,
\* after any uploads, corrections, new contracts and late runs
\* (reconcile.ts:143-177, invoices.ts:491-536).
THEOREM StoredLinesAreSound == Spec => []EngineHolds
<1>1. Init => StoredVerdicts
  BY DEF Init, StoredVerdicts
<1>2. IInv /\ StoredVerdicts /\ [Next]_vars => StoredVerdicts'
  BY StoredVerdictsStep
<1>3. IInv /\ StoredVerdicts => EngineHolds
  <2> SUFFICES ASSUME IInv, StoredVerdicts, NEW i \in Invoices, NEW k \in DOMAIN lines[i]
               PROVE  SoundRow(lines[i][k])
    BY DEF EngineHolds
  <2>1. lines[i][k] \in LineRows
    BY DEF IInv, TypeOK
  <2>2. EnginesRow(lines[i][k])
    BY DEF StoredVerdicts
  <2> QED
    BY <2>1, <2>2, EnginesRowIsSound
<1> QED
  BY <1>1, <1>2, <1>3, BackendIInv, PTL DEF Spec

-----------------------------------------------------------------------------
(* The dashboard is one of the callers the backend is made for.             *)

TabRows == [pc : {"closed", "open", "seeding", "creating", "local", "fallback"},
            seeded : BOOLEAN, todo : Seq(Numbers), inv : Invoices \cup {NoInvoice}]

\* A tab that is about to create an invoice has one to create, and one that
\* extracts knows the invoice it created.
TabsTyped ==
    /\ tabs \in [Tabs -> TabRows]
    /\ \A t \in Tabs : /\ tabs[t].pc = "creating" => tabs[t].todo # <<>>
                       /\ tabs[t].pc \in {"local", "fallback"} => tabs[t].inv \in Invoices

GoodTab(tab) ==
    /\ tab \in TabRows
    /\ tab.pc = "creating" => tab.todo # <<>>
    /\ tab.pc \in {"local", "fallback"} => tab.inv \in Invoices

\* The elements of a finite set in some order.
LEMMA SetToSeqType ==
    ASSUME NEW S, IsFiniteSet(S)
    PROVE  SetToSeq(S) \in Seq(S)
<1>1. Cardinality(S) \in Nat /\ ExistsBijection(1..Cardinality(S), S)
  BY FS_CardinalityType
<1>2. PICK f \in [1..Cardinality(S) -> S] : IsInjective(f)
  BY <1>1 DEF ExistsBijection, Bijection, Injection
<1>3. SetToSeq(S) \in [1..Cardinality(S) -> S]
  BY <1>2 DEF SetToSeq
<1> QED
  BY <1>1, <1>3

LEMMA IdleTab ==
    ASSUME NEW tab \in TabRows
    PROVE  /\ GoodTab([tab EXCEPT !.pc = "open", !.todo = <<>>, !.inv = NoInvoice])
           /\ [tab EXCEPT !.pc = "open", !.todo = <<>>, !.inv = NoInvoice].pc = "open"
<1>1. PICK none \in Seq(Numbers) : none = <<>>
  OBVIOUS
<1> QED
  BY <1>1 DEF GoodTab, TabRows

LEMMA ContinueGood ==
    ASSUME NEW tab \in TabRows
    PROVE  GoodTab(Continue(tab)) /\ Continue(tab).pc \in {"open", "creating"}
<1>1. CASE Len(tab.todo) <= 1
  BY <1>1, IdleTab DEF Continue
<1>2. CASE ~ (Len(tab.todo) <= 1)
  <2>1. tab.todo \in Seq(Numbers) /\ Len(tab.todo) > 1
    BY <1>2 DEF TabRows
  <2>2. Tail(tab.todo) \in Seq(Numbers) /\ Tail(tab.todo) # <<>>
    <3>1. \A s \in Seq(Numbers) : Len(s) > 1 => Tail(s) \in Seq(Numbers) /\ Len(Tail(s)) > 0
      OBVIOUS
    <3>2. \A s \in Seq(Numbers) : Len(s) > 0 => s # <<>>
      OBVIOUS
    <3> QED
      BY <2>1, <3>1, <3>2
  <2>3. Continue(tab) = [tab EXCEPT !.pc = "creating", !.todo = Tail(tab.todo), !.inv = NoInvoice]
    BY <1>2 DEF Continue
  <2> QED
    BY <2>2, <2>3 DEF GoodTab, TabRows
<1> QED
  BY <1>1, <1>2

\* A call that throws leaves the store alone and the tab with nothing in hand.
LEMMA GivesUpFacts ==
    ASSUME TabsTyped, NEW t \in Tabs, GivesUp(t)
    PROVE  /\ UNCHANGED vars
           /\ \E tab : Set(t, tab) /\ GoodTab(tab) /\ tab.pc \in {"open", "creating"}
<1>1. tabs[t] \in TabRows
  BY DEF TabsTyped
<1>2. UNCHANGED vars /\ (Set(t, Stop(tabs[t])) \/ Set(t, Continue(tabs[t])))
  BY DEF GivesUp, LoadDemoFails, CreateFails, FallBackRefused, FallBackFails, CallFails
<1>3. GoodTab(Stop(tabs[t])) /\ Stop(tabs[t]).pc = "open"
  BY <1>1, IdleTab DEF Stop
<1> QED
  BY <1>1, <1>2, <1>3, ContinueGood

LEMMA SetTyped ==
    ASSUME TabsTyped, NEW t \in Tabs, NEW tab, GoodTab(tab), Set(t, tab)
    PROVE  TabsTyped'
BY DEF TabsTyped, GoodTab, Set

LEMMA ClosedGood == GoodTab(ClosedTab) /\ GoodTab([ClosedTab EXCEPT !.pc = "open"])
<1>1. PICK none \in Seq(Numbers) : none = <<>>
  OBVIOUS
<1> QED
  BY <1>1 DEF GoodTab, ClosedTab, TabRows

LEMMA UserStepTyped ==
    ASSUME TabsTyped, UserStep
    PROVE  TabsTyped'
<1>1. CASE UNCHANGED tabs
  BY <1>1 DEF TabsTyped
<1>2. CASE \E t \in Tabs : OpenTab(t) \/ CloseTab(t) \/ LoadEverything(t)
  <2>1. PICK t \in Tabs : OpenTab(t) \/ CloseTab(t) \/ LoadEverything(t)
    BY <1>2
  <2>2. CASE OpenTab(t) \/ CloseTab(t)
    BY <2>2, ClosedGood, SetTyped DEF OpenTab, CloseTab
  <2>3. CASE LoadEverything(t)
    <3>1. GoodTab([tabs[t] EXCEPT !.pc = "seeding"])
      BY DEF TabsTyped, GoodTab, TabRows
    <3> QED
      BY <2>3, <3>1, SetTyped DEF LoadEverything
  <2> QED
    BY <2>1, <2>2, <2>3
<1>3. CASE \E t \in Tabs, n \in Numbers \ DemoNumbers : UploadInvoice(t, n)
  <2>1. PICK t \in Tabs, n \in Numbers \ DemoNumbers : UploadInvoice(t, n)
    BY <1>3
  <2>2. <<n>> \in Seq(Numbers) /\ <<n>> # <<>>
    OBVIOUS
  <2>3. GoodTab([tabs[t] EXCEPT !.pc = "creating", !.todo = <<n>>])
    BY <2>2 DEF TabsTyped, GoodTab, TabRows
  <2> QED
    BY <2>1, <2>3, SetTyped DEF UploadInvoice
<1> QED
  BY <1>1, <1>2, <1>3 DEF UserStep

LEMMA TabStepTyped ==
    ASSUME TabsTyped, NEW t \in Tabs, TabStep(t)
    PROVE  TabsTyped'
<1>0. tabs[t] \in TabRows /\ GoodTab(tabs[t])
  BY DEF TabsTyped, GoodTab
<1>1. CASE AutoSeed(t)
  <2>1. GoodTab([tabs[t] EXCEPT !.pc = "seeding", !.seeded = TRUE])
    BY <1>0 DEF GoodTab, TabRows
  <2> QED
    BY <1>1, <2>1, SetTyped DEF AutoSeed
<1>2. CASE LoadDemo(t)
  <2>0. PICK missing \in SUBSET DemoNumbers :
            LET todo == SetToSeq(missing)
            IN  Set(t, [tabs[t] EXCEPT !.todo = todo,
                                       !.pc = IF todo = <<>> THEN "open" ELSE "creating"])
    BY <1>2 DEF LoadDemo
  <2>1. PICK todo :
            /\ todo = SetToSeq(missing)
            /\ Set(t, [tabs[t] EXCEPT !.todo = todo,
                                      !.pc = IF todo = <<>> THEN "open" ELSE "creating"])
    BY <2>0
  <2>2. todo \in Seq(missing)
    BY <2>1, DashboardAssumption, FS_Subset, SetToSeqType
  <2>3. todo \in Seq(Numbers)
    BY <2>2
  <2>4. GoodTab([tabs[t] EXCEPT !.todo = todo, !.pc = IF todo = <<>> THEN "open" ELSE "creating"])
    BY <1>0, <2>3 DEF GoodTab, TabRows
  <2> QED
    BY <2>1, <2>4, SetTyped
<1>3. CASE \E tryLocal \in BOOLEAN : CreateInvoice(t, tryLocal)
  <2>1. PICK tryLocal \in BOOLEAN, i \in Invoices :
            Set(t, IF tryLocal THEN [tabs[t] EXCEPT !.pc = "local", !.inv = i]
                   ELSE Continue(tabs[t]))
    BY <1>3 DEF CreateInvoice
  <2>2. GoodTab([tabs[t] EXCEPT !.pc = "local", !.inv = i])
    BY <1>0 DEF GoodTab, TabRows
  <2> QED
    BY <1>0, <2>1, <2>2, ContinueGood, SetTyped
<1>4. CASE \E reading \in Readings : LocalExtracted(t, reading)
  BY <1>0, <1>4, ContinueGood, SetTyped DEF LocalExtracted
<1>5. CASE LocalFailed(t) \/ SubmissionRefused(t)
  <2>1. tabs[t].pc = "local"
    BY <1>5 DEF LocalFailed, SubmissionRefused, At
  <2>2. GoodTab([tabs[t] EXCEPT !.pc = "fallback"])
    BY <1>0, <2>1 DEF GoodTab, TabRows
  <2> QED
    BY <1>5, <2>2, SetTyped DEF LocalFailed, SubmissionRefused
<1>6. CASE FallBack(t)
  BY <1>0, <1>6, ContinueGood, SetTyped DEF FallBack
<1>7. CASE GivesUp(t)
  BY <1>7, GivesUpFacts, SetTyped
<1> QED
  BY <1>1, <1>2, <1>3, <1>4, <1>5, <1>6, <1>7 DEF TabStep

LEMMA DashboardTyped == DashboardSpec => []TabsTyped
<1>1. DashboardInit => TabsTyped
  BY DEF DashboardInit, TabsTyped, ClosedTab, TabRows
<1>2. TabsTyped /\ [DashboardNext]_allVars => TabsTyped'
  <2> SUFFICES ASSUME TabsTyped, [DashboardNext]_allVars PROVE TabsTyped'
    OBVIOUS
  <2>1. CASE UNCHANGED tabs
    BY <2>1 DEF TabsTyped
  <2> QED
    BY <2>1, UserStepTyped, TabStepTyped DEF DashboardNext, allVars
<1> QED
  BY <1>1, <1>2, PTL DEF DashboardSpec

\* What the tabs do to the store are calls of its mutations.
LEMMA TabStepBackend ==
    ASSUME TabsTyped, NEW t \in Tabs, TabStep(t)
    PROVE  (\E o \in Orgs : Upload(o) \/ Setup(o)) \/ UNCHANGED vars
<1>0. TabOrg[t] \in Orgs
  BY DashboardAssumption
<1>1. CASE LoadDemo(t)
  BY <1>0, <1>1 DEF LoadDemo, Setup
<1>2. CASE \E tryLocal \in BOOLEAN : CreateInvoice(t, tryLocal)
  <2>1. PICK tryLocal \in BOOLEAN : CreateInvoice(t, tryLocal)
    BY <1>2
  <2>2. PICK i \in Invoices : CreateAs(TabOrg[t], i, Head(tabs[t].todo), tryLocal)
    BY <2>1 DEF CreateInvoice
  <2>3. tabs[t].todo \in Seq(Numbers) /\ tabs[t].todo # <<>>
    BY <2>1 DEF CreateInvoice, At, TabsTyped, TabRows
  <2>4. Head(tabs[t].todo) \in Numbers
    BY <2>3
  <2>5. CreateInvoiceFromText(TabOrg[t], Head(tabs[t].todo), tryLocal)
    BY <2>2 DEF CreateInvoiceFromText
  <2> QED
    BY <1>0, <2>4, <2>5 DEF Upload
<1>3. CASE \E reading \in Readings : LocalExtracted(t, reading)
  <2>1. PICK reading \in Readings : LocalExtracted(t, reading)
    BY <1>3
  <2>2. tabs[t].inv \in Invoices /\ SubmitExtraction(TabOrg[t], tabs[t].inv, reading)
    BY <2>1 DEF LocalExtracted, At, TabsTyped
  <2> QED
    BY <1>0, <2>2 DEF Upload
<1>4. CASE FallBack(t)
  <2>1. tabs[t].inv \in Invoices
    BY <1>4 DEF FallBack, At, TabsTyped
  <2>2. ScheduleExtract(TabOrg[t], tabs[t].inv)
    BY <1>4 DEF FallBack
  <2> QED
    BY <1>0, <2>1, <2>2 DEF Upload
<1>5. CASE AutoSeed(t) \/ LocalFailed(t) \/ SubmissionRefused(t)
  BY <1>5 DEF AutoSeed, LocalFailed, SubmissionRefused
<1>6. CASE GivesUp(t)
  BY <1>6, GivesUpFacts
<1> QED
  BY <1>1, <1>2, <1>3, <1>4, <1>5, <1>6 DEF TabStep

LEMMA DashboardStepBackend ==
    ASSUME TabsTyped, [DashboardNext]_allVars
    PROVE  [Next]_vars
<1>1. CASE UserStep
  BY <1>1 DEF UserStep, OpenTab, CloseTab, LoadEverything, UploadInvoice, Next, Setup
<1>2. CASE \E t \in Tabs : TabStep(t)
  BY <1>2, TabStepBackend DEF Next
<1> QED
  BY <1>1, <1>2 DEF DashboardNext, allVars, Next

\* The product is the backend under its own client: the dashboard adds
\* behaviours of tabs and takes nothing back of what holds for every caller
\* (page.tsx:155-316), so each theorem about the backend holds of the product.
THEOREM DashboardImplementsBackend == DashboardSpec => Spec
<1>1. DashboardInit => Init
  BY DEF DashboardInit
<1>2. TabsTyped /\ [DashboardNext]_allVars => [Next]_vars
  BY DashboardStepBackend
<1> QED
  BY <1>1, <1>2, DashboardTyped, PTL DEF DashboardSpec, Spec

-----------------------------------------------------------------------------
(* The client's protocol: an invoice is extracted by one tab or one run at  *)
(* a time, and by nobody once it has lines.                                 *)

\* What a step does to the extractors of an invoice: none is added, or a tab
\* is the only one left, or a run is.
Fewer(i) ==
    /\ \A t \in Tabs : Holds(t, i)' => Holds(t, i)
    /\ \A r \in RunSlots : Pending(r, i)' => Pending(r, i)
    /\ Busy(i)' => lines'[i] = <<>> /\ inv'[i].status # "unused"
TabTakes(i) ==
    /\ \E t \in Tabs : \A u \in Tabs : Holds(u, i)' => u = t
    /\ \A r \in RunSlots : ~ Pending(r, i)'
    /\ lines'[i] = <<>> /\ inv'[i].status # "unused"
RunTakes(i) ==
    /\ \A t \in Tabs : ~ Holds(t, i)'
    /\ \E r \in RunSlots : \A s \in RunSlots : Pending(s, i)' => s = r
    /\ lines'[i] = <<>> /\ inv'[i].status # "unused"

Passes(i) == Fewer(i) \/ TabTakes(i) \/ RunTakes(i)

LEMMA PassesKeeps ==
    ASSUME OneExtractor, \A i \in Invoices : Passes(i)
    PROVE  OneExtractor'
<1> SUFFICES ASSUME NEW i \in Invoices
             PROVE  /\ \A t, u \in Tabs : Holds(t, i)' /\ Holds(u, i)' => t = u
                    /\ \A r, s \in RunSlots : Pending(r, i)' /\ Pending(s, i)' => r = s
                    /\ \A t \in Tabs, r \in RunSlots : ~ (Holds(t, i)' /\ Pending(r, i)')
                    /\ Busy(i)' => lines'[i] = <<>> /\ inv'[i].status # "unused"
  BY Zenon DEF OneExtractor
<1>1. CASE Fewer(i)
  BY <1>1, Zenon DEF OneExtractor, Fewer
<1>2. CASE TabTakes(i)
  BY <1>2, Zenon DEF TabTakes
<1>3. CASE RunTakes(i)
  BY <1>3, Zenon DEF RunTakes
<1> QED
  BY <1>1, <1>2, <1>3 DEF Passes

\* A step that adds no extractor, and leaves the store alone.
LEMMA FewerAlone ==
    ASSUME OneExtractor, UNCHANGED <<lines, inv>>, NEW i \in Invoices,
           \A t \in Tabs : Holds(t, i)' => Holds(t, i),
           \A r \in RunSlots : Pending(r, i)' => Pending(r, i)
    PROVE  Fewer(i)
<1>1. Busy(i)' => Busy(i)
  BY DEF Busy
<1>2. Busy(i) => lines[i] = <<>> /\ inv[i].status # "unused"
  BY DEF OneExtractor
<1>3. Busy(i)' => lines'[i] = <<>> /\ inv'[i].status # "unused"
  BY <1>1, <1>2
<1> QED
  BY <1>3 DEF Fewer

\* A tab moves on without taking another invoice, the store is left alone.
LEMMA TabMoves ==
    ASSUME OneExtractor, TabsTyped, NEW t \in Tabs, NEW tab, Set(t, tab),
           UNCHANGED <<lines, inv, runs>>,
           \/ tab.pc \notin {"local", "fallback"}
           \/ tabs[t].pc \in {"local", "fallback"} /\ tab.inv = tabs[t].inv
    PROVE  \A i \in Invoices : Passes(i)
<1> TAKE i \in Invoices
<1>1. tabs' = [tabs EXCEPT ![t] = tab] /\ tabs \in [Tabs -> TabRows]
  BY DEF Set, TabsTyped
<1>2. \A u \in Tabs : Holds(u, i)' => Holds(u, i)
  BY <1>1 DEF Holds
<1>3. \A r \in RunSlots : Pending(r, i)' => Pending(r, i)
  BY DEF Pending
<1> QED
  BY <1>2, <1>3, FewerAlone DEF Passes

\* A step of the backend with the tabs where they were: runs and store.
LEMMA BackendMoves ==
    ASSUME OneExtractor, UNCHANGED tabs, NEW i \in Invoices,
           \A r \in RunSlots : Pending(r, i)' => Pending(r, i),
           Busy(i)' /\ Busy(i) => lines'[i] = <<>> /\ inv'[i].status # "unused"
    PROVE  Passes(i)
<1>1. \A t \in Tabs : Holds(t, i)' => Holds(t, i)
  BY DEF Holds
<1>2. Busy(i)' => Busy(i)
  BY <1>1 DEF Busy
<1> QED
  BY <1>1, <1>2 DEF Fewer, Passes

LEMMA UserStepPasses ==
    ASSUME IInv, OneExtractor, TabsTyped, UserStep
    PROVE  \A i \in Invoices : Passes(i)
<1>1. CASE \E t \in Tabs : OpenTab(t) \/ CloseTab(t) \/ LoadEverything(t)
  <2>1. PICK t \in Tabs : OpenTab(t) \/ CloseTab(t) \/ LoadEverything(t)
    BY <1>1
  <2>2. UNCHANGED <<lines, inv, runs>>
    BY <2>1 DEF OpenTab, CloseTab, LoadEverything, vars
  <2>3. PICK tab : Set(t, tab) /\ tab.pc \in {"closed", "open", "seeding"}
    BY <2>1 DEF OpenTab, CloseTab, LoadEverything, ClosedTab, TabsTyped, TabRows
  <2> QED
    BY <2>2, <2>3, TabMoves
<1>2. CASE \E t \in Tabs, n \in Numbers \ DemoNumbers : UploadInvoice(t, n)
  <2>1. PICK t \in Tabs, n \in Numbers \ DemoNumbers : UploadInvoice(t, n)
    BY <1>2
  <2>2. UNCHANGED <<lines, inv, runs>>
    BY <2>1 DEF UploadInvoice, vars
  <2> DEFINE tab == [tabs[t] EXCEPT !.pc = "creating", !.todo = <<n>>]
  <2>3. Set(t, tab)
    BY <2>1 DEF UploadInvoice
  <2>4. tab.pc = "creating"
    BY DEF TabsTyped, TabRows
  <2> HIDE DEF tab
  <2> QED
    BY <2>2, <2>3, <2>4, TabMoves
<1>3. ASSUME UNCHANGED tabs, UNCHANGED runs,
             \A i \in Invoices : lines[i] = <<>> /\ inv[i].status # "unused" =>
                                 lines'[i] = <<>> /\ inv'[i].status # "unused"
      PROVE  \A i \in Invoices : Passes(i)
  <2> TAKE i \in Invoices
  <2>1. \A r \in RunSlots : Pending(r, i)' => Pending(r, i)
    BY <1>3 DEF Pending
  <2>2. Busy(i) => lines'[i] = <<>> /\ inv'[i].status # "unused"
    BY <1>3 DEF OneExtractor
  <2> QED
    BY <1>3, <2>1, <2>2, BackendMoves
<1>4. ASSUME NEW o \in Orgs, ResetDemo(o), UNCHANGED tabs
      PROVE  \A i \in Invoices : Passes(i)
  <2>1. \A i \in Invoices : lines[i] = <<>> /\ inv[i].status # "unused" =>
                            lines'[i] = <<>> /\ inv'[i].status # "unused"
    BY <1>4 DEF ResetDemo, NoRow
  <2>2. UNCHANGED runs
    BY <1>4 DEF ResetDemo
  <2> QED
    BY <1>3, <1>4, <2>1, <2>2
<1>5. ASSUME NEW o \in Orgs, NEW list \in Lists, SetBaselineFromText(o, list), UNCHANGED tabs
      PROVE  \A i \in Invoices : Passes(i)
  BY <1>3, <1>5 DEF SetBaselineFromText
<1>6. ASSUME NEW o \in Orgs, Review(o), UNCHANGED tabs
      PROVE  \A i \in Invoices : Passes(i)
  <2>1. lines \in [Invoices -> Seq(LineRows)] /\ inv \in [Invoices -> InvoiceRows]
    BY DEF IInv, TypeOK
  <2>2. PICK j \in Invoices :
          \/ \E k \in DOMAIN lines[j] :
                \/ \E d \in {"approved", "rejected"} : ReviewLine(o, j, k, d)
                \/ \E p \in Corrections, q \in Enterable(j, k) : CorrectLine(o, j, k, p, q)
          \/ \E s \in {"approved", "rejected", "needs_review"} : SetInvoiceStatus(o, j, s)
    BY <1>6 DEF Review
  <2>3. CASE \E k \in DOMAIN lines[j] :
                \/ \E d \in {"approved", "rejected"} : ReviewLine(o, j, k, d)
                \/ \E p \in Corrections, q \in Enterable(j, k) : CorrectLine(o, j, k, p, q)
    <3>1. PICK k \in DOMAIN lines[j] :
            \/ \E d \in {"approved", "rejected"} : ReviewLine(o, j, k, d)
            \/ \E p \in Corrections, q \in Enterable(j, k) : CorrectLine(o, j, k, p, q)
      BY <2>3
    <3>2. PICK row : lines' = [lines EXCEPT ![j] = row]
      BY <3>1 DEF ReviewLine, CorrectLine
    <3>3. UNCHANGED <<inv, runs>>
      BY <2>3 DEF ReviewLine, CorrectLine
    <3>4. \A i \in Invoices : lines[i] = <<>> => lines'[i] = <<>>
      BY <2>1, <3>1, <3>2
    <3> QED
      BY <1>3, <1>6, <3>3, <3>4
  <2>4. CASE \E s \in {"approved", "rejected", "needs_review"} : SetInvoiceStatus(o, j, s)
    <3>1. PICK s \in {"approved", "rejected", "needs_review"} : SetInvoiceStatus(o, j, s)
      BY <2>4
    <3>2. UNCHANGED <<lines, runs>> /\ inv' = [inv EXCEPT ![j].status = s]
      BY <3>1 DEF SetInvoiceStatus
    <3>3. \A i \in Invoices : inv[i].status # "unused" => inv'[i].status # "unused"
      BY <2>1, <3>2 DEF InvoiceRows
    <3> QED
      BY <1>3, <1>6, <3>2, <3>3
  <2> QED
    BY <2>2, <2>3, <2>4
<1> QED
  BY <1>1, <1>2, <1>4, <1>5, <1>6 DEF UserStep

\* A run is scheduled for an invoice nobody else extracts any more.
LEMMA RunTaken ==
    ASSUME IInv, NEW o \in Orgs, NEW i \in Invoices, Schedule(o, i),
           \A r \in RunSlots : ~ Pending(r, i)
    PROVE  /\ \E r \in RunSlots : \A s \in RunSlots : Pending(s, i)' => s = r
           /\ \A j \in Invoices \ {i}, r \in RunSlots : Pending(r, j)' => Pending(r, j)
<1>1. runs \in [RunSlots -> RunStates]
  BY DEF IInv, TypeOK
<1>2. PICK r \in RunSlots :
        runs' = [runs EXCEPT ![r] = [pc |-> "read", inv |-> i, org |-> o, out |-> <<>>]]
  BY DEF Schedule
<1>3. \A s \in RunSlots \ {r} : runs'[s] = runs[s]
  BY <1>1, <1>2
<1>4. runs'[r].inv = i
  BY <1>1, <1>2
<1> QED
  BY <1>3, <1>4 DEF Pending

LEMMA CreatePasses ==
    ASSUME IInv, OneExtractor, TabsTyped, NEW t \in Tabs, NEW tryLocal \in BOOLEAN,
           CreateInvoice(t, tryLocal)
    PROVE  \A i \in Invoices : Passes(i)
<1>0. TabOrg[t] \in Orgs
  BY DashboardAssumption
<1>1. PICK i \in Invoices :
        /\ CreateAs(TabOrg[t], i, Head(tabs[t].todo), tryLocal)
        /\ Set(t, IF tryLocal THEN [tabs[t] EXCEPT !.pc = "local", !.inv = i]
                  ELSE Continue(tabs[t]))
  BY DEF CreateInvoice
<1>2. /\ inv[i].status = "unused" /\ UNCHANGED lines
      /\ inv' = [inv EXCEPT ![i] = NewInvoice(TabOrg[t], Head(tabs[t].todo), "extracting")]
      /\ IF tryLocal THEN UNCHANGED runs ELSE Schedule(TabOrg[t], i)
  BY <1>1 DEF CreateAs, Unused
<1>3. lines[i] = <<>> /\ ~ Busy(i)
  BY <1>2 DEF IInv, NoOrphanLines, Exists, Stored, OneExtractor
<1>4. (\A u \in Tabs : ~ Holds(u, i)) /\ (\A r \in RunSlots : ~ Pending(r, i))
  BY <1>3 DEF Busy
<1>5. lines'[i] = <<>> /\ inv'[i].status # "unused"
  BY <1>2, <1>3 DEF NewInvoice, IInv, TypeOK
<1>6. \A j \in Invoices \ {i} : lines'[j] = lines[j] /\ inv'[j] = inv[j]
  BY <1>2 DEF IInv, TypeOK
<1>7. tabs[t] \in TabRows /\ tabs \in [Tabs -> TabRows]
  BY DEF TabsTyped
<1>8. /\ \A u \in Tabs \ {t} : tabs'[u] = tabs[u]
      /\ IF tryLocal THEN tabs'[t].pc = "local" /\ tabs'[t].inv = i
         ELSE tabs'[t].pc \in {"open", "creating"}
  <2>1. PICK tab : /\ tabs' = [tabs EXCEPT ![t] = tab]
                   /\ tab = IF tryLocal THEN [tabs[t] EXCEPT !.pc = "local", !.inv = i]
                            ELSE Continue(tabs[t])
    BY <1>1 DEF Set
  <2>2. IF tryLocal THEN tab.pc = "local" /\ tab.inv = i ELSE tab.pc \in {"open", "creating"}
    BY <1>7, <2>1, ContinueGood DEF TabRows
  <2> QED
    BY <1>7, <2>1, <2>2
<1>9. \A j \in Invoices \ {i} : /\ \A u \in Tabs : Holds(u, j)' => Holds(u, j)
                                /\ \A r \in RunSlots : Pending(r, j)' => Pending(r, j)
  <2>1. \A j \in Invoices \ {i}, u \in Tabs : Holds(u, j)' => Holds(u, j)
    BY <1>8 DEF Holds
  <2>2. \A j \in Invoices \ {i}, r \in RunSlots : Pending(r, j)' => Pending(r, j)
    <3>1. CASE tryLocal
      BY <1>2, <3>1 DEF Pending
    <3>2. CASE ~ tryLocal
      BY <1>0, <1>2, <1>4, <3>2, RunTaken
    <3> QED
      BY <3>1, <3>2
  <2> QED
    BY <2>1, <2>2
<1>10. ASSUME NEW j \in Invoices \ {i} PROVE Fewer(j)
  <2>1. Busy(j)' => Busy(j)
    BY <1>9 DEF Busy
  <2>2. Busy(j) => lines[j] = <<>> /\ inv[j].status # "unused"
    BY DEF OneExtractor
  <2> QED
    BY <1>6, <1>9, <2>1, <2>2 DEF Fewer
<1>11. CASE tryLocal
  <2>1. \A u \in Tabs : Holds(u, i)' => u = t
    BY <1>4, <1>8, <1>11 DEF Holds
  <2>2. \A r \in RunSlots : ~ Pending(r, i)'
    BY <1>2, <1>4, <1>11 DEF Pending
  <2>3. TabTakes(i)
    BY <1>5, <2>1, <2>2 DEF TabTakes
  <2> QED
    BY <1>10, <2>3 DEF Passes
<1>12. CASE ~ tryLocal
  <2>1. \A u \in Tabs : ~ Holds(u, i)'
    BY <1>4, <1>8, <1>12 DEF Holds
  <2>2. \E r \in RunSlots : \A s \in RunSlots : Pending(s, i)' => s = r
    BY <1>0, <1>2, <1>4, <1>12, RunTaken
  <2>3. RunTakes(i)
    BY <1>5, <2>1, <2>2 DEF RunTakes
  <2> QED
    BY <1>10, <2>3 DEF Passes
<1> QED
  BY <1>11, <1>12

\* The tab's own extraction is stored: it was the only extractor, and goes on.
LEMMA LocalPasses ==
    ASSUME IInv, OneExtractor, TabsTyped, NEW t \in Tabs, NEW reading \in Readings,
           LocalExtracted(t, reading)
    PROVE  \A i \in Invoices : Passes(i)
<1>0. PICK i \in Invoices : i = tabs[t].inv
  BY DEF LocalExtracted, At, TabsTyped
<1>1. /\ tabs[t].pc = "local" /\ tabs[t] \in TabRows /\ tabs \in [Tabs -> TabRows]
      /\ TabOrg[t] \in Orgs
  BY DashboardAssumption DEF LocalExtracted, At, TabsTyped
<1>2. /\ Owned(TabOrg[t], i) /\ StoreExtraction(TabOrg[t], i, reading)
      /\ UNCHANGED runs /\ Set(t, Continue(tabs[t]))
  BY <1>0 DEF LocalExtracted, SubmitExtraction
<1>3. Holds(t, i)
  BY <1>0, <1>1 DEF Holds
<1>4. \A j \in Invoices \ {i} : lines'[j] = lines[j] /\ inv'[j] = inv[j]
  BY <1>1, <1>2, StoreType
<1>5. tabs'[t].pc \in {"open", "creating"} /\ \A u \in Tabs \ {t} : tabs'[u] = tabs[u]
  BY <1>1, <1>2, ContinueGood DEF Set
<1>6. \A j \in Invoices, u \in Tabs : Holds(u, j)' => u # t /\ Holds(u, j)
  BY <1>5 DEF Holds
<1>7. \A j \in Invoices, r \in RunSlots : Pending(r, j)' => Pending(r, j)
  BY <1>2 DEF Pending
<1>8. ~ Busy(i)'
  BY <1>1, <1>3, <1>6, <1>7 DEF Busy, OneExtractor
<1>9. \A j \in Invoices \ {i} : Busy(j)' => lines'[j] = <<>> /\ inv'[j].status # "unused"
  BY <1>4, <1>6, <1>7 DEF Busy, OneExtractor
<1>10. \A j \in Invoices : Busy(j)' => lines'[j] = <<>> /\ inv'[j].status # "unused"
  BY <1>8, <1>9
<1> QED
  BY <1>6, <1>7, <1>10 DEF Fewer, Passes

\* The tab hands its invoice over to a run.
LEMMA FallBackPasses ==
    ASSUME IInv, OneExtractor, TabsTyped, NEW t \in Tabs, FallBack(t)
    PROVE  \A i \in Invoices : Passes(i)
<1>0. PICK i \in Invoices : i = tabs[t].inv
  BY DEF FallBack, At, TabsTyped
<1>1. /\ tabs[t].pc = "fallback" /\ tabs[t] \in TabRows /\ tabs \in [Tabs -> TabRows]
      /\ TabOrg[t] \in Orgs
  BY DashboardAssumption DEF FallBack, At, TabsTyped
<1>2. /\ Schedule(TabOrg[t], i) /\ UNCHANGED <<lines, inv>>
      /\ Set(t, Continue(tabs[t]))
  BY <1>0 DEF FallBack, ScheduleExtract
<1>3. Holds(t, i)
  BY <1>0, <1>1 DEF Holds
<1>4. /\ lines[i] = <<>> /\ inv[i].status # "unused"
      /\ \A r \in RunSlots : ~ Pending(r, i)
      /\ \A u \in Tabs : Holds(u, i) => u = t
  BY <1>1, <1>3 DEF OneExtractor, Busy
<1>5. tabs'[t].pc \in {"open", "creating"} /\ \A u \in Tabs \ {t} : tabs'[u] = tabs[u]
  BY <1>1, <1>2, ContinueGood DEF Set
<1>6. \A j \in Invoices, u \in Tabs : Holds(u, j)' => u # t /\ Holds(u, j)
  BY <1>5 DEF Holds
<1>7. /\ \E r \in RunSlots : \A s \in RunSlots : Pending(s, i)' => s = r
      /\ \A j \in Invoices \ {i}, r \in RunSlots : Pending(r, j)' => Pending(r, j)
  BY <1>1, <1>2, <1>4, RunTaken
<1>8. RunTakes(i)
  BY <1>2, <1>4, <1>6, <1>7, <1>1 DEF RunTakes
<1>9. \A j \in Invoices \ {i} : Fewer(j)
  BY <1>2, <1>6, <1>7, FewerAlone
<1> QED
  BY <1>8, <1>9 DEF Passes

LEMMA TabStepPasses ==
    ASSUME IInv, OneExtractor, TabsTyped, NEW t \in Tabs, TabStep(t)
    PROVE  \A i \in Invoices : Passes(i)
<1>0. tabs[t] \in TabRows
  BY DEF TabsTyped
<1>1. CASE AutoSeed(t)
  <2> DEFINE tab == [tabs[t] EXCEPT !.pc = "seeding", !.seeded = TRUE]
  <2>1. Set(t, tab) /\ UNCHANGED <<lines, inv, runs>>
    BY <1>1 DEF AutoSeed, vars
  <2>2. tab.pc = "seeding"
    BY <1>0 DEF TabRows
  <2> HIDE DEF tab
  <2> QED
    BY <2>1, <2>2, TabMoves
<1>2. CASE LoadDemo(t)
  <2>1. PICK todo : Set(t, [tabs[t] EXCEPT !.todo = todo,
                                           !.pc = IF todo = <<>> THEN "open" ELSE "creating"])
    BY <1>2 DEF LoadDemo
  <2> DEFINE tab == [tabs[t] EXCEPT !.todo = todo,
                                    !.pc = IF todo = <<>> THEN "open" ELSE "creating"]
  <2>2. tab.pc \in {"open", "creating"}
    BY <1>0 DEF TabRows
  <2>3. UNCHANGED <<lines, inv, runs>>
    BY <1>2 DEF LoadDemo, SeedDemoBaseline
  <2>4. Set(t, tab)
    BY <2>1
  <2> HIDE DEF tab
  <2> QED
    BY <2>2, <2>3, <2>4, TabMoves
<1>3. CASE \E tryLocal \in BOOLEAN : CreateInvoice(t, tryLocal)
  BY <1>3, CreatePasses
<1>4. CASE \E reading \in Readings : LocalExtracted(t, reading)
  BY <1>4, LocalPasses
<1>5. CASE LocalFailed(t) \/ SubmissionRefused(t)
  <2> DEFINE tab == [tabs[t] EXCEPT !.pc = "fallback"]
  <2>1. Set(t, tab) /\ UNCHANGED <<lines, inv, runs>> /\ tabs[t].pc = "local"
    BY <1>5 DEF LocalFailed, SubmissionRefused, At, vars
  <2>2. tab.inv = tabs[t].inv
    BY <1>0 DEF TabRows
  <2> HIDE DEF tab
  <2> QED
    BY <2>1, <2>2, TabMoves
<1>6. CASE FallBack(t)
  BY <1>6, FallBackPasses
<1>7. CASE GivesUp(t)
  <2>1. PICK tab : Set(t, tab) /\ tab.pc \in {"open", "creating"}
    BY <1>7, GivesUpFacts
  <2>2. UNCHANGED <<lines, inv, runs>>
    BY <1>7, GivesUpFacts DEF vars
  <2> QED
    BY <2>1, <2>2, TabMoves
<1> QED
  BY <1>1, <1>2, <1>3, <1>4, <1>5, <1>6, <1>7 DEF TabStep

LEMMA RunPasses ==
    ASSUME IInv, OneExtractor, TabsTyped, NEW r \in RunSlots,
           RunStep(r) \/ RunFault(r) \/ RunLost(r), UNCHANGED tabs
    PROVE  \A i \in Invoices : Passes(i)
<1>0. runs \in [RunSlots -> RunStates] /\ inv \in [Invoices -> InvoiceRows]
  BY DEF IInv, TypeOK
<1>1. \A i \in Invoices, s \in RunSlots : Pending(s, i)' => Pending(s, i)
  <2>1. /\ \A s \in RunSlots \ {r} : runs'[s] = runs[s]
        /\ \/ runs'[r].pc \in {"idle", "log", "mark"}
           \/ /\ runs[r].pc \in {"read", "extract"} /\ runs'[r].inv = runs[r].inv
              /\ runs'[r].pc \in {"extract", "write"}
    BY <1>0 DEF RunStep, RunFault, RunLost, RunRead, RunExtract, RunWrite, RunLog, RunMark,
                IdleRun, RunStates
  <2> QED
    BY <2>1 DEF Pending
<1>2. ASSUME \A i \in Invoices : lines[i] = <<>> /\ inv[i].status # "unused" =>
                                 lines'[i] = <<>> /\ inv'[i].status # "unused"
      PROVE  \A i \in Invoices : Passes(i)
  BY <1>1, <1>2, BackendMoves DEF OneExtractor
<1>3. CASE UNCHANGED <<lines, inv>>
  BY <1>2, <1>3
<1>4. CASE RunMark(r) /\ Exists(runs[r].inv)
  <2> DEFINE i == runs[r].inv
  <2>1. /\ UNCHANGED lines
        /\ inv' = [inv EXCEPT ![i].status = "needs_review", ![i].failed = TRUE]
    BY <1>4 DEF RunMark
  <2> HIDE DEF i
  <2>2. \A j \in Invoices : inv[j].status # "unused" => inv'[j].status # "unused"
    BY <1>0, <2>1 DEF InvoiceRows
  <2> QED
    BY <1>2, <2>1, <2>2
<1>5. CASE RunWrite(r) /\ Exists(runs[r].inv)
  <2>0. PICK i \in Invoices : i = runs[r].inv
    BY <1>5 DEF RunWrite, IInv, RunsKnowTheirTenant
  <2>1. /\ runs[r].pc = "write" /\ runs[r].org \in Orgs
        /\ runs[r].out \in Readings /\ Owned(runs[r].org, i)
        /\ StoreExtraction(runs[r].org, i, runs[r].out)
    BY <1>0, <1>5, <2>0 DEF RunWrite, IInv, RunsKnowTheirTenant, RunStates, Owned
  <2>2. \A j \in Invoices \ {i} : lines'[j] = lines[j] /\ inv'[j] = inv[j]
    BY <2>1, StoreType
  <2>3. Pending(r, i)
    BY <2>0, <2>1 DEF Pending
  <2>4. ~ Pending(r, i)'
    BY <1>0, <1>5 DEF RunWrite, Pending, RunStates
  <2>5. ~ Busy(i)'
    <3>1. \A t \in Tabs : ~ Holds(t, i)
      BY <2>1, <2>3 DEF OneExtractor
    <3>2. \A t \in Tabs : ~ Holds(t, i)'
      BY <3>1 DEF Holds
    <3>3. \A s \in RunSlots : ~ Pending(s, i)'
      BY <1>1, <2>1, <2>3, <2>4 DEF OneExtractor
    <3> QED
      BY <3>2, <3>3 DEF Busy
  <2> TAKE j \in Invoices
  <2>6. Busy(j)' /\ Busy(j) => lines'[j] = <<>> /\ inv'[j].status # "unused"
    <3>1. CASE j = i
      BY <2>5, <3>1
    <3>2. CASE j # i
      BY <2>2, <3>2 DEF OneExtractor
    <3> QED
      BY <3>1, <3>2
  <2> QED
    BY <1>1, <2>6, BackendMoves
<1>6. \/ UNCHANGED <<lines, inv>>
      \/ RunMark(r) /\ Exists(runs[r].inv)
      \/ RunWrite(r) /\ Exists(runs[r].inv)
  BY DEF RunStep, RunFault, RunLost, RunRead, RunExtract, RunWrite, RunLog, RunMark
<1> QED
  BY <1>3, <1>4, <1>5, <1>6

LEMMA DashboardPasses ==
    ASSUME IInv, OneExtractor, TabsTyped, [DashboardNext]_allVars
    PROVE  OneExtractor'
<1>1. CASE UNCHANGED allVars
  <2>1. ASSUME NEW i \in Invoices PROVE Passes(i)
    <3>1. (\A t \in Tabs : Holds(t, i)' => Holds(t, i))
          /\ (\A r \in RunSlots : Pending(r, i)' => Pending(r, i))
      BY <1>1 DEF Holds, Pending, allVars, vars
    <3>2. UNCHANGED <<lines, inv>>
      BY <1>1 DEF allVars, vars
    <3> QED
      BY <3>1, <3>2, FewerAlone DEF Passes
  <2> QED
    BY <2>1, PassesKeeps
<1>2. CASE DashboardNext
  <2>1. \A i \in Invoices : Passes(i)
    BY <1>2, UserStepPasses, TabStepPasses, RunPasses DEF DashboardNext
  <2> QED
    BY <2>1, PassesKeeps
<1> QED
  BY <1>1, <1>2

\* Of the tabs and the runs of the server at most one extracts an invoice, and
\* it finds no lines there (page.tsx:206-270): for any tabs, opened and closed
\* at any point, any tenants, invoices, reviews and resets.
THEOREM OneExtractorAtATime == DashboardSpec => []OneExtractor
<1>1. DashboardInit => OneExtractor
  BY DEF DashboardInit, Init, ClosedTab, IdleRun, OneExtractor, Busy, Holds, Pending
<1>2. IInv /\ OneExtractor /\ TabsTyped /\ [DashboardNext]_allVars => OneExtractor'
  BY DashboardPasses
<1>3. DashboardSpec => []IInv
  BY DashboardImplementsBackend, BackendIInv, PTL
<1> QED
  BY <1>1, <1>2, <1>3, DashboardTyped, PTL DEF DashboardSpec

\* What development-plan.md:143-145 says of submitExtraction's guard holds of
\* the product, although not of the API: under its own client no extraction
\* erases a reviewer's decision.
THEOREM ClientKeepsReview == DashboardSpec => ExtractionsKeepReview
<1>1. IInv /\ OneExtractor /\ [Next]_vars =>
        [\A i \in Invoices : \A k \in DOMAIN lines[i] :
           DecisionLost(i, k) => inv'[i].status = "deleted"]_vars
  <2> SUFFICES ASSUME IInv, OneExtractor, [Next]_vars,
                      NEW i \in Invoices, NEW k \in DOMAIN lines[i], DecisionLost(i, k)
               PROVE  inv'[i].status = "deleted"
    OBVIOUS
  <2>1. inv'[i].status = "deleted" \/ RunWrites(i)
    BY DecisionStep
  <2>2. lines[i] # <<>>
    BY DEF IInv, TypeOK
  <2>3. ~ RunWrites(i)
    BY <2>2 DEF RunWrites, OneExtractor, Busy, Pending
  <2> QED
    BY <2>1, <2>3
<1>2. DashboardSpec => []IInv
  BY DashboardImplementsBackend, BackendIInv, PTL
<1>3. DashboardSpec => [][Next]_vars
  BY DashboardImplementsBackend, PTL DEF Spec
<1> QED
  BY <1>1, <1>2, <1>3, OneExtractorAtATime, PTL DEF ExtractionsKeepReview

-----------------------------------------------------------------------------
(* Nothing is stranded but by a loss.                                       *)

\* An invoice a tab holds is its tenant's own, until that tenant erases it.
HoldersOwn ==
    \A t \in Tabs, i \in Invoices :
        Holds(t, i) /\ Exists(i) => inv[i].org = TabOrg[t]

\* A step changes the owner of an invoice in the store only by creating it.
KeepsOwner(i) == inv'[i].status \in Stored => Exists(i) /\ inv'[i].org = inv[i].org

LEMMA RunKeepsOwner ==
    ASSUME IInv, NEW r \in RunSlots, RunStep(r) \/ RunFault(r) \/ RunLost(r),
           NEW i \in Invoices
    PROVE  KeepsOwner(i)
<1>0. inv \in [Invoices -> InvoiceRows] /\ runs \in [RunSlots -> RunStates]
  BY DEF IInv, TypeOK
<1>1. CASE UNCHANGED inv
  BY <1>1 DEF KeepsOwner, Exists
<1>2. CASE RunMark(r) /\ Exists(runs[r].inv)
  <2> DEFINE j == runs[r].inv
  <2>1. inv' = [inv EXCEPT ![j].status = "needs_review", ![j].failed = TRUE] /\ Exists(j)
    BY <1>2 DEF RunMark
  <2> HIDE DEF j
  <2> QED
    BY <1>0, <2>1 DEF KeepsOwner, Exists, InvoiceRows
<1>3. CASE RunWrite(r) /\ Exists(runs[r].inv)
  <2> DEFINE j == runs[r].inv
  <2>1. inv' = [inv EXCEPT ![j].status = "needs_review", ![j].failed = FALSE] /\ Exists(j)
    BY <1>3 DEF RunWrite, StoreExtraction
  <2> HIDE DEF j
  <2> QED
    BY <1>0, <2>1 DEF KeepsOwner, Exists, InvoiceRows
<1> QED
  BY <1>1, <1>2, <1>3
     DEF RunStep, RunFault, RunLost, RunRead, RunExtract, RunWrite, RunLog, RunMark

LEMMA UserKeepsOwner ==
    ASSUME IInv, UserStep, NEW i \in Invoices
    PROVE  KeepsOwner(i)
<1>0. inv \in [Invoices -> InvoiceRows]
  BY DEF IInv, TypeOK
<1>1. CASE UNCHANGED inv
  BY <1>1 DEF KeepsOwner, Exists
<1>2. ASSUME NEW o \in Orgs, ResetDemo(o) PROVE KeepsOwner(i)
  BY <1>0, <1>2 DEF ResetDemo, NoRow, KeepsOwner, Exists, Stored
<1>3. ASSUME NEW o \in Orgs, Review(o) PROVE KeepsOwner(i)
  <2>1. PICK j \in Invoices :
          \/ \E k \in DOMAIN lines[j] :
                \/ \E d \in {"approved", "rejected"} : ReviewLine(o, j, k, d)
                \/ \E p \in Corrections, q \in Enterable(j, k) : CorrectLine(o, j, k, p, q)
          \/ \E s \in {"approved", "rejected", "needs_review"} : SetInvoiceStatus(o, j, s)
    BY <1>3 DEF Review
  <2>3. ASSUME NEW k, NEW d, NEW q, ReviewLine(o, j, k, d) \/ CorrectLine(o, j, k, d, q)
        PROVE  UNCHANGED inv
    BY <2>3 DEF ReviewLine, CorrectLine
  <2>2. CASE \E s \in {"approved", "rejected", "needs_review"} : SetInvoiceStatus(o, j, s)
    <3>1. PICK s : inv' = [inv EXCEPT ![j].status = s] /\ Exists(j)
      BY <2>2 DEF SetInvoiceStatus, Owned
    <3> QED
      BY <1>0, <3>1 DEF KeepsOwner, Exists, InvoiceRows
  <2> QED
    BY <1>1, <2>1, <2>2, <2>3
<1>4. CASE UNCHANGED vars
  BY <1>1, <1>4 DEF vars
<1>5. ASSUME NEW o \in Orgs, NEW list \in Lists, SetBaselineFromText(o, list) PROVE KeepsOwner(i)
  BY <1>1, <1>5 DEF SetBaselineFromText
<1>6. ASSUME NEW t \in Tabs, NEW n \in Numbers, UploadInvoice(t, n)
      PROVE  UNCHANGED vars
  BY <1>6, Zenon DEF UploadInvoice
<1>7. CASE \E o \in Orgs :
            \/ ResetDemo(o)
            \/ \E list \in Lists : SetBaselineFromText(o, list)
            \/ Reviewing /\ Review(o)
  BY <1>2, <1>3, <1>5, <1>7
<1>8. CASE \E t \in Tabs : OpenTab(t) \/ CloseTab(t) \/ LoadEverything(t)
  <2>1. PICK t \in Tabs : OpenTab(t) \/ CloseTab(t) \/ LoadEverything(t)
    BY <1>8
  <2>2. UNCHANGED vars
    BY <2>1, Zenon DEF OpenTab, CloseTab, LoadEverything
  <2> QED
    BY <1>4, <2>2
<1> QED
  BY <1>4, <1>6, <1>7, <1>8 DEF UserStep

\* A tab's step creates one invoice, which that tab then holds or which
\* nobody does; the others keep their owners.
LEMMA TabKeepsOwner ==
    ASSUME IInv, OneExtractor, TabsTyped, NEW t \in Tabs, TabStep(t), NEW i \in Invoices
    PROVE  KeepsOwner(i) \/ (~ Busy(i) /\ inv'[i].org = TabOrg[t])
<1>0. inv \in [Invoices -> InvoiceRows] /\ TabOrg[t] \in Orgs
  BY DashboardAssumption DEF IInv, TypeOK
<1>1. CASE UNCHANGED inv
  BY <1>1 DEF KeepsOwner, Exists
<1>2. CASE \E tryLocal \in BOOLEAN : CreateInvoice(t, tryLocal)
  <2>1. PICK j \in Invoices :
          /\ inv[j].status = "unused"
          /\ inv' = [inv EXCEPT ![j] = NewInvoice(TabOrg[t], Head(tabs[t].todo), "extracting")]
    BY <1>2 DEF CreateInvoice, CreateAs, Unused
  <2>2. CASE i = j
    <3>1. inv'[i].org = TabOrg[t]
      BY <1>0, <2>1, <2>2 DEF NewInvoice
    <3> QED
      BY <2>1, <2>2, <3>1 DEF OneExtractor
  <2>3. CASE i # j
    BY <1>0, <2>1, <2>3 DEF KeepsOwner, Exists
  <2> QED
    BY <2>2, <2>3
<1>3. CASE \E reading \in Readings : LocalExtracted(t, reading)
  <2> DEFINE j == tabs[t].inv
  <2>1. inv' = [inv EXCEPT ![j].status = "needs_review", ![j].failed = FALSE] /\ Exists(j)
    BY <1>3 DEF LocalExtracted, SubmitExtraction, StoreExtraction, Owned
  <2> HIDE DEF j
  <2> QED
    BY <1>0, <2>1 DEF KeepsOwner, Exists, InvoiceRows
<1>4. CASE GivesUp(t)
  BY <1>1, <1>4, GivesUpFacts DEF vars
<1> QED
  BY <1>1, <1>2, <1>3, <1>4
     DEF TabStep, AutoSeed, LoadDemo, SeedDemoBaseline, LocalFailed, SubmissionRefused,
         FallBack, ScheduleExtract, vars

\* A tab comes to hold an invoice only by creating it.
LEMMA TabComesToHold ==
    ASSUME IInv, TabsTyped, NEW t \in Tabs, TabStep(t), NEW i \in Invoices, NEW u \in Tabs,
           Holds(u, i)'
    PROVE  Holds(u, i) \/ (u = t /\ inv'[i].org = TabOrg[t])
<1>0. inv \in [Invoices -> InvoiceRows] /\ TabOrg[t] \in Orgs
  BY DashboardAssumption DEF IInv, TypeOK
<1>1. /\ tabs \in [Tabs -> TabRows] /\ tabs[t] \in TabRows
      /\ tabs[t].todo \in Seq(Numbers)
  BY DEF TabsTyped, TabRows
<1>2. ASSUME NEW tab, Set(t, tab), tab.pc \notin {"local", "fallback"} PROVE Holds(u, i)
  BY <1>1, <1>2 DEF Set, Holds
<1>3. CASE AutoSeed(t)
  <2> DEFINE tab == [tabs[t] EXCEPT !.pc = "seeding", !.seeded = TRUE]
  <2>1. Set(t, tab) /\ tab.pc = "seeding"
    BY <1>1, <1>3 DEF AutoSeed, TabRows
  <2> HIDE DEF tab
  <2> QED
    BY <1>2, <2>1
<1>4. CASE LoadDemo(t)
  <2>1. PICK todo : Set(t, [tabs[t] EXCEPT !.todo = todo,
                                           !.pc = IF todo = <<>> THEN "open" ELSE "creating"])
    BY <1>4, Zenon DEF LoadDemo
  <2> DEFINE tab == [tabs[t] EXCEPT !.todo = todo,
                                    !.pc = IF todo = <<>> THEN "open" ELSE "creating"]
  <2>2. tab.pc \in {"open", "creating"}
    BY <1>1 DEF TabRows
  <2>3. Set(t, tab)
    BY <2>1
  <2> HIDE DEF tab
  <2> QED
    BY <1>2, <2>2, <2>3
<1>5. CASE \E tryLocal \in BOOLEAN : CreateInvoice(t, tryLocal)
  <2>1. PICK tryLocal \in BOOLEAN, j \in Invoices :
          /\ inv' = [inv EXCEPT ![j] = NewInvoice(TabOrg[t], Head(tabs[t].todo), "extracting")]
          /\ Set(t, IF tryLocal THEN [tabs[t] EXCEPT !.pc = "local", !.inv = j]
                    ELSE Continue(tabs[t]))
    BY <1>5, Zenon DEF CreateInvoice, CreateAs
  <2>2. CASE tryLocal
    <3>1. u = t => i = j
      BY <1>1, <2>1, <2>2 DEF Set, Holds, TabRows
    <3>2. u # t => Holds(u, i)
      BY <1>1, <2>1, <2>2 DEF Set, Holds
    <3>3. inv'[j].org = TabOrg[t]
      BY <1>0, <2>1 DEF NewInvoice
    <3> QED
      BY <3>1, <3>2, <3>3
  <2>3. CASE ~ tryLocal
    BY <1>1, <1>2, <2>1, <2>3, ContinueGood
  <2> QED
    BY <2>2, <2>3
<1>6. CASE \E reading \in Readings : LocalExtracted(t, reading)
  BY <1>1, <1>2, <1>6, ContinueGood DEF LocalExtracted
<1>7. CASE LocalFailed(t) \/ SubmissionRefused(t)
  <2>1. tabs' = [tabs EXCEPT ![t] = [tabs[t] EXCEPT !.pc = "fallback"]] /\ tabs[t].pc = "local"
    BY <1>7 DEF LocalFailed, SubmissionRefused, Set, At
  <2> QED
    BY <1>1, <2>1 DEF Holds, TabRows
<1>8. CASE FallBack(t)
  BY <1>1, <1>2, <1>8, ContinueGood DEF FallBack
<1>9. CASE GivesUp(t)
  <2>1. PICK tab : Set(t, tab) /\ tab.pc \in {"open", "creating"}
    BY <1>9, GivesUpFacts
  <2> QED
    BY <1>2, <2>1
<1> QED
  BY <1>3, <1>4, <1>5, <1>6, <1>7, <1>8, <1>9 DEF TabStep

\* A user's step leaves every tab with no more than it held.
LEMMA UserHoldsNothing ==
    ASSUME TabsTyped, UserStep, NEW u \in Tabs, NEW i, Holds(u, i)'
    PROVE  Holds(u, i)
<1>0. tabs \in [Tabs -> TabRows]
  BY DEF TabsTyped
<1>1. ASSUME NEW t \in Tabs, NEW tab, Set(t, tab), tab.pc \notin {"local", "fallback"}
      PROVE  Holds(u, i)
  BY <1>0, <1>1 DEF Set, Holds
<1>2. CASE UNCHANGED tabs
  BY <1>2 DEF Holds
<1>3. CASE \E t \in Tabs : OpenTab(t) \/ CloseTab(t) \/ LoadEverything(t)
  <2>1. PICK t \in Tabs : OpenTab(t) \/ CloseTab(t) \/ LoadEverything(t)
    BY <1>3
  <2>2. CASE OpenTab(t) \/ CloseTab(t)
    BY <1>1, <2>2 DEF OpenTab, CloseTab, ClosedTab
  <2>3. CASE LoadEverything(t)
    <3> DEFINE tab == [tabs[t] EXCEPT !.pc = "seeding"]
    <3>1. Set(t, tab) /\ tab.pc = "seeding"
      BY <1>0, <2>3 DEF LoadEverything, TabRows
    <3> HIDE DEF tab
    <3> QED
      BY <1>1, <3>1
  <2> QED
    BY <2>1, <2>2, <2>3
<1>4. CASE \E t \in Tabs, n \in Numbers \ DemoNumbers : UploadInvoice(t, n)
  <2>1. PICK t \in Tabs, n \in Numbers \ DemoNumbers : UploadInvoice(t, n)
    BY <1>4
  <2> DEFINE tab == [tabs[t] EXCEPT !.pc = "creating", !.todo = <<n>>]
  <2>2. Set(t, tab) /\ tab.pc = "creating"
    BY <1>0, <2>1 DEF UploadInvoice, TabRows
  <2> HIDE DEF tab
  <2> QED
    BY <1>1, <2>2
<1> QED
  BY <1>2, <1>3, <1>4 DEF UserStep

LEMMA HoldersOwnStep ==
    ASSUME IInv, OneExtractor, TabsTyped, HoldersOwn, [DashboardNext]_allVars
    PROVE  HoldersOwn'
<1> SUFFICES ASSUME NEW u \in Tabs, NEW i \in Invoices, Holds(u, i)', Exists(i)'
             PROVE  inv'[i].org = TabOrg[u]
  BY DEF HoldersOwn
<1>1. inv'[i].status \in Stored
  BY DEF Exists
<1>2. ASSUME Holds(u, i), KeepsOwner(i) PROVE inv'[i].org = TabOrg[u]
  BY <1>1, <1>2 DEF KeepsOwner, HoldersOwn
<1>3. CASE UNCHANGED allVars
  BY <1>2, <1>3 DEF allVars, vars, Holds, KeepsOwner, Exists
<1>4. CASE UserStep
  BY <1>2, <1>4, UserHoldsNothing, UserKeepsOwner
<1>5. CASE \E t \in Tabs : TabStep(t)
  <2>1. PICK t \in Tabs : TabStep(t)
    BY <1>5
  <2>2. Holds(u, i) \/ (u = t /\ inv'[i].org = TabOrg[t])
    BY <2>1, TabComesToHold
  <2>3. Holds(u, i) => KeepsOwner(i)
    BY <2>1, TabKeepsOwner DEF Busy
  <2> QED
    BY <1>2, <2>2, <2>3
<1>6. CASE \E r \in RunSlots : (RunStep(r) \/ RunFault(r) \/ RunLost(r)) /\ UNCHANGED tabs
  BY <1>2, <1>6, RunKeepsOwner DEF Holds
<1> QED
  BY <1>3, <1>4, <1>5, <1>6 DEF DashboardNext

\* The step does not take the last of those who work on the invoice, unless
\* the invoice awaits nothing after it.
Settles(i) == inv'[i].status # "extracting" \/ ~ Stranded(i)'
Loses(i) == \/ \E t \in Tabs : Holds(t, i) /\ (CloseTab(t) \/ FallBackFails(t))
            \/ \E r \in RunSlots : Unreported(r, i) /\ RunLost(r)

\* Everybody who works on the invoice still does.
LEMMA NobodyLeaves ==
    ASSUME NEW i \in Invoices, ~ Stranded(i),
           inv'[i].status = "extracting" => inv[i].status = "extracting",
           \A t \in Tabs : Holds(t, i) => Holds(t, i)',
           \A r \in RunSlots : Unreported(r, i) => Unreported(r, i)'
    PROVE  Settles(i)
BY Zenon DEF Settles, Stranded

LEMMA RunSettles ==
    ASSUME IInv, NEW i \in Invoices, ~ Stranded(i), UNCHANGED tabs, NEW r \in RunSlots,
           RunStep(r) \/ RunFault(r)
    PROVE  Settles(i)
<1>0. /\ inv \in [Invoices -> InvoiceRows] /\ runs \in [RunSlots -> RunStates]
      /\ runs[r].pc # "idle" => runs[r].inv \in Invoices
  BY DEF IInv, TypeOK, RunsKnowTheirTenant
<1>1. \A t \in Tabs : Holds(t, i) => Holds(t, i)'
  BY DEF Holds
<1>2. ASSUME runs[r].inv # i, inv'[i] = inv[i],
             \A s \in RunSlots \ {r} : runs'[s] = runs[s]
      PROVE  Settles(i)
  BY <1>1, <1>2, NobodyLeaves DEF Unreported, Pending
<1>3. ASSUME UNCHANGED inv, NEW pc \in {"extract", "write", "mark"}, NEW out,
             runs' = [runs EXCEPT ![r].pc = pc, ![r].out = out]
      PROVE  Settles(i)
  <2>1. \A s \in RunSlots : Unreported(s, i) => Unreported(s, i)'
    BY <1>0, <1>3 DEF Unreported, Pending, RunStates
  <2> QED
    BY <1>1, <1>3, <2>1, NobodyLeaves
<1>4. CASE RunRead(r)
  <2>1. CASE Exists(runs[r].inv)
    <3>1. runs' = [runs EXCEPT ![r].pc = "extract", ![r].out = runs[r].out] /\ UNCHANGED inv
      BY <1>0, <1>4, <2>1 DEF RunRead, RunStates
    <3> QED
      BY <1>3, <3>1
  <2>2. CASE ~ Exists(runs[r].inv) /\ runs[r].inv = i
    BY <1>4, <2>2 DEF RunRead, Settles, Exists, Stored
  <2>3. CASE ~ Exists(runs[r].inv) /\ runs[r].inv # i
    BY <1>0, <1>2, <1>4, <2>3 DEF RunRead
  <2> QED
    BY <2>1, <2>2, <2>3
<1>5. CASE \E reading \in Readings : RunExtract(r, reading)
  BY <1>3, <1>5 DEF RunExtract
<1>6. CASE RunWrite(r)
  <2>1. CASE ~ Exists(runs[r].inv)
    BY <1>3, <1>6, <2>1 DEF RunWrite
  <2>2. CASE Exists(runs[r].inv)
    <3> DEFINE j == runs[r].inv
    <3>1. /\ inv' = [inv EXCEPT ![j].status = "needs_review", ![j].failed = FALSE]
          /\ runs' = [runs EXCEPT ![r].pc = "log", ![r].out = <<>>]
      BY <1>6, <2>2 DEF RunWrite, StoreExtraction
    <3>2. j \in Invoices
      BY <1>0, <1>6 DEF RunWrite
    <3>3. \A s \in RunSlots \ {r} : runs'[s] = runs[s]
      BY <1>0, <3>1
    <3> HIDE DEF j
    <3>4. CASE j = i
      BY <1>0, <3>1, <3>4 DEF Settles, InvoiceRows
    <3>5. CASE j # i
      <4>1. inv'[i] = inv[i]
        BY <1>0, <3>1, <3>5
      <4> QED
        BY <1>2, <3>3, <3>5, <4>1 DEF j
    <3> QED
      BY <3>4, <3>5
  <2> QED
    BY <2>1, <2>2
<1>7. CASE RunLog(r)
  <2>1. \A s \in RunSlots : Unreported(s, i) => Unreported(s, i)'
    BY <1>0, <1>7 DEF RunLog, Unreported, Pending
  <2> QED
    BY <1>1, <1>7, <2>1, NobodyLeaves DEF RunLog
<1>8. CASE RunMark(r)
  <2> DEFINE j == runs[r].inv
  <2>1. /\ j \in Invoices
        /\ \A s \in RunSlots \ {r} : runs'[s] = runs[s]
    BY <1>0, <1>8 DEF RunMark
  <2>2. inv' = IF Exists(j) THEN [inv EXCEPT ![j].status = "needs_review", ![j].failed = TRUE]
               ELSE inv
    BY <1>8 DEF RunMark
  <2> HIDE DEF j
  <2>3. CASE j = i
    BY <1>0, <2>2, <2>3 DEF Settles, Exists, Stored, InvoiceRows
  <2>4. CASE j # i
    <3>1. inv'[i] = inv[i]
      BY <1>0, <2>2, <2>4
    <3> QED
      BY <1>2, <2>1, <2>4, <3>1 DEF j
  <2> QED
    BY <2>3, <2>4
<1>9. CASE RunFault(r)
  BY <1>3, <1>9 DEF RunFault
<1> QED
  BY <1>4, <1>5, <1>6, <1>7, <1>8, <1>9 DEF RunStep

LEMMA UserSettles ==
    ASSUME IInv, TabsTyped, UserStep, NEW i \in Invoices, ~ Stranded(i)
    PROVE  Settles(i) \/ Loses(i)
<1>0. tabs \in [Tabs -> TabRows] /\ inv \in [Invoices -> InvoiceRows]
  BY DEF TabsTyped, IInv, TypeOK
<1>1. ASSUME UNCHANGED runs, inv'[i].status = "extracting" => inv[i].status = "extracting",
             \A u \in Tabs : Holds(u, i) => tabs'[u] = tabs[u]
      PROVE  Settles(i)
  BY <1>1, NobodyLeaves DEF Holds, Unreported, Pending
<1>2. ASSUME NEW t \in Tabs, NEW tab, Set(t, tab), ~ Holds(t, i), UNCHANGED vars
      PROVE  Settles(i)
  BY <1>0, <1>1, <1>2 DEF Set, vars
<1>3. CASE \E t \in Tabs : OpenTab(t) \/ CloseTab(t) \/ LoadEverything(t)
  <2>1. PICK t \in Tabs : OpenTab(t) \/ CloseTab(t) \/ LoadEverything(t)
    BY <1>3
  <2>2. CASE OpenTab(t) \/ LoadEverything(t)
    <3>1. tabs[t].pc \in {"closed", "open"}
      BY <2>2 DEF OpenTab, LoadEverything, At
    <3>2. UNCHANGED vars /\ \E tab : Set(t, tab)
      BY <2>2 DEF OpenTab, LoadEverything
    <3> QED
      BY <1>2, <3>1, <3>2 DEF Holds
  <2>3. CASE CloseTab(t)
    BY <1>2, <2>3 DEF CloseTab, Loses
  <2> QED
    BY <2>1, <2>2, <2>3
<1>4. CASE \E t \in Tabs, n \in Numbers \ DemoNumbers : UploadInvoice(t, n)
  <2>1. PICK t \in Tabs, n \in Numbers \ DemoNumbers : UploadInvoice(t, n)
    BY <1>4
  <2>2. tabs[t].pc = "open" /\ UNCHANGED vars /\ \E tab : Set(t, tab)
    BY <2>1 DEF UploadInvoice, At
  <2> QED
    BY <1>2, <2>2 DEF Holds
<1>5. ASSUME NEW o \in Orgs, UNCHANGED tabs,
             \/ ResetDemo(o)
             \/ \E list \in Lists : SetBaselineFromText(o, list)
             \/ Review(o)
      PROVE  Settles(i)
  <2>1. CASE ResetDemo(o)
    BY <1>0, <1>1, <1>5, <2>1 DEF ResetDemo, NoRow
  <2>2. CASE \E list \in Lists : SetBaselineFromText(o, list)
    BY <1>1, <1>5, <2>2 DEF SetBaselineFromText
  <2>3. CASE Review(o)
    <3>1. PICK j \in Invoices :
            \/ \E k \in DOMAIN lines[j] :
                  \/ \E d \in {"approved", "rejected"} : ReviewLine(o, j, k, d)
                  \/ \E p \in Corrections, q \in Enterable(j, k) : CorrectLine(o, j, k, p, q)
            \/ \E s \in {"approved", "rejected", "needs_review"} : SetInvoiceStatus(o, j, s)
      BY <2>3 DEF Review
    <3>2. ASSUME NEW k, NEW d, NEW q, ReviewLine(o, j, k, d) \/ CorrectLine(o, j, k, d, q)
          PROVE  UNCHANGED <<inv, runs>>
      BY <3>2 DEF ReviewLine, CorrectLine
    <3>3. ASSUME NEW s \in {"approved", "rejected", "needs_review"}, SetInvoiceStatus(o, j, s)
          PROVE  /\ UNCHANGED runs
                 /\ inv'[i].status = "extracting" => inv[i].status = "extracting"
      <4>1. UNCHANGED runs /\ inv' = [inv EXCEPT ![j].status = s]
        BY <3>3 DEF SetInvoiceStatus
      <4> QED
        BY <1>0, <4>1 DEF InvoiceRows
    <3> QED
      BY <1>1, <1>5, <3>1, <3>2, <3>3
  <2> QED
    BY <1>5, <2>1, <2>2, <2>3
<1> QED
  BY <1>3, <1>4, <1>5 DEF UserStep

\* The new invoice is the tab's or the run's; the tab held nothing before.
LEMMA CreateSettles ==
    ASSUME IInv, TabsTyped, NEW t \in Tabs, NEW tryLocal \in BOOLEAN,
           CreateInvoice(t, tryLocal), NEW i \in Invoices, ~ Stranded(i)
    PROVE  Settles(i)
<1>0. /\ inv \in [Invoices -> InvoiceRows] /\ runs \in [RunSlots -> RunStates]
      /\ tabs \in [Tabs -> TabRows] /\ tabs[t] \in TabRows
  BY DEF IInv, TypeOK, TabsTyped
<1>1. PICK j \in Invoices :
        /\ CreateAs(TabOrg[t], j, Head(tabs[t].todo), tryLocal)
        /\ Set(t, IF tryLocal THEN [tabs[t] EXCEPT !.pc = "local", !.inv = j]
                  ELSE Continue(tabs[t]))
  BY Zenon DEF CreateInvoice
<1>2. /\ inv' = [inv EXCEPT ![j] = NewInvoice(TabOrg[t], Head(tabs[t].todo), "extracting")]
      /\ IF tryLocal THEN UNCHANGED runs ELSE Schedule(TabOrg[t], j)
  BY <1>1 DEF CreateAs
<1>3. tabs[t].pc = "creating"
  BY DEF CreateInvoice, At
<1>4. \A u \in Tabs : Holds(u, i) => Holds(u, i)'
  BY <1>0, <1>1, <1>3 DEF Set, Holds
<1>5. CASE tryLocal
  <2>1. Holds(t, j)'
    BY <1>0, <1>1, <1>5 DEF Set, Holds, TabRows
  <2>2. i # j => inv'[i] = inv[i]
    BY <1>0, <1>2
  <2>3. \A r \in RunSlots : Unreported(r, i) => Unreported(r, i)'
    BY <1>2, <1>5 DEF Unreported, Pending
  <2> QED
    BY <1>4, <2>1, <2>2, <2>3, NobodyLeaves DEF Settles, Stranded
<1>6. CASE ~ tryLocal
  <2>1. PICK r \in RunSlots :
          /\ runs[r].pc = "idle"
          /\ runs' = [runs EXCEPT ![r] = [pc |-> "read", inv |-> j, org |-> TabOrg[t], out |-> <<>>]]
    BY <1>2, <1>6 DEF Schedule
  <2>2. Unreported(r, j)'
    BY <1>0, <2>1 DEF Unreported, Pending
  <2>3. i # j => inv'[i] = inv[i]
    BY <1>0, <1>2
  <2>4. \A s \in RunSlots : Unreported(s, i) => Unreported(s, i)'
    BY <1>0, <2>1 DEF Unreported, Pending
  <2> QED
    BY <1>4, <2>2, <2>3, <2>4, NobodyLeaves DEF Settles, Stranded
<1> QED
  BY <1>5, <1>6

\* A run takes the invoice over.
LEMMA FallBackSettles ==
    ASSUME IInv, TabsTyped, NEW t \in Tabs, FallBack(t), NEW i \in Invoices, ~ Stranded(i)
    PROVE  Settles(i)
<1>0. /\ inv \in [Invoices -> InvoiceRows] /\ runs \in [RunSlots -> RunStates]
      /\ tabs \in [Tabs -> TabRows] /\ tabs[t].pc = "fallback"
  BY DEF IInv, TypeOK, TabsTyped, FallBack, At
<1>1. UNCHANGED inv /\ \A u \in Tabs \ {t} : tabs'[u] = tabs[u]
  BY <1>0 DEF FallBack, ScheduleExtract, Set
<1>2. PICK r \in RunSlots :
        /\ runs[r].pc = "idle"
        /\ runs' = [runs EXCEPT ![r] = [pc |-> "read", inv |-> tabs[t].inv, org |-> TabOrg[t],
                                        out |-> <<>>]]
  BY DEF FallBack, ScheduleExtract, Schedule
<1>3. tabs[t].inv = i => Unreported(r, i)'
  BY <1>0, <1>2 DEF Unreported, Pending
<1>4. \A s \in RunSlots : Unreported(s, i) => Unreported(s, i)'
  BY <1>0, <1>2 DEF Unreported, Pending
<1>5. tabs[t].inv # i => \A u \in Tabs : Holds(u, i) => Holds(u, i)'
  BY <1>1 DEF Holds
<1> QED
  BY <1>1, <1>3, <1>4, <1>5, NobodyLeaves DEF Settles, Stranded

\* A refused hand-over was of an invoice that is gone: one that exists is the
\* tab's own, which scheduleExtract refuses no tab.
LEMMA GivesUpSettles ==
    ASSUME IInv, TabsTyped, HoldersOwn, NEW t \in Tabs, GivesUp(t),
           NEW i \in Invoices, ~ Stranded(i)
    PROVE  Settles(i) \/ Loses(i)
<1>1. UNCHANGED <<inv, runs>> /\ \E tab : Set(t, tab)
  BY GivesUpFacts DEF vars
<1>2. \A u \in Tabs \ {t} : tabs'[u] = tabs[u]
  BY <1>1 DEF Set, TabsTyped
<1>3. \A s \in RunSlots : Unreported(s, i) => Unreported(s, i)'
  BY <1>1 DEF Unreported, Pending
<1>4. CASE ~ Holds(t, i)
  <2>1. \A u \in Tabs : Holds(u, i) => Holds(u, i)'
    BY <1>2, <1>4 DEF Holds
  <2> QED
    BY <1>1, <1>3, <2>1, NobodyLeaves
<1>5. CASE Holds(t, i) /\ FallBackRefused(t)
  <2>1. ~ Exists(i)
    BY <1>5 DEF FallBackRefused, HoldersOwn, Holds, Owned
  <2> QED
    BY <1>1, <2>1 DEF Settles, Exists, Stored
<1>6. CASE Holds(t, i) /\ FallBackFails(t)
  BY <1>6 DEF Loses
<1>7. LoadDemoFails(t) \/ CreateFails(t) => ~ Holds(t, i)
  BY DEF LoadDemoFails, CreateFails, At, Holds
<1> QED
  BY <1>4, <1>5, <1>6, <1>7 DEF GivesUp

LEMMA TabSettles ==
    ASSUME IInv, TabsTyped, HoldersOwn, NEW t \in Tabs, TabStep(t),
           NEW i \in Invoices, ~ Stranded(i)
    PROVE  Settles(i) \/ Loses(i)
<1>0. /\ inv \in [Invoices -> InvoiceRows]
      /\ tabs \in [Tabs -> TabRows] /\ tabs[t] \in TabRows
  BY DEF IInv, TypeOK, TabsTyped
<1>1. ASSUME UNCHANGED <<inv, runs>>, NEW tab, Set(t, tab), Holds(t, i) => tab.pc = "fallback" /\ tab.inv = i
      PROVE  Settles(i)
  <2>1. \A u \in Tabs : Holds(u, i) => Holds(u, i)'
    BY <1>0, <1>1 DEF Set, Holds
  <2>2. \A s \in RunSlots : Unreported(s, i) => Unreported(s, i)'
    BY <1>1 DEF Unreported, Pending
  <2> QED
    BY <1>1, <2>1, <2>2, NobodyLeaves
<1>2. CASE AutoSeed(t) \/ LoadDemo(t)
  <2>1. /\ UNCHANGED <<inv, runs>> /\ tabs[t].pc \in {"open", "seeding"}
        /\ \E tab : Set(t, tab)
    BY <1>2 DEF AutoSeed, LoadDemo, SeedDemoBaseline, At, vars
  <2> QED
    BY <1>1, <2>1 DEF Holds
<1>3. CASE \E tryLocal \in BOOLEAN : CreateInvoice(t, tryLocal)
  BY <1>3, CreateSettles
<1>4. CASE \E reading \in Readings : LocalExtracted(t, reading)
  <2>1. /\ inv' = [inv EXCEPT ![tabs[t].inv].status = "needs_review", ![tabs[t].inv].failed = FALSE]
        /\ UNCHANGED runs /\ \E tab : Set(t, tab)
    BY <1>4 DEF LocalExtracted, SubmitExtraction, StoreExtraction
  <2>2. CASE tabs[t].inv = i
    BY <1>0, <2>1, <2>2 DEF Settles, InvoiceRows
  <2>3. CASE tabs[t].inv # i
    <3>1. inv'[i] = inv[i]
      BY <1>0, <2>1, <2>3
    <3>2. \A u \in Tabs : Holds(u, i) => Holds(u, i)'
      BY <1>0, <2>1, <2>3 DEF Set, Holds
    <3>3. \A s \in RunSlots : Unreported(s, i) => Unreported(s, i)'
      BY <2>1 DEF Unreported, Pending
    <3> QED
      BY <3>1, <3>2, <3>3, NobodyLeaves
  <2> QED
    BY <2>2, <2>3
<1>5. CASE LocalFailed(t) \/ SubmissionRefused(t)
  <2> DEFINE tab == [tabs[t] EXCEPT !.pc = "fallback"]
  <2>1. Set(t, tab) /\ UNCHANGED <<inv, runs>>
    BY <1>5 DEF LocalFailed, SubmissionRefused, vars
  <2>2. tab.pc = "fallback" /\ tab.inv = tabs[t].inv
    BY <1>0 DEF TabRows
  <2> HIDE DEF tab
  <2> QED
    BY <1>1, <2>1, <2>2 DEF Holds
<1>6. CASE FallBack(t)
  BY <1>6, FallBackSettles
<1>7. CASE GivesUp(t)
  BY <1>7, GivesUpSettles
<1> QED
  BY <1>2, <1>3, <1>4, <1>5, <1>6, <1>7 DEF TabStep

\* Refusals, faults, resets, reviews and other tabs never strand an invoice
\* (page.tsx:239-270, extract.ts): only a closed tab, a hand-over that fails
\* and a run the platform drops do, for any tabs, tenants, invoices and runs.
THEOREM StrandingNeedsALoss == DashboardSpec => OnlyLossStrands
<1>1. DashboardInit => HoldersOwn
  BY DEF DashboardInit, ClosedTab, HoldersOwn, Holds
<1>2. IInv /\ OneExtractor /\ TabsTyped /\ HoldersOwn /\ [DashboardNext]_allVars => HoldersOwn'
  BY HoldersOwnStep
<1>3. DashboardSpec => []IInv
  BY DashboardImplementsBackend, BackendIInv, PTL
<1>4. DashboardSpec => []HoldersOwn
  BY <1>1, <1>2, <1>3, OneExtractorAtATime, DashboardTyped, PTL DEF DashboardSpec
<1>5. IInv /\ TabsTyped /\ HoldersOwn /\ [DashboardNext]_allVars =>
        [\A i \in Invoices : Stranded(i)' =>
           \/ Stranded(i)
           \/ \E t \in Tabs : Holds(t, i) /\ (CloseTab(t) \/ FallBackFails(t))
           \/ \E r \in RunSlots : Unreported(r, i) /\ RunLost(r)]_allVars
  <2> SUFFICES ASSUME IInv, TabsTyped, HoldersOwn, DashboardNext,
                      NEW i \in Invoices, Stranded(i)', ~ Stranded(i)
               PROVE  Loses(i)
    BY DEF Loses
  <2>1. ~ Settles(i)
    BY DEF Settles, Stranded
  <2>2. CASE UserStep
    BY <2>1, <2>2, UserSettles
  <2>3. CASE \E t \in Tabs : TabStep(t)
    BY <2>1, <2>3, TabSettles
  <2>4. ASSUME UNCHANGED tabs, NEW r \in RunSlots, RunStep(r) \/ RunFault(r) PROVE Loses(i)
    BY <2>1, <2>4, RunSettles
  <2>5. ASSUME UNCHANGED tabs, NEW r \in RunSlots, RunLost(r) PROVE Loses(i)
    <3>1. CASE Unreported(r, i)
      BY <2>5, <3>1 DEF Loses
    <3>2. CASE ~ Unreported(r, i)
      <4>1. UNCHANGED inv /\ \A t \in Tabs : Holds(t, i) => Holds(t, i)'
        BY <2>5 DEF RunLost, Holds
      <4>2. \A s \in RunSlots : Unreported(s, i) => Unreported(s, i)'
        BY <2>5, <3>2 DEF RunLost, Unreported, Pending, IInv, TypeOK
      <4> QED
        BY <2>1, <4>1, <4>2, NobodyLeaves
    <3> QED
      BY <3>1, <3>2
  <2> QED
    BY <2>2, <2>3, <2>4, <2>5 DEF DashboardNext
<1> QED
  BY <1>3, <1>4, <1>5, DashboardTyped, PTL DEF DashboardSpec, OnlyLossStrands

=============================================================================
