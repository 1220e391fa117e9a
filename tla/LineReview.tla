------------------------------ MODULE LineReview ------------------------------
(***************************************************************************)
(* One invoice line from its reconciliation through any number of          *)
(* corrections, against every purchase order and catalog: the decision of  *)
(* Reconcile checked over all bounded inputs, and what an estimator's      *)
(* correction may do to it.                                                *)
(***************************************************************************)
EXTENDS Reconcile

CONSTANTS Lists,        \* the purchase orders and catalogs that are tried
          Readings,     \* the lines that are tried
          Corrections,  \* the unit prices an estimator may enter
          Quantities    \* the quantities an estimator may enter

ASSUME LineReviewAssumption ==
    /\ Lists \subseteq PriceLists
    /\ Readings \subseteq ReadLines
    /\ Corrections \subseteq Prices
    /\ Quantities \subseteq Nat

VARIABLES pos,      \* the tenant's purchase orders, in database order
          list,     \* the tenant's catalog
          line,     \* what was read, with the corrections made since
          verdict   \* what reconcileLine said of it
vars == <<pos, list, line, verdict>>

TypeOK ==
    /\ pos \in Seq(PriceLists)
    /\ list \in PriceLists
    /\ line \in ReadLines
    /\ verdict \in Verdicts

Init ==
    /\ pos \in UNION {[1..n -> Lists] : n \in 0..2}
    /\ list \in Lists
    /\ line \in Readings
    /\ verdict = ReconcileLine(line, pos, list, NoPrice)

\* Slips: the printed extension is kept; the engine is asked about the
\* quantity that was read, the entered one is stored.
CorrectKeepsExtension(price, qty) ==
    /\ line' = [line EXCEPT !.price = price, !.qty = qty]
    /\ verdict' = ReconcileLine(line', pos, list, price)
    /\ UNCHANGED <<pos, list>>
CorrectClaimsOldQuantity(price, qty) ==
    /\ line' = [line EXCEPT !.price = price, !.qty = qty, !.ext = qty * price]
    /\ verdict' = ReconcileLine([line EXCEPT !.price = price, !.ext = line.qty * price],
                                pos, list, price)
    /\ UNCHANGED <<pos, list>>

\* correctLine: the price and the quantity are the entered ones, the extension
\* is recomputed from them, the line reconciled again with the entered price
\* as the accepted rate.
Correct(price, qty) ==
    /\ line' = [line EXCEPT !.price = price, !.qty = qty, !.ext = qty * price]
    /\ verdict' = ReconcileLine(line', pos, list, price)
    /\ UNCHANGED <<pos, list>>

\* The quantity is optional: without one the line keeps its own.
Next == \E price \in Corrections, qty \in {line.qty} \cup Quantities : Correct(price, qty)

Spec == Init /\ [][Next]_vars

----------------------------------------------------------------------------
Severity(flag) == CASE flag = "green" -> 0 [] flag = "yellow" -> 1 [] flag = "red" -> 2

Baselines == {verdict.po, verdict.catalog} \ {NoPrice}

\* A line the engine calls green overstates no positive baseline by more than
\* 3%: what is recoverable on it is at most 3% of what it should have cost.
\* reconcile.ts flags on the worst variance but computes the recoverable
\* amount from the lower baseline, so the two must agree.
GreenIsCheap ==
    verdict.flag = "green" /\ Baselines # {} /\ 0 \notin Baselines =>
        \A base \in Baselines : verdict.recoverable * 100 <= 3 * base * line.qty

\* A dispute is never raised without a cause: red means a wrong extension or
\* a price above some baseline, and then the overcharge is recoverable.
RedHasCause ==
    verdict.flag = "red" /\ verdict.mathOk /\ line.qty > 0 => verdict.recoverable > 0

\* Correcting to a lower positive price never makes a line look worse, whatever
\* was wrong with the line before and whatever quantity is entered with it: the
\* flag does not escalate, the amount claimed for each unit does not grow, and
\* the claim grows only if the quantity does.
CorrectingDownNeverEscalates ==
    [][line'.price \in 1..line.price =>
         /\ Severity(verdict'.flag) <= Severity(verdict.flag)
         /\ verdict'.recoverable * line.qty <= verdict.recoverable * line'.qty
         /\ line'.qty <= line.qty => verdict'.recoverable <= verdict.recoverable]_vars

\* Correcting to the lowest baseline settles a legible line, whatever the
\* quantity entered with it.
CorrectingToBenchmarkSettles ==
    [][/\ line'.price = Benchmark(verdict.po, verdict.catalog)
       /\ line'.price > 0
       /\ line.sure
       => verdict'.flag = "green" /\ verdict'.recoverable = 0]_vars
=============================================================================
