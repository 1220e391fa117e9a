--------------------------- MODULE LineReviewProofs ---------------------------
(***************************************************************************)
(* The engine's guarantees on one line, for any prices, quantities, number *)
(* of purchase orders and sequence of corrections.                         *)
(***************************************************************************)
EXTENDS LineReview, ReconcileProofs

USE LineReviewAssumption

\* The verdict on screen is the engine's answer for the line on screen.
Current == \E accepted \in Int : verdict = ReconcileLine(line, pos, list, accepted)

IInv == TypeOK /\ Current

LEMMA InitIInv == Init => IInv
<1> SUFFICES ASSUME Init PROVE IInv
  OBVIOUS
<1>1. pos \in Seq(PriceLists)
  <2>1. PICK n \in 0..2 : pos \in [1..n -> Lists]
    BY DEF Init
  <2> QED
    BY <2>1
<1>2. list \in PriceLists /\ line \in ReadLines
  BY DEF Init
<1>3. NoPrice \in Int
  BY DEF NoPrice
<1>4. verdict = ReconcileLine(line, pos, list, NoPrice)
  BY DEF Init
<1> QED
  BY <1>1, <1>2, <1>3, <1>4, ReconcileLineType DEF IInv, TypeOK, Current

\* A corrected line is again a line, and its verdict is made anew.
LEMMA CorrectIInv ==
    ASSUME IInv, NEW price \in Corrections, NEW qty \in {line.qty} \cup Quantities,
           Correct(price, qty)
    PROVE  IInv'
<1>1. pos \in Seq(PriceLists) /\ list \in PriceLists /\ line \in ReadLines
  BY DEF IInv, TypeOK
<1>2. price \in Nat /\ qty \in Nat
  BY <1>1 DEF Prices, ReadLines
<1>3. qty * price \in Nat
  <2>1. \A m, n \in Nat : m * n \in Nat
    OBVIOUS
  <2> QED
    BY <1>2, <2>1
<1>4. line' \in ReadLines
  BY <1>1, <1>2, <1>3 DEF Correct, ReadLines, Prices
<1>5. verdict' = ReconcileLine(line', pos, list, price) /\ pos' = pos /\ list' = list
  BY DEF Correct
<1> QED
  BY <1>1, <1>2, <1>4, <1>5, ReconcileLineType DEF IInv, TypeOK, Current

\* The engine's answers are well typed through any corrections, and always
\* the engine's answer for the line they stand next to.
THEOREM LineReviewIInv == Spec => []IInv
<1>1. Init => IInv
  BY InitIInv
<1>2. IInv /\ [Next]_vars => IInv'
  <2> SUFFICES ASSUME IInv, [Next]_vars PROVE IInv'
    OBVIOUS
  <2>1. CASE Next
    BY <2>1, CorrectIInv DEF Next
  <2>2. CASE UNCHANGED vars
    BY <2>2 DEF IInv, TypeOK, Current, vars
  <2> QED
    BY <2>1, <2>2
<1> QED
  BY <1>1, <1>2, PTL DEF Spec

\* The type invariant, for any lists, lines and corrections.
THEOREM LineReviewTypeOK == Spec => []TypeOK
<1>1. IInv => TypeOK
  BY DEF IInv
<1> QED
  BY <1>1, LineReviewIInv, PTL

\* The flag is decided on the worst variance and the amount on the lower
\* baseline (reconcile.ts:143-177): for every line, purchase order and catalog
\* they agree that a green line is within 3% of what it should have cost.
THEOREM GreenLinesAreCheap == Spec => []GreenIsCheap
<1>1. IInv => GreenIsCheap
  <2> SUFFICES ASSUME IInv, verdict.flag = "green", 0 \notin Baselines,
                      NEW base \in Baselines
               PROVE  verdict.recoverable * 100 <= 3 * base * line.qty
    BY DEF GreenIsCheap
  <2>1. PICK accepted \in Int : verdict = ReconcileLine(line, pos, list, accepted)
    BY DEF IInv, Current
  <2> QED
    BY <2>1, GreenVerdict DEF IInv, TypeOK, Baselines
<1> QED
  BY <1>1, LineReviewIInv, PTL

\* A line is not flagged red without an arithmetic error or an amount to claim
\* back (reconcile.ts:143-177), whatever the lists hold.
THEOREM RedLinesHaveCause == Spec => []RedHasCause
<1>1. IInv => RedHasCause
  <2> SUFFICES ASSUME IInv, verdict.flag = "red", verdict.mathOk, line.qty > 0
               PROVE  verdict.recoverable > 0
    BY DEF RedHasCause
  <2>1. PICK accepted \in Int : verdict = ReconcileLine(line, pos, list, accepted)
    BY DEF IInv, Current
  <2> QED
    BY <2>1, RedVerdict DEF IInv, TypeOK
<1> QED
  BY <1>1, LineReviewIInv, PTL

-----------------------------------------------------------------------------
(* What a correction may do to the verdict.                                *)

\* Lowering a price takes no variance over a threshold it was not over.
LEMMA OverIsMonotone ==
    ASSUME NEW p \in Nat, NEW q \in Nat, p <= q, NEW base \in Prices \cup {NoPrice},
           NEW pct \in Nat, Over(p, base, pct)
    PROVE  Over(q, base, pct)
BY DEF Over, Prices, NoPrice

\* A price at or under a baseline is not over it.
LEMMA AtMostTheBaseline ==
    ASSUME NEW p \in Nat, NEW base \in Prices \cup {NoPrice}, base # NoPrice => p <= base,
           NEW pct \in Nat
    PROVE  ~ Over(p, base, pct)
<1> SUFFICES ASSUME base \in Nat, base > 0 PROVE ~ ((p - base) * 100 > pct * base)
  BY DEF Over, Prices, NoPrice
<1>1. p <= base
  BY DEF NoPrice
<1>2. (p - base) * 100 <= 0
  BY <1>1
<1>3. \A m, n \in Nat : 0 <= m * n
  OBVIOUS
<1>4. 0 <= pct * base
  BY <1>3
<1> QED
  BY <1>2, <1>4

\* correctLine's part of a step: the line is found under the same key, its
\* extension agrees with its price, and the engine answers for it.
LEMMA CorrectionFacts ==
    ASSUME IInv, NEW price \in Corrections, NEW qty \in {line.qty} \cup Quantities,
           Correct(price, qty)
    PROVE  /\ line \in ReadLines /\ line' \in ReadLines /\ price \in Nat
           /\ line'.price = price /\ line'.sure = line.sure
           /\ MathOk(line')
           /\ verdict' = ReconcileLine(line', pos, list, price)
           /\ PoPrice(pos, line') = PoPrice(pos, line)
           /\ CatalogPrice(list, line') = CatalogPrice(list, line)
           /\ PoPrice(pos, line) \in Prices \cup {NoPrice}
           /\ CatalogPrice(list, line) \in Prices \cup {NoPrice}
<1>1. /\ pos \in Seq(PriceLists) /\ list \in PriceLists /\ line \in ReadLines
      /\ price \in Nat /\ qty \in Nat
  BY DEF IInv, TypeOK, Prices, ReadLines
<1>2. PICK ext : ext = qty * price
  OBVIOUS
<1>3. ext \in Nat
  <2>1. \A m, n \in Nat : m * n \in Nat
    OBVIOUS
  <2> QED
    BY <1>1, <1>2, <2>1
<1>4. line' = [line EXCEPT !.price = price, !.qty = qty, !.ext = ext]
  BY <1>2 DEF Correct
<1>5. /\ line' \in ReadLines
      /\ line'.price = price /\ line'.ext = ext
      /\ line'.qty = qty /\ line'.sure = line.sure
      /\ line'.sku = line.sku /\ line'.desc = line.desc
  BY <1>1, <1>3, <1>4 DEF ReadLines, Prices
<1>6. line'.qty * line'.price = line'.ext
  BY <1>2, <1>5
<1>7. MathOk(line')
  BY <1>3, <1>5, <1>6 DEF MathOk
<1>8. Key(line') = Key(line)
  BY <1>5 DEF Key
<1>9. PoPrice(pos, line') = PoPrice(pos, line) /\ CatalogPrice(list, line') = CatalogPrice(list, line)
  BY <1>8 DEF PoPrice, CatalogPrice
<1>10. PoPrice(pos, line) \in Prices \cup {NoPrice} /\ CatalogPrice(list, line) \in Prices \cup {NoPrice}
  BY <1>1, PoPriceType, CatalogPriceType
<1> QED
  BY <1>1, <1>5, <1>7, <1>9, <1>10 DEF Correct

\* An entered rate is at least a manual match: a corrected line is never
\* unmatched.
LEMMA CorrectedIsMatched ==
    ASSUME NEW l, NEW po, NEW accepted \in Nat, accepted > 0
    PROVE  MatchedBy(l, po, accepted) # "none"
BY DEF MatchedBy

\* What one unit is overcharged by.
Overcharge(price, base) == IF base # NoPrice /\ price > base THEN price - base ELSE 0

LEMMA OverchargeFacts ==
    ASSUME NEW l \in ReadLines, NEW base \in Prices \cup {NoPrice}
    PROVE  /\ Overcharge(l.price, base) \in Nat
           /\ Recoverable(l, base) = Overcharge(l.price, base) * l.qty
<1>1. l.price \in Nat /\ l.qty \in Nat /\ (base \in Nat \/ base = NoPrice)
  BY DEF ReadLines, Prices
<1>2. \A q \in Nat : 0 * q = 0
  OBVIOUS
<1>3. CASE base # NoPrice /\ l.price > base
  BY <1>1, <1>3 DEF Overcharge, Recoverable
<1>4. CASE ~ (base # NoPrice /\ l.price > base)
  BY <1>1, <1>2, <1>4 DEF Overcharge, Recoverable
<1> QED
  BY <1>3, <1>4

\* The claim for each unit shrinks with the price, and the claim with it unless
\* there are more units.
LEMMA RecoverableIsMonotone ==
    ASSUME NEW l \in ReadLines, NEW m \in ReadLines, m.price <= l.price,
           NEW base \in Prices \cup {NoPrice}
    PROVE  /\ Recoverable(m, base) * l.qty <= Recoverable(l, base) * m.qty
           /\ m.qty <= l.qty => Recoverable(m, base) <= Recoverable(l, base)
<1>1. l.price \in Nat /\ m.price \in Nat /\ l.qty \in Nat /\ m.qty \in Nat
  BY DEF ReadLines, Prices
<1> DEFINE u == Overcharge(m.price, base)
           v == Overcharge(l.price, base)
<1>2. /\ u \in Nat /\ Recoverable(m, base) = u * m.qty
      /\ v \in Nat /\ Recoverable(l, base) = v * l.qty
  BY OverchargeFacts
<1>3. u <= v
  BY <1>1 DEF Overcharge, Prices
<1> HIDE DEF u, v
<1>4. \A a, b, p, q \in Nat : a <= b => (a * q) * p <= (b * p) * q
  <2> SUFFICES ASSUME NEW a \in Nat, NEW b \in Nat, NEW p \in Nat, NEW q \in Nat, a <= b
               PROVE  (a * q) * p <= (b * p) * q
    OBVIOUS
  <2>1. q * p \in Nat
    OBVIOUS
  <2>2. a * (q * p) <= b * (q * p)
    BY <2>1, Scale
  <2>3. (a * q) * p = a * (q * p) /\ (b * p) * q = b * (q * p)
    OBVIOUS
  <2> QED
    BY <2>2, <2>3
<1>5. \A a, b, p, q \in Nat : a <= b /\ q <= p => a * q <= b * p
  <2> SUFFICES ASSUME NEW a \in Nat, NEW b \in Nat, NEW p \in Nat, NEW q \in Nat, a <= b, q <= p
               PROVE  a * q <= b * p
    OBVIOUS
  <2>1. a * q <= b * q
    BY Scale
  <2>2. q * b <= p * b
    BY Scale
  <2>3. b * q = q * b /\ b * p = p * b
    OBVIOUS
  <2>4. a * q \in Int /\ b * q \in Int /\ b * p \in Int
    OBVIOUS
  <2> QED
    BY <2>1, <2>2, <2>3, <2>4
<1>6. (u * m.qty) * l.qty <= (v * l.qty) * m.qty
  BY <1>1, <1>2, <1>3, <1>4
<1>7. m.qty <= l.qty => u * m.qty <= v * l.qty
  BY <1>1, <1>2, <1>3, <1>5
<1> QED
  BY <1>2, <1>6, <1>7

LEMMA SeverityOrder ==
    /\ Severity("green") = 0 /\ Severity("yellow") = 1 /\ Severity("red") = 2
BY DEF Severity

\* One correction to a lower positive price.
LEMMA CorrectDownStep ==
    ASSUME IInv, NEW price \in Corrections, NEW qty \in {line.qty} \cup Quantities,
           Correct(price, qty), line'.price \in 1..line.price
    PROVE  /\ Severity(verdict'.flag) <= Severity(verdict.flag)
           /\ verdict'.recoverable * line.qty <= verdict.recoverable * line'.qty
           /\ line'.qty <= line.qty => verdict'.recoverable <= verdict.recoverable
<1> DEFINE po == PoPrice(pos, line)
           cat == CatalogPrice(list, line)
<1>1. PICK accepted \in Int : verdict = ReconcileLine(line, pos, list, accepted)
  BY DEF IInv, Current
<1>2. PICK old : old = MatchedBy(line, po, accepted)
  OBVIOUS
<1>3. PICK new : new = MatchedBy(line', po, price)
  OBVIOUS
<1>4. /\ line \in ReadLines /\ line' \in ReadLines /\ price \in Nat
      /\ line'.price = price /\ line'.sure = line.sure
      /\ MathOk(line')
      /\ verdict' = ReconcileLine(line', pos, list, price)
      /\ PoPrice(pos, line') = po /\ CatalogPrice(list, line') = cat
      /\ po \in Prices \cup {NoPrice} /\ cat \in Prices \cup {NoPrice}
  BY CorrectionFacts
<1>5. /\ verdict.flag = FlagOf(line, po, cat, old)
      /\ verdict.recoverable = Recoverable(line, Benchmark(po, cat))
  BY <1>1, <1>2 DEF ReconcileLine
<1>6. /\ verdict'.flag = FlagOf(line', po, cat, new)
      /\ verdict'.recoverable = Recoverable(line', Benchmark(po, cat))
  BY <1>3, <1>4 DEF ReconcileLine
<1>7. new # "none"
  BY <1>3, <1>4, CorrectedIsMatched
<1> HIDE DEF po, cat
<1>8. line.price \in Nat /\ line'.price \in Nat /\ line'.price <= line.price
  BY <1>4 DEF ReadLines, Prices
<1>9. /\ verdict'.recoverable * line.qty <= verdict.recoverable * line'.qty
      /\ line'.qty <= line.qty => verdict'.recoverable <= verdict.recoverable
  <2>1. PICK base \in Prices \cup {NoPrice} : base = Benchmark(po, cat)
    BY <1>4, BenchmarkType
  <2>2. PICK l \in ReadLines, m \in ReadLines : l = line /\ m = line'
    BY <1>4
  <2>3. /\ Recoverable(m, base) * l.qty <= Recoverable(l, base) * m.qty
        /\ m.qty <= l.qty => Recoverable(m, base) <= Recoverable(l, base)
    BY <1>8, <2>2, RecoverableIsMonotone
  <2> QED
    BY <1>5, <1>6, <2>1, <2>2, <2>3
<1>10. \A base \in {po, cat}, pct \in {3, 10} :
           Over(line'.price, base, pct) => Over(line.price, base, pct)
  BY <1>4, <1>8, OverIsMonotone
<1>11. CASE verdict'.flag = "red"
  <2>1. Over(line'.price, po, 10) \/ Over(line'.price, cat, 10)
    BY <1>4, <1>6, <1>11 DEF FlagOf
  <2>2. Over(line.price, po, 10) \/ Over(line.price, cat, 10)
    BY <1>10, <2>1
  <2>3. verdict.flag = "red"
    BY <1>5, <2>2 DEF FlagOf
  <2> QED
    BY <1>9, <1>11, <2>3, SeverityOrder
<1>12. CASE verdict'.flag = "yellow"
  <2>1. ~ line.sure \/ Over(line'.price, po, 3) \/ Over(line'.price, cat, 3)
    BY <1>4, <1>6, <1>7, <1>12 DEF FlagOf
  <2>2. ~ line.sure \/ Over(line.price, po, 3) \/ Over(line.price, cat, 3)
    BY <1>10, <2>1
  <2>3. verdict.flag \in {"red", "yellow"}
    BY <1>5, <2>2 DEF FlagOf
  <2> QED
    BY <1>9, <1>12, <2>3, SeverityOrder
<1>13. CASE verdict'.flag = "green"
  <2>1. verdict.flag \in {"red", "yellow", "green"}
    BY <1>5 DEF FlagOf
  <2> QED
    BY <1>9, <1>13, <2>1, SeverityOrder
<1>14. verdict'.flag \in {"red", "yellow", "green"}
  BY <1>6 DEF FlagOf
<1> QED
  BY <1>9, <1>11, <1>12, <1>13, <1>14

\* correctLine (invoices.ts:491-536) to a lower positive price, with or without
\* a quantity: for every line, list and rate the flag does not escalate, the
\* claim per unit does not grow, nor the claim unless the quantity does.
THEOREM CorrectionsDownNeverEscalate == Spec => CorrectingDownNeverEscalates
<1>1. IInv /\ [Next]_vars =>
        [line'.price \in 1..line.price =>
           /\ Severity(verdict'.flag) <= Severity(verdict.flag)
           /\ verdict'.recoverable * line.qty <= verdict.recoverable * line'.qty
           /\ line'.qty <= line.qty => verdict'.recoverable <= verdict.recoverable]_vars
  BY CorrectDownStep DEF Next
<1> QED
  BY <1>1, LineReviewIInv, PTL DEF Spec, CorrectingDownNeverEscalates

\* One correction to the lowest baseline.
LEMMA CorrectToBenchmarkStep ==
    ASSUME IInv, NEW price \in Corrections, NEW qty \in {line.qty} \cup Quantities,
           Correct(price, qty), line'.price = Benchmark(verdict.po, verdict.catalog),
           line'.price > 0, line.sure
    PROVE  verdict'.flag = "green" /\ verdict'.recoverable = 0
<1> DEFINE po == PoPrice(pos, line)
           cat == CatalogPrice(list, line)
<1>1. PICK accepted \in Int : verdict = ReconcileLine(line, pos, list, accepted)
  BY DEF IInv, Current
<1>2. verdict.po = po /\ verdict.catalog = cat
  BY <1>1 DEF ReconcileLine
<1>3. PICK new : new = MatchedBy(line', po, price)
  OBVIOUS
<1>4. /\ line' \in ReadLines /\ price \in Nat
      /\ line'.price = price /\ line'.sure = line.sure
      /\ MathOk(line')
      /\ verdict' = ReconcileLine(line', pos, list, price)
      /\ PoPrice(pos, line') = po /\ CatalogPrice(list, line') = cat
      /\ po \in Prices \cup {NoPrice} /\ cat \in Prices \cup {NoPrice}
  BY CorrectionFacts
<1>5. /\ verdict'.flag = FlagOf(line', po, cat, new)
      /\ verdict'.recoverable = Recoverable(line', Benchmark(po, cat))
  BY <1>3, <1>4 DEF ReconcileLine
<1>6. new # "none"
  BY <1>3, <1>4, CorrectedIsMatched
<1> HIDE DEF po, cat
<1>7. line'.price = Benchmark(po, cat)
  BY <1>2
<1>8. \A base \in {po, cat} : base # NoPrice => line'.price <= base
  BY <1>4, <1>7 DEF Benchmark, Prices, NoPrice
<1>9. \A base \in {po, cat}, pct \in {3, 10} : ~ Over(line'.price, base, pct)
  BY <1>4, <1>8, AtMostTheBaseline
<1>10. verdict'.flag = "green"
  BY <1>4, <1>5, <1>6, <1>9 DEF FlagOf
<1>11. verdict'.recoverable = 0
  BY <1>4, <1>5, <1>7 DEF Recoverable, Prices
<1> QED
  BY <1>10, <1>11

\* A legible line that is corrected to the lowest price it was agreed at is
\* settled, whatever was wrong with it (reconcile.ts:143-177).
THEOREM CorrectionsToBenchmarkSettle == Spec => CorrectingToBenchmarkSettles
<1>1. IInv /\ [Next]_vars =>
        [/\ line'.price = Benchmark(verdict.po, verdict.catalog)
         /\ line'.price > 0
         /\ line.sure
         => verdict'.flag = "green" /\ verdict'.recoverable = 0]_vars
  BY CorrectToBenchmarkStep DEF Next
<1> QED
  BY <1>1, LineReviewIInv, PTL DEF Spec, CorrectingToBenchmarkSettles
=============================================================================
