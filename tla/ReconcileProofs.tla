--------------------------- MODULE ReconcileProofs ---------------------------
(***************************************************************************)
(* What reconcileLine guarantees for every line, every purchase order and  *)
(* every catalog.                                                          *)
(***************************************************************************)
EXTENDS Reconcile, NaturalFacts, TLAPS

\* A line's purchase-order price is a listed price or none.
LEMMA PoPriceType ==
    ASSUME NEW pos \in Seq(PriceLists), NEW line \in ReadLines
    PROVE  PoPrice(pos, line) \in Prices \cup {NoPrice}
<1> DEFINE hits == {k \in 1..Len(pos) : Listed(pos[k], Key(line))}
           first == CHOOSE k \in hits : \A j \in hits : k <= j
<1>1. CASE hits = {}
  BY <1>1 DEF PoPrice
<1>2. CASE hits # {}
  <2>1. hits \in SUBSET Nat
    OBVIOUS
  <2>2. first \in hits
    BY <1>2, <2>1, LeastElement
  <2>3. pos[first] \in PriceLists /\ Key(line) # NoItem
    BY <2>2 DEF Listed
  <2>4. Key(line) \in Items
    BY <2>3 DEF Key, ReadLines
  <2>5. pos[first][Key(line)] \in Prices \cup {NoPrice}
    BY <2>3, <2>4 DEF PriceLists
  <2> QED
    BY <1>2, <2>5 DEF PoPrice
<1> QED
  BY <1>1, <1>2

LEMMA CatalogPriceType ==
    ASSUME NEW list \in PriceLists, NEW line \in ReadLines
    PROVE  CatalogPrice(list, line) \in Prices \cup {NoPrice}
BY DEF CatalogPrice, Listed, Key, ReadLines, PriceLists

LEMMA BenchmarkType ==
    ASSUME NEW po \in Prices \cup {NoPrice}, NEW cat \in Prices \cup {NoPrice}
    PROVE  Benchmark(po, cat) \in Prices \cup {NoPrice}
BY DEF Benchmark

\* What is over the benchmark, times the quantity, is never negative.
LEMMA RecoverableType ==
    ASSUME NEW line \in ReadLines, NEW b \in Prices \cup {NoPrice}
    PROVE  Recoverable(line, b) \in Nat
<1>1. line.price \in Nat /\ line.qty \in Nat
  BY DEF ReadLines, Prices
<1>2. \A m, n \in Nat : m * n \in Nat
  OBVIOUS
<1>3. CASE b # NoPrice /\ line.price > b
  <2>1. line.price - b \in Nat
    BY <1>1, <1>3 DEF Prices, NoPrice
  <2> QED
    BY <1>1, <1>2, <1>3, <2>1 DEF Recoverable
<1> QED
  BY <1>3 DEF Recoverable

\* The verdict on any line has the fields schema.ts stores.
LEMMA ReconcileLineType ==
    ASSUME NEW line \in ReadLines, NEW pos \in Seq(PriceLists), NEW list \in PriceLists,
           NEW accepted \in Int
    PROVE  ReconcileLine(line, pos, list, accepted) \in Verdicts
<1> DEFINE po == PoPrice(pos, line)
           cat == CatalogPrice(list, line)
<1>1. po \in Prices \cup {NoPrice} /\ cat \in Prices \cup {NoPrice}
  BY PoPriceType, CatalogPriceType
<1>2. Recoverable(line, Benchmark(po, cat)) \in Nat
  BY <1>1, BenchmarkType, RecoverableType
<1>3. MatchedBy(line, po, accepted) \in Matches
  BY DEF MatchedBy, Matches
<1>4. FlagOf(line, po, cat, MatchedBy(line, po, accepted)) \in Flags
  BY DEF FlagOf, Flags
<1>5. MathOk(line) \in BOOLEAN
  BY DEF MathOk
<1> QED
  BY <1>1, <1>2, <1>3, <1>4, <1>5 DEF ReconcileLine, Verdicts

LEMMA Scale ==
    ASSUME NEW m \in Int, NEW n \in Int, NEW q \in Nat, m <= n
    PROVE  m * q <= n * q
OBVIOUS

\* A price that is not 3% over a positive baseline is recoverable for at most
\* 3% of any baseline that is no lower.
LEMMA WithinTolerance ==
    ASSUME NEW p \in Nat, NEW q \in Nat, NEW low \in Nat, NEW base \in Nat,
           low > 0, low <= base, ~ Over(p, low, 3)
    PROVE  ((p - low) * q) * 100 <= 3 * base * q
<1>1. (p - low) * 100 <= 3 * base
  BY DEF Over
<1>2. ((p - low) * 100) * q <= (3 * base) * q
  BY <1>1, Scale
<1>3. ((p - low) * q) * 100 = ((p - low) * 100) * q
  OBVIOUS
<1> QED
  BY <1>2, <1>3

\* The flag is decided on the worst variance, the amount on the lower baseline:
\* a green verdict claims at most 3% of any of its positive baselines.
LEMMA GreenVerdict ==
    ASSUME NEW line \in ReadLines, NEW pos \in Seq(PriceLists), NEW list \in PriceLists,
           NEW accepted \in Int, NEW verdict,
           verdict = ReconcileLine(line, pos, list, accepted),
           verdict.flag = "green", 0 \notin {verdict.po, verdict.catalog} \ {NoPrice},
           NEW base \in {verdict.po, verdict.catalog} \ {NoPrice}
    PROVE  verdict.recoverable * 100 <= 3 * base * line.qty
<1> DEFINE po == PoPrice(pos, line)
           cat == CatalogPrice(list, line)
           low == Benchmark(po, cat)
<1>1. po \in Prices \cup {NoPrice} /\ cat \in Prices \cup {NoPrice}
  BY PoPriceType, CatalogPriceType
<1>2. /\ verdict.po = po
      /\ verdict.catalog = cat
      /\ verdict.recoverable = Recoverable(line, low)
      /\ verdict.flag = FlagOf(line, po, cat, MatchedBy(line, po, accepted))
  BY DEF ReconcileLine
<1>3. line.price \in Nat /\ line.qty \in Nat
  BY DEF ReadLines, Prices
<1> HIDE DEF po, cat
<1>4. ~ Over(line.price, po, 3) /\ ~ Over(line.price, cat, 3)
  BY <1>2 DEF FlagOf
<1>5. base \in {po, cat} /\ base # NoPrice /\ 0 \notin {po, cat}
  BY <1>2 DEF NoPrice
<1>6. /\ low \in {po, cat}
      /\ low \in Nat /\ base \in Nat
      /\ low > 0 /\ low <= base
  BY <1>1, <1>5 DEF Benchmark, NoPrice, Prices
<1> HIDE DEF low
<1>7. ((line.price - low) * line.qty) * 100 <= 3 * base * line.qty
  <2>1. ~ Over(line.price, low, 3)
    BY <1>4, <1>6
  <2>2. line.price \in Nat /\ line.qty \in Nat /\ low \in Nat /\ base \in Nat /\ low > 0 /\ low <= base
    BY <1>3, <1>6
  <2> QED
    BY <2>1, <2>2, WithinTolerance, Zenon
<1>8. 0 <= 3 * base * line.qty
  <2>1. \A m, n \in Nat : 0 <= 3 * m * n
    OBVIOUS
  <2> QED
    BY <2>1, <1>3, <1>6
<1> QED
  BY <1>2, <1>7, <1>8 DEF Recoverable

\* A red verdict on right arithmetic has an amount to claim back.
LEMMA RedVerdict ==
    ASSUME NEW line \in ReadLines, NEW pos \in Seq(PriceLists), NEW list \in PriceLists,
           NEW accepted \in Int, NEW verdict,
           verdict = ReconcileLine(line, pos, list, accepted),
           verdict.flag = "red", verdict.mathOk, line.qty > 0
    PROVE  verdict.recoverable > 0
<1> DEFINE po == PoPrice(pos, line)
           cat == CatalogPrice(list, line)
           low == Benchmark(po, cat)
<1>1. po \in Prices \cup {NoPrice} /\ cat \in Prices \cup {NoPrice}
  BY PoPriceType, CatalogPriceType
<1>2. /\ verdict.mathOk = MathOk(line)
      /\ verdict.recoverable = Recoverable(line, low)
      /\ verdict.flag = FlagOf(line, po, cat, MatchedBy(line, po, accepted))
  BY DEF ReconcileLine
<1>3. line.price \in Nat /\ line.qty \in Nat
  BY DEF ReadLines, Prices
<1> HIDE DEF po, cat
<1>4. PICK base \in {po, cat} : Over(line.price, base, 10)
  BY <1>2 DEF FlagOf
<1>5. low # NoPrice /\ low \in Nat /\ low < line.price
  BY <1>1, <1>3, <1>4 DEF Over, Benchmark, NoPrice, Prices
<1> HIDE DEF low
<1>6. (line.price - low) * line.qty > 0
  <2>1. \A m, n \in Nat : m > 0 /\ n > 0 => m * n > 0
    OBVIOUS
  <2> QED
    BY <2>1, <1>3, <1>5
<1> QED
  BY <1>2, <1>5, <1>6, <1>3 DEF Recoverable
=============================================================================
