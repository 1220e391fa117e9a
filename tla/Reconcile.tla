------------------------------ MODULE Reconcile ------------------------------
(***************************************************************************)
(* The deterministic decision of trueline: what reconcileLine says of one  *)
(* extracted invoice line, given the tenant's purchase orders and catalog. *)
(* Prices are integers of cents and the arithmetic is exact, where the     *)
(* code works on floating-point dollars rounded to cents.  A description   *)
(* is abstracted to `desc', the listed item it resembles most (a token     *)
(* overlap of at least FUZZY_MIN), NoItem when it resembles none.          *)
(***************************************************************************)
EXTENDS Integers, Sequences, FiniteSets

CONSTANTS Items,   \* the things a purchase order or the catalog can list
          NoItem   \* an absent sku, a description that resembles nothing

ASSUME NoItemAssumption == NoItem \notin Items

NoPrice == -1      \* `undefined': the item is not listed

Prices == Nat
PriceLists == [Items -> Prices \cup {NoPrice}]

\* What the model read: schema.ts `what the LLM read'.
ReadLines == [sku : Items \cup {NoItem}, desc : Items \cup {NoItem}, qty : Nat,
              price : Prices, ext : Nat, sure : BOOLEAN]

Flags == {"green", "yellow", "red"}
Matches == {"sku", "description", "manual", "none"}

\* What deterministic code decides: ReconciledFields.
Verdicts == [mathOk : BOOLEAN, po : Prices \cup {NoPrice},
             catalog : Prices \cup {NoPrice}, matchedBy : Matches,
             flag : Flags, recoverable : Nat]

\* The item to look up: the sku, and the description only without a sku.
Key(line) == IF line.sku # NoItem THEN line.sku ELSE line.desc

Listed(list, item) == item # NoItem /\ list[item] # NoPrice

CatalogPrice(list, line) ==
    IF Listed(list, Key(line)) THEN list[Key(line)] ELSE NoPrice

\* The tenant's purchase orders are flattened and the first listing wins.
PoPrice(pos, line) ==
    LET hits == {k \in 1..Len(pos) : Listed(pos[k], Key(line))}
    IN  IF hits = {} THEN NoPrice
        ELSE pos[CHOOSE k \in hits : \A j \in hits : k <= j][Key(line)]

MatchedBy(line, poPrice, accepted) ==
    CASE poPrice # NoPrice /\ line.sku # NoItem -> "sku"
      [] poPrice # NoPrice /\ line.sku = NoItem -> "description"
      [] poPrice = NoPrice /\ accepted > 0      -> "manual"
      [] poPrice = NoPrice /\ accepted <= 0     -> "none"

\* Over a baseline by more than pct per cent; a baseline that is missing or
\* zero has no variance.
Over(price, base, pct) == base > 0 /\ (price - base) * 100 > pct * base

\* The half cent added to MATH_TOL makes no difference to whole cents.
MathOk(line) ==
    LET computed == line.qty * line.price
    IN  computed - line.ext <= 1 /\ line.ext - computed <= 1

\* Slips: only the purchase order's variance counts; a line the reviewer
\* accepted is still called unmatched.
FlagByOrderOnly(line, poPrice, catPrice, matchedBy) ==
    IF ~MathOk(line) \/ Over(line.price, poPrice, 10) THEN "red"
    ELSE IF matchedBy = "none" \/ ~line.sure \/ Over(line.price, poPrice, 3) THEN "yellow"
    ELSE "green"
FlagManualYellow(line, poPrice, catPrice, matchedBy) ==
    IF matchedBy = "manual" THEN "yellow" ELSE FlagByOrderOnly(line, poPrice, catPrice, matchedBy)

FlagOf(line, poPrice, catPrice, matchedBy) ==
    LET over(pct) == Over(line.price, poPrice, pct) \/ Over(line.price, catPrice, pct)
    IN  IF ~MathOk(line) \/ over(10) THEN "red"
        ELSE IF matchedBy = "none" \/ ~line.sure \/ over(3) THEN "yellow"
        ELSE "green"

\* A slip: the purchase order always wins over the catalog.
BenchmarkOrderFirst(poPrice, catPrice) ==
    IF poPrice = NoPrice THEN catPrice ELSE poPrice

\* The lower of the listed baselines, NoPrice when neither is.
Benchmark(poPrice, catPrice) ==
    IF poPrice = NoPrice THEN catPrice
    ELSE IF catPrice = NoPrice \/ poPrice <= catPrice THEN poPrice
    ELSE catPrice

Recoverable(line, benchmark) ==
    IF benchmark # NoPrice /\ line.price > benchmark
    THEN (line.price - benchmark) * line.qty
    ELSE 0

\* accepted is the rate a reviewer entered, NoPrice outside a correction.
ReconcileLine(line, pos, list, accepted) ==
    LET poPrice   == PoPrice(pos, line)
        catPrice  == CatalogPrice(list, line)
        matchedBy == MatchedBy(line, poPrice, accepted)
    IN  [mathOk      |-> MathOk(line),
         po          |-> poPrice,
         catalog     |-> catPrice,
         matchedBy   |-> matchedBy,
         flag        |-> FlagOf(line, poPrice, catPrice, matchedBy),
         recoverable |-> Recoverable(line, Benchmark(poPrice, catPrice))]
=============================================================================
