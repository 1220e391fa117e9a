------------------------- MODULE MCTruelineInvoices -------------------------
EXTENDS TruelineInvoices, TLC

CONSTANTS Bracket, Fee, o1, o2, i1, i2, r1, r2, Demo

MCItems == {Bracket, Fee}
MCOrgs == {o1, o2}
MCOneInvoice == {i1}
MCRunSlots == {r1, r2}
MCDemoNumbers == {Demo}

\* The parameters are not named after fields: TLC orders the fields of a record
\* by the first use of their names, and its workers share the readings, so a
\* literal written in that order is never rearranged under another worker.
Line(item, n, each) ==
    [sku |-> item, desc |-> NoItem, qty |-> n, price |-> each, ext |-> n * each,
     sure |-> TRUE]

MCCatalog == [item \in MCItems |-> IF item = Bracket THEN 100 ELSE NoPrice]
MCDemoList == MCCatalog
\* A text may be read as two lines, and not at all.
MCReadings == {<<>>, <<Line(Bracket, 2, 100), Line(Fee, 1, 50)>>}
MCDemoReading == (Demo :> <<Line(Bracket, 3, 110)>>)
MCCorrections == {100}
MCQuantities == {1}
MCNone == {}

\* Neither tenants nor runs are told apart by their names.
MCSymmetry == Permutations(MCOrgs) \cup Permutations(MCRunSlots)
=============================================================================
