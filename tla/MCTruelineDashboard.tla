------------------------- MODULE MCTruelineDashboard -------------------------
EXTENDS TruelineDashboard, TLC

CONSTANTS Bracket, o1, i1, i2, i3, r1, r2, t1, t2, Demo, Demo2, Own

MCItems == {Bracket}
MCOrgs == {o1}
MCInvoices == {i1, i2}
MCRunSlots == {r1, r2}
MCOneRun == {r1}
MCOneTab == {t1}
MCTabs == {t1, t2}
MCTabOrg == [t \in Tabs |-> o1]
MCNumbers == {Demo, Own}
MCDemoNumbers == {Demo}
MCNone == {}

\* Neither tabs nor invoice ids are told apart by their names.
MCSymmetry == Permutations(MCTabs) \cup Permutations(MCInvoices)

\* The parameters are not named after fields: TLC orders the fields of a record
\* by the first use of their names, and its workers share the readings, so a
\* literal written in that order is never rearranged under another worker.
Line(item, n, each) ==
    [sku |-> item, desc |-> NoItem, qty |-> n, price |-> each, ext |-> n * each,
     sure |-> TRUE]

MCCatalog == [item \in MCItems |-> 100]
MCDemoReading == [n \in DemoNumbers |-> <<Line(Bracket, 3, 110)>>]
MCReadings == {<<>>, <<Line(Bracket, 1, 120)>>}
MCLists == {[item \in MCItems |-> 80]}
MCCorrections == {100}
MCQuantities == {2}
=============================================================================
