---------------------------- MODULE MCLineReview ----------------------------
EXTENDS LineReview

CONSTANTS Bracket, Cable

\* Cents around the 3% and 10% thresholds of a 100-cent rate; 104 and 120
\* pull the purchase order and the catalog apart.
MCPrices == {0, 100, 120}
MCItems == {Bracket, Cable}
MCLists == {f \in [MCItems -> {NoPrice, 0, 100, 120}] : f[Cable] \in {NoPrice, 100}}
MCReadings ==
    {[sku |-> k[1], desc |-> k[2], qty |-> 10, price |-> p, ext |-> 10 * p + e, sure |-> s] :
        k \in {<<Bracket, Cable>>, <<NoItem, Bracket>>, <<NoItem, NoItem>>},
        p \in {90, 103, 104, 111}, e \in {0, 1, 2}, s \in BOOLEAN}
MCCorrections == {0, 100, 103, 104, 111}
MCQuantities == {0, 4, 12}   \* none, fewer and more than the 10 that were read
=============================================================================
