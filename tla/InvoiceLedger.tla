----------------------------- MODULE InvoiceLedger -----------------------------
(***************************************************************************)
(* What trueline's invoice store promises, whoever calls it in whatever    *)
(* order: an invoice is opened once, holds line items only from the moment *)
(* its extraction is settled until it is erased, never waits for an        *)
(* extraction again, and once erased never comes back.                     *)
(***************************************************************************)
CONSTANT Invoices

VARIABLES phase,   \* where each invoice id is in its life
          holding  \* the invoices that have line items
ledger == <<phase, holding>>

Phases == {"absent", "awaiting", "settled", "erased"}
Alive(i) == phase[i] \in {"awaiting", "settled"}

Init ==
    /\ phase = [i \in Invoices |-> "absent"]
    /\ holding = {}

Open(i) ==
    /\ phase[i] = "absent"
    /\ phase' = [phase EXCEPT ![i] = "awaiting"]
    /\ UNCHANGED holding

\* Invoices that enter the store already extracted.
Import(S) ==
    /\ \A i \in S : phase[i] = "absent"
    /\ phase' = [i \in Invoices |-> IF i \in S THEN "settled" ELSE phase[i]]
    /\ \E filled \in SUBSET S : holding' = holding \cup filled

\* An extraction, an error or a reviewer settles the invoice; its line items
\* are replaced as a whole.
Settle(i) ==
    /\ Alive(i)
    /\ phase' = [phase EXCEPT ![i] = "settled"]
    /\ holding' \in {holding, holding \cup {i}, holding \ {i}}

Erase(S) ==
    /\ \A i \in S : Alive(i)
    /\ phase' = [i \in Invoices |-> IF i \in S THEN "erased" ELSE phase[i]]
    /\ holding' = holding \ S

Next ==
    \/ \E i \in Invoices : Open(i) \/ Settle(i)
    \/ \E S \in SUBSET Invoices : Import(S) \/ Erase(S)

Spec == Init /\ [][Next]_ledger
=============================================================================
