------------------------------- MODULE Pairing -------------------------------
(***************************************************************************)
(* What the user is promised of receipts and bank transactions: one is      *)
(* paired with the other at most once, and a pair that has been shown stays *)
(* (docs/gmail-receipt-enrichment.md:33 and :536).                          *)
(***************************************************************************)

CONSTANTS Receipts, Transactions

VARIABLE pairs

Unpaired(receipt, transaction) ==
    ~\E pair \in pairs : pair[1] = receipt \/ pair[2] = transaction

Init == pairs = {}

Join(receipt, transaction) ==
    /\ Unpaired(receipt, transaction)
    /\ pairs' = pairs \cup {<<receipt, transaction>>}

Next == \E receipt \in Receipts, transaction \in Transactions : Join(receipt, transaction)

Spec == Init /\ [][Next]_pairs

=============================================================================
