---------------------------- MODULE MCEnrichment ----------------------------
(* Up to three transactions of one merchant, of which Plaid may know the      *)
(* second one's category.                                                     *)
EXTENDS Enrichment

CONSTANT shop

OneMerchant == [t \in Txns |-> shop]
SomeHints == {[t \in Txns |-> None], [t \in Txns |-> IF t = 2 THEN "groceries" ELSE None]}
=============================================================================
