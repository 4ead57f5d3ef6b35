----------------------------- MODULE MCReceipts -----------------------------
(* Two receipts that compete for two charges of the same shop: the first     *)
(* charge suits both, the second one suits the second receipt only once its   *)
(* category is known.                                                         *)
EXTENDS Receipts, TLC

CONSTANTS m1, m2, t1, t2

MCScore == m1 :> (t1 :> 85 @@ t2 :> 60) @@ m2 :> (t1 :> 75 @@ t2 :> 65)
MCBare == m1 :> (t1 :> 45 @@ t2 :> 20) @@ m2 :> (t1 :> 35 @@ t2 :> 60)
MCInWindow == Messages \X Txns
MCNear == MCInWindow

Symmetry == Permutations(Slots)

=============================================================================
