----------------------------- MODULE MCBankSync -----------------------------
(* Transactions, accounts and jobs of the BankSync runs; the feed is bounded *)
(* by what BankSync lets happen to one transaction: post, modify, remove.    *)
EXTENDS BankSync, TLC

CONSTANTS t1, t2, stray, s1, s2

TwoTxns == {t1, t2}
WithStray == {t1, t2, stray}
TwoJobs == {s1, s2}
MCSymmetry == Permutations(TwoJobs)
=============================================================================
