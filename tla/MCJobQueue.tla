----------------------------- MODULE MCJobQueue -----------------------------
(* Two jobs, one with a fixed id that is requested twice, two slots.        *)
EXTENDS JobQueue, TLC

CONSTANTS j1, j2, w1, w2

MCJobs == {j1, j2}
MCFixedIds == {j1}
MCSlots == {w1, w2}
MCSymmetry == Permutations(MCSlots)
=============================================================================
