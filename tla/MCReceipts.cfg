CONSTANTS
    m1 = m1
    m2 = m2
    t1 = t1
    t2 = t2
    Messages = {m1, m2}
    Unclear = {m2}
    Txns = {t1, t2}
    None = None
    Score <- MCScore
    Bare <- MCBare
    Bonus = 10
    MinScore = 70
    InWindow <- MCInWindow
    Near <- MCNear
    Deletable = {m1}
    Removable = {t1}
    Slots = {w1, w2}
    MaxFaults = 1
SPECIFICATION Spec
INVARIANT NoPairMissed
INVARIANT StatusTellsTheStage
PROPERTY PairedOnce
SYMMETRY Symmetry
CHECK_DEADLOCK FALSE
