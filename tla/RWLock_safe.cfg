SPECIFICATION Spec
CONSTANTS
    t1 = t1
    t2 = t2
    t3 = t3
    Threads = {t1, t2, t3}
    Writers = {}
SYMMETRY ThreadSymmetry
INVARIANTS ReleaseFindsItsHold WritersNotForgotten ReadersNotForgotten CountTracksHold
PROPERTY ImplementsSharedExclusive
