SPECIFICATION Spec
CONSTANTS
    Thread = {t1, t2}
    Frames = {f1, f2, f3}
    Region = {r1, r2, r3}
    Capacity = 3
    Threshold <- MCThreshold
    Sizes <- MCSizes
    Leftover <- MCLeftover
    Null = Null
SYMMETRY MCSymmetry
CHECK_DEADLOCK FALSE
INVARIANTS
    FullBlockComesBack
