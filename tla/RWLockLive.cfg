\* Two threads under fairness: waiting threads get in.
CONSTANTS
    Threads = {t1, t2}
    NoOwner = NoOwner
    MaxSpin = 2
    MaxNest = 2
    MaxBarge = 0
SPECIFICATION FairSpec
PROPERTY ImplementsExclusion
PROPERTY WaitersGetIn
CHECK_DEADLOCK FALSE
