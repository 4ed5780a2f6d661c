\* Writers may spin out: what is still true before the first one does.
CONSTANTS
    Threads = {t1, t2, t3}
    NoOwner = NoOwner
    MaxSpin = 2
    MaxNest = 1
    MaxBarge = 1
SPECIFICATION Spec
SYMMETRY ThreadSymmetry
INVARIANT TypeOK
INVARIANT ExclusionUnlessBarged
INVARIANT WriteCountRaceFreeUnlessBarged
INVARIANT LockSoundUnlessBarged
CHECK_DEADLOCK FALSE
