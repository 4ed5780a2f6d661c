SPECIFICATION Spec
CONSTANTS
    room1 = room1
    room2 = room2
    session = session
    pool = pool
    Threads = {t1, t2, t3}
    Locks <- AllLocks
    NameOf <- TypeName
    None = None
    MaxDepth = 3
SYMMETRY Symmetry
INVARIANT TypeOK
INVARIANT DeadlocksReported
INVARIANT ReportNeedsChain
\* Threads may deadlock, which is what the profiler looks for; and a report
\* stops the process.
CHECK_DEADLOCK FALSE
