\* Three workers share a session: every error path, DisconnectEx may fail.
CONSTANTS
    Workers = {w1, w2, w3}
    NoWorker = NoWorker
    MaxMsgs = 4
    MaxRecvs = 2
    MaxOther = 2
    DisconnectFails = TRUE
SPECIFICATION Spec
SYMMETRY WorkerSymmetry
INVARIANT TypeOK
INVARIANT EventsExclusive
INVARIANT WireExact
INVARIANT AttendedUnlessLogged
PROPERTY RegistriesNest
\* A session's life ends.
CHECK_DEADLOCK FALSE
