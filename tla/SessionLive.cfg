\* Three workers under fairness; DisconnectEx never fails at once.
CONSTANTS
    Workers = {w1, w2, w3}
    NoWorker = NoWorker
    MaxMsgs = 3
    MaxRecvs = 1
    MaxOther = 0
    DisconnectFails = FALSE
SPECIFICATION FairSpec
PROPERTY ImplementsPipe
PROPERTY BegunIsSettled
\* A session's life ends.
CHECK_DEADLOCK FALSE
