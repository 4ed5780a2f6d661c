\* Two clients and two accepts, one of which may fail.
CONSTANTS
    Workers = {w1, w2}
    Main = Main
    MaxSessionCount = 2
    Sessions = {s1, s2, s3, s4}
    NoSession = NoSession
    Clients = {c1, c2}
    NoClient = NoClient
    BacklogSize = 1
    MaxFailures = 1
SPECIFICATION Spec
INVARIANT TypeOK
INVARIANT AcceptsConserved
INVARIANT SessionsUnshared
INVARIANT ExhaustionHasCause
PROPERTY KnockIsAnswered
\* In the end every client has come and the server waits.
CHECK_DEADLOCK FALSE
