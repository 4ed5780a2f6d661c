\* Three players, a room for two, any session may go.
CONSTANTS
    Players = {p1, p2, p3}
    NoPlayer = NoPlayer
    MaxPlayerCount = 2
    MaxMessages = 5
    Expiring = {p1, p2, p3}
SPECIFICATION Spec
SYMMETRY PlayerSymmetry
INVARIANT TypeOK
INVARIANT HeardExactly
PROPERTY ImplementsBoard
\* MaxMessages ends the run.
CHECK_DEADLOCK FALSE
