\* Two users who type what they like, and whose connections may end at any time.
CONSTANTS
    u1 = u1
    u2 = u2
    Users = {u1, u2}
    NoUser = NoUser
    Names = {n1, n2, n3}
    lounge = lounge
    den = den
    RoomNames = {lounge, den}
    OldRooms <- OneRoom
    MaxPlayerCount = 2
    MaxLines <- FourAndTwo
SPECIFICATION Spec
SYMMETRY NameSymmetry
INVARIANT TypeOK
INVARIANT IdentitiesDistinct
INVARIANT PlacesAgree
INVARIANT CrashHasCause
INVARIANT NoQuestionLost
\* Users stop typing.
CHECK_DEADLOCK FALSE
