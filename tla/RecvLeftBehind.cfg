\* A packet whose end arrives with the next receive stays behind.
CONSTANTS
    BufferSize = 3
    BufferCount = 3
    HeaderSize = 2
    PacketSizes = {2, 3, 4}
    MaxPackets = 5
SPECIFICATION StreamSpec
INVARIANT NothingLeftBehind
\* The stream ends.
CHECK_DEADLOCK FALSE
