\* TCP cuts the stream anywhere.
CONSTANTS
    BufferSize = 3
    BufferCount = 3
    HeaderSize = 2
    PacketSizes = {2, 3, 4}
    MaxPackets = 5
SPECIFICATION StreamSpec
INVARIANT StreamIntact
PROPERTY ReceivesSafely
\* The stream ends.
CHECK_DEADLOCK FALSE
