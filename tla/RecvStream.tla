----------------------------- MODULE RecvStream -----------------------------
(***************************************************************************)
(* From TCP's byte stream to packets: Session::ProcessRecv with            *)
(* PacketSession::OnRecv (ServerCore/Session.cpp:245-342) over the bytes   *)
(* of a RecvBuffer.  The peer's packets are well formed; TCP cuts the      *)
(* stream anywhere.  A byte is its number in the stream, which says what   *)
(* packet it belongs to.                                                   *)
(*                                                                         *)
(* A receive is dealt with in steps: the bytes come in, OnRecvPacket is    *)
(* called for each packet found in them, and OnRecv returns.  The cursors  *)
(* move when it does, for nobody reads them before.                        *)
(*                                                                         *)
(* Definitions named after another one and a fault are plausible bugs that *)
(* no action uses.                                                         *)
(***************************************************************************)
EXTENDS RecvBuffer, Sequences

CONSTANTS
    HeaderSize,  \* sizeof(PacketHeader)
    PacketSizes, \* sizes of the peer's packets
    MaxPackets   \* bound: packets the peer sends

ASSUME HeaderAssumption ==
    HeaderSize \in Nat \ {0} /\ PacketSizes \subseteq {s \in Nat : s >= HeaderSize}
ASSUME StreamAssumption == MaxPackets \in Nat \ {0}

VARIABLES
    memory,     \* _buffer
    sent,       \* the packets the peer has sent: their first bytes and sizes
    arrived,    \* bytes of the stream received so far
    received,   \* numOfBytes of the receive that is dealt with, or 0
    processLen, \* how many of them OnRecv's loop has dealt with
    delivered   \* what OnRecvPacket was called with: the bytes of each packet

parsing == <<received, processLen>>
streamVars == <<bufferVars, memory, sent, arrived, parsing, delivered>>

\* The number of the last byte of the first n packets.
EndOf(n) == IF n = 0 THEN 0 ELSE sent[n].first + sent[n].size - 1
Packet(n) == [j \in 1 .. sent[n].size |-> sent[n].first + j - 1]

\* The len bytes at position p.
BytesAt(p, len) == [j \in 1 .. len |-> memory[p + j - 1]]

\* header.size of the packet whose first byte is at p; anything, if none is.
PacketsFrom(byte) == {n \in DOMAIN sent : sent[n].first = byte}
SizeAt(p) ==
    IF PacketsFrom(memory[p]) = {} THEN HeaderSize
    ELSE sent[CHOOSE n \in PacketsFrom(memory[p]) : TRUE].size

\* Whether a whole packet is at p, if only len bytes from there on are looked at.
PacketFitsUnchecked(p, len) == len >= HeaderSize
PacketFits(p, len) == len >= HeaderSize /\ SizeAt(p) <= len

\* What memcpy in Clean leaves when its ranges do not overlap.
PulledNot(mem, r, w) == mem
Pulled(mem, r, w) ==
    [p \in DOMAIN mem |-> IF p < w - r THEN mem[r + p] ELSE mem[p]]

StreamInit ==
    /\ BufferInit
    /\ memory = [p \in 0 .. Capacity - 1 |-> 0]
    /\ sent = <<>> /\ arrived = 0
    /\ received = 0 /\ processLen = 0
    /\ delivered = <<>>

\* The peer sends a packet.
PeerSends(size) ==
    /\ Len(sent) < MaxPackets
    /\ sent' = Append(sent, [first |-> EndOf(Len(sent)) + 1, size |-> size])
    /\ UNCHANGED <<bufferVars, memory, arrived, parsing, delivered>>

\* n bytes were stored behind the write cursor, and OnRecv is called.
ProcessRecv(n) ==
    /\ open /\ received = 0
    /\ n \in 1 .. FreeSize /\ arrived + n <= EndOf(Len(sent))
    /\ memory' = [p \in DOMAIN memory |->
                     IF p \in writePos .. writePos + n - 1 THEN arrived + 1 + p - writePos
                     ELSE memory[p]]
    /\ arrived' = arrived + n
    /\ received' = n
    /\ UNCHANGED <<bufferVars, sent, processLen, delivered>>

\* OnRecv's loop finds a packet.  It is called with the read cursor and the
\* number of bytes received last.
OnRecvPacket ==
    LET p == readPos + processLen
    IN  /\ received > 0 /\ PacketFits(p, received - processLen)
        /\ delivered' = Append(delivered, BytesAt(p, SizeAt(p)))
        /\ processLen' = processLen + SizeAt(p)
        /\ UNCHANGED <<bufferVars, memory, sent, arrived, received>>

\* OnRecv returns once no packet fits, the cursors move, and Clean.
OnRecvReturns ==
    LET r == readPos + processLen
        w == writePos + received
    IN  /\ received > 0 /\ ~PacketFits(r, received - processLen)
        /\ MoveCursors(received, processLen)
        /\ memory' = IF r # w /\ MustPull(r, w) THEN Pulled(memory, r, w) ELSE memory
        /\ received' = 0 /\ processLen' = 0
        /\ UNCHANGED <<sent, arrived, delivered>>

\* The peer leaves, or the receive had no room.
ProcessRecvNothing ==
    /\ received = 0 /\ RecvNothing
    /\ UNCHANGED <<memory, sent, arrived, parsing, delivered>>

\* Nothing is said of the bytes once memcpy was given overlapping ranges.
StreamNext ==
    /\ ~overlapped
    /\ \/ \E size \in PacketSizes : PeerSends(size)
       \/ \E n \in 1 .. Capacity : ProcessRecv(n)
       \/ OnRecvPacket \/ OnRecvReturns \/ ProcessRecvNothing

StreamSpec == StreamInit /\ [][StreamNext]_streamVars

-----------------------------------------------------------------------------
\* OnRecvPacket gets the peer's packets whole, in order and once each
\* (Session.cpp:334, "the packet is assembled").
PacketsIntact ==
    /\ Len(delivered) <= Len(sent)
    /\ \A n \in 1 .. Len(delivered) : delivered[n] = Packet(n)

\* Between two receives the buffer holds exactly the bytes that arrived and
\* were not delivered, in order: the read cursor is at the start of a packet.
UnreadIsTheRest ==
    LET end == EndOf(Len(delivered))
    IN  ~overlapped /\ received = 0 =>
            /\ writePos - readPos = arrived - end
            /\ BytesAt(readPos, writePos - readPos) = [j \in 1 .. arrived - end |-> end + j]

\* Both: what was delivered and what is left are the stream that arrived.
StreamIntact == PacketsIntact /\ UnreadIsTheRest

\* OnRecv goes on until the rest does not hold a header (Session.cpp:323) or
\* the packet it announces (:329): no whole packet waits in the buffer.
NothingLeftBehind ==
    open /\ ~overlapped /\ received = 0 => ~PacketFits(readPos, writePos - readPos)
=============================================================================
