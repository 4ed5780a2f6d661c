----------------------------- MODULE RecvBuffer -----------------------------
(***************************************************************************)
(* The cursors of ServerCore/RecvBuffer.cpp as Session::ProcessRecv moves  *)
(* them (ServerCore/Session.cpp:245-271), whatever OnRecv answers.  One    *)
(* receive is in flight at a time (Session's RecvEventExclusive), so a     *)
(* whole ProcessRecv is one step.                                          *)
(*                                                                         *)
(* Definitions named after another one and a fault are plausible bugs that *)
(* no action uses.                                                         *)
(***************************************************************************)
EXTENDS Integers

CONSTANTS
    BufferSize,  \* _bufferSize
    BufferCount  \* BUFFER_COUNT

ASSUME SizeAssumption == BufferSize \in Nat \ {0} /\ BufferCount \in Nat \ {0}

Capacity == BufferSize * BufferCount

VARIABLES
    readPos, writePos, \* _readPos, _writePos
    open,              \* the session goes on receiving
    overlapped         \* Clean has called memcpy on overlapping ranges

bufferVars == <<readPos, writePos, open, overlapped>>

DataSize == writePos - readPos
FreeSize == Capacity - writePos

BufferInit == readPos = 0 /\ writePos = 0 /\ open = TRUE /\ overlapped = FALSE

\* Clean, with the cursors at r and w.
MustPullLate(r, w) == Capacity - w = 0
MustPullAlways(r, w) == TRUE
MustPull(r, w) == Capacity - w < BufferSize

CleanForgetsRead(r, w) ==
    /\ readPos' = r
    /\ writePos' = IF r # w /\ MustPull(r, w) THEN w - r ELSE w
    /\ overlapped' = overlapped

Clean(r, w) ==
    IF r = w
    THEN readPos' = 0 /\ writePos' = 0 /\ UNCHANGED overlapped
    ELSE IF MustPull(r, w)
         THEN /\ readPos' = 0 /\ writePos' = w - r
              /\ overlapped' = (overlapped \/ w - r > r)
         ELSE readPos' = r /\ writePos' = w /\ UNCHANGED overlapped

\* The peer is gone, or the receive was posted with no room: Disconnect("Recv 0").
RecvNothing ==
    /\ open
    /\ open' = FALSE
    /\ UNCHANGED <<readPos, writePos, overlapped>>

\* n bytes were received and OnRecv has dealt with processLen of them.  Windows
\* never stores more than the FreeSize that RegisterRecv passed it.
MoveCursors(n, processLen) ==
    /\ open
    /\ n \in 1 .. FreeSize
    /\ IF processLen < 0 \/ processLen > DataSize + n
       THEN /\ open' = FALSE
            /\ writePos' = writePos + n
            /\ UNCHANGED <<readPos, overlapped>>
       ELSE /\ Clean(readPos + processLen, writePos + n)
            /\ UNCHANGED open

BufferNext ==
    \/ RecvNothing
    \/ \E n \in 1 .. Capacity, processLen \in -1 .. Capacity + 1 : MoveCursors(n, processLen)

BufferSpec == BufferInit /\ [][BufferNext]_bufferVars

-----------------------------------------------------------------------------
\* The cursors stay in order and inside of _buffer: what RegisterRecv hands to
\* WSARecv and what OnRecv reads is memory of the buffer.
CursorsInBuffer ==
    /\ readPos \in 0 .. Capacity /\ writePos \in 0 .. Capacity /\ readPos <= writePos
    /\ open \in BOOLEAN /\ overlapped \in BOOLEAN

\* A receive is posted with less than one buffer of room only when all that is
\* left over sits at the front (RecvBuffer.cpp:23), so with no room at all only
\* when a full capacity of bytes is unread.
RoomUnlessFull == open /\ FreeSize < BufferSize => readPos = 0

\* Both: a receive gets memory of the buffer, and enough of it.
ReceiveHasRoom == CursorsInBuffer /\ RoomUnlessFull

\* memcpy (RecvBuffer.cpp:25) is given overlapping ranges, which is undefined,
\* only when more than half of all but one buffer is unread.
OverlapNeedsBacklog ==
    [][ ~overlapped /\ overlapped' => 2 * (writePos' - readPos') > Capacity - BufferSize ]_bufferVars

\* Nothing that Windows or memcpy does to _buffer is undefined, as long as OnRecv
\* leaves less than that unread: the whole of what the cursors are for.
ReceivesSafely == []ReceiveHasRoom /\ OverlapNeedsBacklog
=============================================================================
