----------------------------- MODULE SendBuffer -----------------------------
(***************************************************************************)
(* Memory of outgoing packets: SendBufferManager, SendBufferChunk and      *)
(* SendBuffer of ServerCore/SendBuffer.cpp, as MakeSendBuffer              *)
(* (GameServer/ClientPacketHandler.h:75) opens, writes and closes buffers  *)
(* and as the threads that empty a session's queue let go of them.         *)
(*                                                                         *)
(* A chunk is held by shared_ptrs: a thread's LSendBufferChunk, the _owner *)
(* of each of its buffers, the pool's vector.  Whoever drops the last one  *)
(* runs the deleter, PushGlobal, on the way to which the chunk is in the   *)
(* thread's hand.                                                          *)
(*                                                                         *)
(* Definitions named after another one and a fault are plausible bugs that *)
(* no action uses.                                                         *)
(***************************************************************************)
EXTENDS Naturals, Sequences, SequencesExt

CONSTANTS
    Threads,
    Chunks,     \* bound: chunks the heap may provide
    Buffers,    \* bound: buffers that exist at a time
    None,       \* null
    ChunkSize,  \* SEND_BUFFER_CHUNK_SIZE, 6000
    Header,     \* sizeof(PacketHeader), 4
    Width,      \* values of a uint16, 65536
    Payloads    \* ByteSizeLong of the packets that occur

\* A SendBuffer: its chunk, the offset of _buffer in it, _allocSize, and how many
\* bytes were written from that offset on.
SendBufferRecord == [chunk : Chunks, from : Nat, size : Nat, written : Nat]

ASSUME NoneAssumption == None \notin Chunks \union Buffers \union SendBufferRecord
ASSUME SizesAssumption ==
    /\ {ChunkSize, Header, Width} \subseteq Nat \ {0}
    /\ ChunkSize < Width /\ Payloads \subseteq Nat

VARIABLES
    made,        \* chunks that xnew has returned so far
    pool,        \* _sendBufferChunks
    local,       \* local[t]: LSendBufferChunk of thread t
    used,        \* _usedSize
    opened,      \* _open
    buffers,     \* buffers[b]: the bytes of a SendBuffer that exists, or None
    pc,          \* where t is in MakeSendBuffer or in the deleter
    payload,     \* ByteSizeLong of the packet t makes, or 0
    sendBuffer,  \* sendBuffer[t]: the buffer t has open, or None
    hand,        \* hand[t]: the chunk t takes to or from the pool, or None
    crashed      \* an ASSERT_CRASH or null dereference stopped the process

heap == <<made, pool, hand>>
fields == <<used, opened>>
call == <<payload, sendBuffer>>
vars == <<heap, local, fields, buffers, pc, call, crashed>>

Init ==
    /\ made = {} /\ pool = <<>> /\ hand = [t \in Threads |-> None]
    /\ local = [t \in Threads |-> None]
    /\ used = [c \in Chunks |-> 0] /\ opened = [c \in Chunks |-> FALSE]
    /\ buffers = [b \in Buffers |-> None]
    /\ pc = [t \in Threads |-> "idle"]
    /\ payload = [t \in Threads |-> 0] /\ sendBuffer = [t \in Threads |-> None]
    /\ crashed = FALSE

At(t, label) == ~crashed /\ pc[t] = label
Goto(t, label) == pc' = [pc EXCEPT ![t] = label]

BuffersOf(c) == {b \in Buffers : buffers[b] # None /\ buffers[b].chunk = c}

FreeInChunkWhole(c) == ChunkSize
FreeInChunk(c) == ChunkSize - used[c]

PayloadSize(t) == payload[t] % Width
PacketSize(t) == (PayloadSize(t) + Header) % Width

-----------------------------------------------------------------------------
(* MakeSendBuffer *)

MakeSendBuffer(t) ==
    /\ At(t, "idle")
    /\ \E n \in Payloads : payload' = [payload EXCEPT ![t] = n]
    /\ Goto(t, IF local[t] = None THEN "popFirst" ELSE "fits")
    /\ UNCHANGED <<heap, local, fields, buffers, sendBuffer, crashed>>

\* c is the last chunk of the pool, or a new one.
Pop(c) ==
    \/ pool # <<>> /\ c = Last(pool) /\ pool' = Front(pool) /\ UNCHANGED made
    \/ pool = <<>> /\ c \notin made /\ made' = made \union {c} /\ UNCHANGED pool

PopFirst(t) ==
    /\ At(t, "popFirst")
    /\ \E c \in Chunks : Pop(c) /\ local' = [local EXCEPT ![t] = c]
    /\ Goto(t, "resetFirst")
    /\ UNCHANGED <<fields, buffers, call, hand, crashed>>

Reset(t) ==
    /\ At(t, "resetFirst") \/ At(t, "reset")
    /\ used' = [used EXCEPT ![local[t]] = 0]
    /\ opened' = [opened EXCEPT ![local[t]] = FALSE]
    /\ Goto(t, IF pc[t] = "reset" THEN "open" ELSE "fits")
    /\ UNCHANGED <<heap, local, buffers, call, crashed>>

FitsAlways(t) == TRUE
Fits(t) == FreeInChunk(local[t]) >= PacketSize(t)

\* The assertion that the chunk is not open, and the choice of another chunk.
CheckFits(t) ==
    /\ At(t, "fits")
    /\ crashed' = opened[local[t]]
    /\ Goto(t, IF Fits(t) THEN "open" ELSE "pop")
    /\ UNCHANGED <<heap, local, fields, buffers, call>>

PopAgain(t) ==
    /\ At(t, "pop")
    /\ \E c \in Chunks : Pop(c) /\ hand' = [hand EXCEPT ![t] = c]
    /\ Goto(t, "swap")
    /\ UNCHANGED <<local, fields, buffers, call, crashed>>

LastReferenceOfThreads(c, holders, bs) == \A u \in Threads \ holders : local[u] # c

\* Only holders' LSendBufferChunk and the buffers bs hold c.
LastReference(c, holders, bs) ==
    BuffersOf(c) \subseteq bs /\ \A u \in Threads \ holders : local[u] # c

\* LSendBufferChunk becomes the popped chunk, and only then the old one goes.
Swap(t) ==
    /\ At(t, "swap")
    /\ local' = [local EXCEPT ![t] = hand[t]]
    /\ \/ /\ LastReference(local[t], {t}, {})
          /\ hand' = [hand EXCEPT ![t] = local[t]] /\ Goto(t, "pushOld")
       \/ /\ ~LastReference(local[t], {t}, {})
          /\ hand' = [hand EXCEPT ![t] = None] /\ Goto(t, "reset")
    /\ UNCHANGED <<made, pool, fields, buffers, call, crashed>>

\* SendBufferChunk::Open.  A null result is dereferenced by MakeSendBuffer.
Refused(t) == opened[local[t]] \/ PacketSize(t) > FreeInChunk(local[t])

OpenRefused(t) ==
    /\ At(t, "open") /\ Refused(t)
    /\ crashed' = TRUE
    /\ UNCHANGED <<heap, local, fields, buffers, pc, call>>

Open(t) ==
    /\ At(t, "open") /\ ~Refused(t)
    /\ \E b \in Buffers :
        /\ buffers[b] = None
        /\ buffers' = [buffers EXCEPT ![b] =
              [chunk |-> local[t], from |-> used[local[t]], size |-> PacketSize(t),
               written |-> 0]]
        /\ sendBuffer' = [sendBuffer EXCEPT ![t] = b]
    /\ opened' = [opened EXCEPT ![local[t]] = TRUE]
    /\ Goto(t, "write")
    /\ UNCHANGED <<heap, local, used, payload, crashed>>

\* Header and payload; SerializeToArray fails if the payload was cut.
Write(t) ==
    /\ At(t, "write")
    /\ buffers' = [buffers EXCEPT ![sendBuffer[t]].written = Header + PayloadSize(t)]
    /\ crashed' = (PayloadSize(t) # payload[t])
    /\ Goto(t, "close")
    /\ UNCHANGED <<heap, local, fields, call>>

CloseForgets(t) ==
    /\ At(t, "close")
    /\ opened' = [opened EXCEPT ![local[t]] = FALSE]
    /\ payload' = [payload EXCEPT ![t] = 0] /\ sendBuffer' = [sendBuffer EXCEPT ![t] = None]
    /\ Goto(t, "idle")
    /\ UNCHANGED <<heap, local, used, buffers, crashed>>

\* SendBuffer::Close with the whole size; the buffer goes to its sessions.
Close(t) ==
    LET c == buffers[sendBuffer[t]].chunk
    IN  /\ At(t, "close")
        /\ crashed' = ~opened[c]
        /\ opened' = [opened EXCEPT ![c] = FALSE]
        /\ used' = [used EXCEPT ![c] = @ + PacketSize(t)]
        /\ payload' = [payload EXCEPT ![t] = 0] /\ sendBuffer' = [sendBuffer EXCEPT ![t] = None]
        /\ Goto(t, "idle")
        /\ UNCHANGED <<heap, local, buffers>>

-----------------------------------------------------------------------------
(* Letting go *)

\* The last reference to a buffer that no thread has open goes while t clears
\* a session's sendBuffers, and with it the buffer's reference to its chunk.
Release(t, b) ==
    /\ At(t, "idle")
    /\ buffers[b] # None /\ \A u \in Threads : sendBuffer[u] # b
    /\ buffers' = [buffers EXCEPT ![b] = None]
    /\ LET c == buffers[b].chunk
       IN  \/ /\ LastReference(c, {}, {b})
              /\ hand' = [hand EXCEPT ![t] = c] /\ Goto(t, "push")
           \/ ~LastReference(c, {}, {b}) /\ UNCHANGED <<hand, pc>>
    /\ UNCHANGED <<made, pool, local, fields, call, crashed>>

PushGlobalForgets(t) ==
    /\ At(t, "push") \/ At(t, "pushOld")
    /\ hand' = [hand EXCEPT ![t] = None]
    /\ Goto(t, IF pc[t] = "pushOld" THEN "reset" ELSE "idle")
    /\ UNCHANGED <<made, pool, local, fields, buffers, call, crashed>>

\* The chunk is pooled, under a new shared_ptr.
PushGlobal(t) ==
    /\ At(t, "push") \/ At(t, "pushOld")
    /\ pool' = Append(pool, hand[t])
    /\ hand' = [hand EXCEPT ![t] = None]
    /\ Goto(t, IF pc[t] = "pushOld" THEN "reset" ELSE "idle")
    /\ UNCHANGED <<made, local, fields, buffers, call, crashed>>

Next ==
    \E t \in Threads :
        \/ MakeSendBuffer(t) \/ PopFirst(t) \/ Reset(t) \/ CheckFits(t)
        \/ PopAgain(t) \/ Swap(t) \/ OpenRefused(t) \/ Open(t) \/ Write(t)
        \/ Close(t) \/ PushGlobal(t) \/ \E b \in Buffers : Release(t, b)

Spec == Init /\ [][Next]_vars

-----------------------------------------------------------------------------
(* Properties *)

Labels == {"idle", "popFirst", "resetFirst", "fits", "pop", "swap", "pushOld",
           "reset", "open", "write", "close", "push"}

\* Types; a thread has a buffer open exactly between Open and Close, in its own
\* chunk, and what a chunk has given away never exceeds it.
TypeOK ==
    /\ made \subseteq Chunks /\ pool \in Seq(made)
    /\ local \in [Threads -> made \union {None}]
    /\ hand \in [Threads -> made \union {None}]
    /\ used \in [Chunks -> 0..ChunkSize] /\ opened \in [Chunks -> BOOLEAN]
    /\ buffers \in [Buffers -> SendBufferRecord \union {None}] /\ crashed \in BOOLEAN
    /\ pc \in [Threads -> Labels] /\ payload \in [Threads -> Payloads \union {0}]
    /\ \A t \in Threads :
        IF pc[t] \in {"write", "close"}
        THEN sendBuffer[t] \in BuffersOf(local[t])
        ELSE sendBuffer[t] = None

\* Whether b's payload and header together do not fit a uint16.
Cut(b) == buffers[b].written > buffers[b].size

\* What is written for one packet lies inside of the chunk and clear of every
\* other live packet in it, whichever threads wrote them, unless the packet's
\* size wrapped around (the room that Open checks, the sum that Close advances).
BytesExclusive ==
    \A a \in Buffers : buffers[a] # None /\ ~Cut(a) =>
        /\ buffers[a].from + buffers[a].written <= ChunkSize
        /\ \A b \in BuffersOf(buffers[a].chunk) \ {a} :
            \/ Cut(b)
            \/ buffers[a].from + buffers[a].size <= buffers[b].from
            \/ buffers[b].from + buffers[b].size <= buffers[a].from

\* A chunk that a thread may take from the pool, or is about to give to it, has
\* no live buffer and no other holder: it is never handed to a thread while a
\* send of its bytes is still in flight (reference counts and PushGlobal).
ReusedOnlyWhenFree ==
    LET Writers(c) == {t \in Threads : local[t] = c}
        Carriers(c) == {t \in Threads : hand[t] = c}
    IN  /\ \A c \in Range(pool) \union (Range(hand) \ {None}) :
            BuffersOf(c) = {} /\ Writers(c) = {}
        /\ \A t, u \in Threads : t # u =>
            /\ local[t] = local[u] => local[t] = None
            /\ hand[t] = hand[u] => hand[t] = None
        /\ \A i, j \in DOMAIN pool : i # j => pool[i] # pool[j]
        /\ Range(pool) \intersect Range(hand) = {}

\* Every chunk ever allocated is in use or can be used again: neither the swap
\* of chunks nor a release on another thread leaks one.
NoChunkLost ==
    \A c \in made : c \in Range(pool) \union Range(local) \union Range(hand)
                    \/ BuffersOf(c) # {}

\* Both: a chunk has the holders it should have, or is pooled once.
ChunksAccountedFor == ReusedOnlyWhenFree /\ NoChunkLost

\* All of it: memory has one writer, and is neither lost nor given away twice.
MemoryExclusive == BytesExclusive /\ ChunksAccountedFor

\* The assertions of Open, Close and MakeSendBuffer stop the server only for a
\* packet that is larger than a chunk, never for a chunk that is nearly full.
CrashNeedsLargePacket ==
    crashed => \E t \in Threads : payload[t] + Header > ChunkSize
=============================================================================
