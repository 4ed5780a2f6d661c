---------------------------- MODULE BufferProofs ----------------------------
(***************************************************************************)
(* Proofs about the memory that packets are sent from and received into.   *)
(*                                                                         *)
(* Sending (SendBuffer), for every number of threads, chunks, buffers and  *)
(* packets and every chunk size: live packets do not share bytes, a chunk  *)
(* is pooled only when nothing refers to it and is never lost, and only a  *)
(* packet larger than a chunk stops the server.                            *)
(*                                                                         *)
(* Receiving (RecvBuffer, RecvStream), for every buffer size and count,    *)
(* header, packets and cuts of the stream: the cursors stay inside of the  *)
(* buffer, room runs out only when the backlog fills it, memcpy overlaps   *)
(* only with a large backlog, and packets are delivered whole, in order    *)
(* and once.                                                               *)
(***************************************************************************)
EXTENDS RecvStream, SendBuffer, SequenceTheorems, TLAPS

-----------------------------------------------------------------------------
(* Send buffers *)

TypeInv ==
    /\ made \subseteq Chunks
    /\ pool \in Seq(made)
    /\ local \in [Threads -> made \union {None}]
    /\ hand \in [Threads -> made \union {None}]
    /\ used \in [Chunks -> 0..ChunkSize]
    /\ opened \in [Chunks -> BOOLEAN]
    /\ buffers \in [Buffers -> SendBufferRecord \union {None}]
    /\ pc \in [Threads -> Labels]
    /\ payload \in [Threads -> Payloads \union {0}]
    /\ sendBuffer \in [Threads -> Buffers \union {None}]
    /\ crashed \in BOOLEAN

\* Buffer b exists and is a part of chunk c.
In(b, c) == buffers[b] # None /\ buffers[b].chunk = c

Empty(c) == \A b \in Buffers : ~In(b, c)

Writing(t) == pc[t] \in {"write", "close"}

\* What its label says of the chunks that thread t has.
Holds(t) ==
    /\ pc[t] \in {"swap", "push", "pushOld"} <=> hand[t] # None
    /\ pc[t] = "popFirst" => local[t] = None
    /\ pc[t] \notin {"idle", "push", "popFirst"} => local[t] # None
    /\ pc[t] \in {"pushOld", "resetFirst", "reset"} => Empty(local[t])
    /\ pc[t] = "open" => Fits(t) \/ used[local[t]] = 0

\* A thread that writes has one open buffer, at the end of its chunk.
Writes(t) ==
    /\ ~Writing(t) => sendBuffer[t] = None
    /\ Writing(t) =>
        /\ opened[local[t]]
        /\ sendBuffer[t] \in Buffers /\ In(sendBuffer[t], local[t])
        /\ buffers[sendBuffer[t]].from = used[local[t]]
        /\ buffers[sendBuffer[t]].size = PacketSize(t)

CallInv == \A t \in Threads : Holds(t) /\ Writes(t)

\* An open chunk has a thread that writes into it.
OpenInv == \A c \in Chunks : opened[c] => \E t \in Threads : Writing(t) /\ local[t] = c

Unheld(c) == Empty(c) /\ \A t \in Threads : local[t] # c

\* Chunks in the pool or in a hand have no holder, and are there once.
HolderInv ==
    /\ \A i \in DOMAIN pool : Unheld(pool[i])
    /\ \A t \in Threads : hand[t] # None => Unheld(hand[t])
    /\ \A t, u \in Threads : t # u =>
        /\ local[t] = local[u] => local[t] = None
        /\ hand[t] = hand[u] => hand[t] = None
    /\ \A i, j \in DOMAIN pool : i # j => pool[i] # pool[j]
    /\ \A i \in DOMAIN pool : \A t \in Threads : pool[i] # hand[t]
    /\ \A b \in Buffers : buffers[b] # None => buffers[b].chunk \in made

Kept(c) ==
    \/ \E i \in DOMAIN pool : pool[i] = c
    \/ \E t \in Threads : local[t] = c
    \/ \E t \in Threads : hand[t] = c
    \/ ~Empty(c)

KeptInv == \A c \in made : Kept(c)

Apart(a, b) ==
    \/ buffers[a].from + buffers[a].size <= buffers[b].from
    \/ buffers[b].from + buffers[b].size <= buffers[a].from

\* A buffer lies inside of its chunk, a closed one below _usedSize, and clear of
\* the others.
BytesInv == \A b \in Buffers : buffers[b] # None =>
    /\ buffers[b].from + buffers[b].size <= ChunkSize
    /\ (\A t \in Threads : sendBuffer[t] # b) =>
        buffers[b].from + buffers[b].size <= used[buffers[b].chunk]
    /\ \A a \in Buffers : In(a, buffers[b].chunk) /\ a # b => Apart(a, b)

IInv ==
    TypeInv /\ CallInv /\ OpenInv /\ HolderInv /\ KeptInv /\ BytesInv /\ CrashNeedsLargePacket
-----------------------------------------------------------------------------
(* Lemmas *)

\* A remainder is at most what it is taken of.
LEMMA Remainder ==
    ASSUME NEW n \in Nat, NEW w \in Nat \ {0}
    PROVE  n % w \in Nat /\ n % w <= n /\ (n < w => n % w = n)
<1>1. n % w \in 0 .. w - 1
  BY SMT
<1>2. n < w => n % w = n
  BY SMT
<1> QED
  BY <1>1, <1>2

\* A packet's size on the wire is at most its payload and header, both of which
\* are whole if the payload fits a uint16.
LEMMA Sizes ==
    ASSUME TypeInv, NEW t \in Threads
    PROVE  /\ payload[t] \in Nat
           /\ PayloadSize(t) \in Nat /\ PacketSize(t) \in Nat
           /\ PayloadSize(t) <= payload[t] /\ PacketSize(t) <= payload[t] + Header
           /\ payload[t] < Width => PayloadSize(t) = payload[t]
<1>1. Width \in Nat \ {0} /\ Header \in Nat /\ Payloads \union {0} \subseteq Nat
  BY SizesAssumption
<1>2. payload[t] \in Nat
  BY <1>1 DEF TypeInv
<1>3. /\ PayloadSize(t) \in Nat /\ PayloadSize(t) <= payload[t]
      /\ payload[t] < Width => PayloadSize(t) = payload[t]
  BY <1>1, <1>2, Remainder DEF PayloadSize
<1>4. PayloadSize(t) + Header \in Nat
  BY <1>1, <1>3
<1>5. PacketSize(t) \in Nat /\ PacketSize(t) <= PayloadSize(t) + Header
  BY <1>1, <1>4, Remainder DEF PacketSize
<1> QED
  BY <1>1, <1>2, <1>3, <1>5

\* A thread that takes a chunk from the pool gets one that nobody has.
LEMMA PopGives ==
    ASSUME TypeInv, HolderInv, NEW c \in Chunks, Pop(c)
    PROVE  /\ made' = made \union {c} /\ pool' \in Seq(made') /\ made' \subseteq Chunks
           /\ Unheld(c) /\ \A t \in Threads : hand[t] # c
           /\ \A i \in DOMAIN pool' :
                i \in DOMAIN pool /\ pool'[i] = pool[i] /\ pool'[i] # c
           /\ \A i \in DOMAIN pool :
                pool[i] = c \/ (i \in DOMAIN pool' /\ pool'[i] = pool[i])
<1>1. CASE pool # <<>> /\ c = Last(pool) /\ pool' = Front(pool) /\ UNCHANGED made
  <2>1. Len(pool) \in Nat \ {0} /\ pool[Len(pool)] = c /\ Len(pool) \in DOMAIN pool /\ c \in made
    BY <1>1 DEF TypeInv, Last
  <2>2. /\ pool' \in Seq(made) /\ Len(pool') = Len(pool) - 1
        /\ \A i \in 1 .. Len(pool) - 1 : pool'[i] = pool[i]
    <3>1. pool' = SubSeq(pool, 1, Len(pool) - 1)
      BY <1>1 DEF Front
    <3>2. \A i \in 1 .. Len(pool) - 1 : pool[i] \in made
      BY <2>1 DEF TypeInv
    <3>3. PICK n \in Nat : Len(pool) = n + 1
      <4>1. Len(pool) - 1 \in Nat /\ Len(pool) = (Len(pool) - 1) + 1
        BY <2>1
      <4> QED
        BY <4>1
    <3>4. pool' = SubSeq(pool, 1, n) /\ \A i \in 1 .. n : pool[i] \in made
      BY <3>1, <3>2, <3>3
    <3>5. /\ pool' \in Seq(made)
          /\ Len(pool') = IF 1 <= n THEN n - 1 + 1 ELSE 0
          /\ \A i \in 1 .. n - 1 + 1 : pool'[i] = pool[1 + i - 1]
      BY <3>4, SubSeqProperties
    <3>6. \A i \in 1 .. n : pool'[i] = pool[i]
      BY <3>5
    <3> QED
      BY <3>3, <3>5, <3>6
  <2>4. DOMAIN pool' = 1 .. Len(pool) - 1 /\ DOMAIN pool = 1 .. Len(pool)
    BY <2>2 DEF TypeInv
  <2>5. \A i \in DOMAIN pool' :
            i \in DOMAIN pool /\ pool'[i] = pool[i] /\ pool'[i] # c
    BY <2>1, <2>2, <2>4 DEF HolderInv
  <2>6. \A i \in DOMAIN pool :
            pool[i] = c \/ (i \in DOMAIN pool' /\ pool'[i] = pool[i])
    BY <2>1, <2>2, <2>4
  <2>7. Unheld(c) /\ \A t \in Threads : hand[t] # c
    BY <2>1 DEF HolderInv
  <2>8. made' = made \union {c} /\ made' \subseteq Chunks
    BY <1>1, <2>1 DEF TypeInv
  <2> QED
    BY <1>1, <2>2, <2>5, <2>6, <2>7, <2>8
<1>2. CASE pool = <<>> /\ c \notin made /\ made' = made \union {c} /\ UNCHANGED pool
  <2>1. pool' \in Seq(made') /\ DOMAIN pool = {} /\ DOMAIN pool' = {}
    BY <1>2
  <2>2. c # None
    BY NoneAssumption
  <2>3. Unheld(c) /\ \A t \in Threads : hand[t] # c
    BY <1>2, <2>2 DEF TypeInv, HolderInv, Unheld, Empty, In
  <2> QED
    BY <1>2, <2>1, <2>3 DEF TypeInv
<1> QED
  BY <1>1, <1>2 DEF Pop

\* A thread that is not at work keeps what it has, if its chunk stays the same.
LEMMA OthersCall ==
    ASSUME CallInv, NEW t \in Threads,
           pc'[t] = pc[t], local'[t] = local[t], hand'[t] = hand[t],
           payload'[t] = payload[t], sendBuffer'[t] = sendBuffer[t],
           local[t] # None =>
               /\ used'[local[t]] = used[local[t]]
               /\ opened'[local[t]] = opened[local[t]]
               /\ Empty(local[t]) => Empty(local[t])',
           sendBuffer[t] # None => buffers'[sendBuffer[t]] = buffers[sendBuffer[t]]
    PROVE  Holds(t)' /\ Writes(t)'
<1>1. Holds(t) /\ Writes(t)
  BY DEF CallInv
<1>2. PacketSize(t)' = PacketSize(t) /\ (Writing(t)' <=> Writing(t))
  BY DEF PacketSize, PayloadSize, Writing
<1>3. local[t] # None => (Fits(t)' <=> Fits(t))
  BY <1>2 DEF Fits, FreeInChunk
<1>4. Holds(t)'
  BY <1>1, <1>3 DEF Holds
<1>5. Writes(t)'
  BY <1>1, <1>2, NoneAssumption DEF Writes, In, Writing, Holds
<1> QED
  BY <1>4, <1>5

\* Steps that move no chunk.
LEMMA ChunksStay ==
    ASSUME HolderInv, KeptInv, made' = made, pool' = pool, local' = local, hand' = hand,
           \A b \in Buffers :
               /\ buffers'[b] # None <=> buffers[b] # None
               /\ buffers[b] # None => buffers'[b].chunk = buffers[b].chunk
    PROVE  HolderInv' /\ KeptInv'
<1>1. ASSUME NEW c
      PROVE  Empty(c)' <=> Empty(c)
  BY DEF Empty, In
<1>2. HolderInv'
  BY <1>1 DEF HolderInv, Unheld
<1>3. KeptInv'
  BY <1>1 DEF KeptInv, Kept
<1> QED
  BY <1>2, <1>3

\* What a thread with a chunk has.
LEMMA Own ==
    ASSUME IInv, NEW t \in Threads, local[t] # None
    PROVE  /\ local[t] \in made /\ local[t] \in Chunks
           /\ \A u \in Threads : u # t => local[u] # local[t]
           /\ opened[local[t]] => Writing(t)
           /\ Writing(t) =>
                /\ sendBuffer[t] \in Buffers /\ buffers[sendBuffer[t]] \in SendBufferRecord
                /\ buffers[sendBuffer[t]] # None /\ opened[local[t]]
                /\ buffers[sendBuffer[t]].chunk = local[t]
                /\ buffers[sendBuffer[t]].from = used[local[t]]
                /\ buffers[sendBuffer[t]].size = PacketSize(t)
<1>1. local[t] \in made /\ local[t] \in Chunks
  BY DEF IInv, TypeInv
<1>2. \A u \in Threads : u # t => local[u] # local[t]
  BY DEF IInv, HolderInv
<1>3. opened[local[t]] => Writing(t)
  BY <1>1, <1>2 DEF IInv, OpenInv
<1>4. Writes(t)
  BY DEF IInv, CallInv
<1> QED
  BY <1>1, <1>2, <1>3, <1>4 DEF IInv, TypeInv, Writes, In

\* Threads that write keep their chunks open.
LEMMA WritersStay ==
    ASSUME OpenInv, opened' = opened,
           \A t \in Threads : Writing(t) => Writing(t)' /\ local'[t] = local[t]
    PROVE  OpenInv'
  BY DEF OpenInv

LEMMA MakeSendBufferStep ==
    ASSUME IInv, NEW t \in Threads, MakeSendBuffer(t)
    PROVE  IInv'
<1>1. /\ pc[t] = "idle" /\ pc'[t] \in {"popFirst", "fits"}
      /\ pc'[t] = "popFirst" <=> local[t] = None
      /\ made' = made /\ pool' = pool /\ local' = local /\ hand' = hand
      /\ buffers' = buffers /\ sendBuffer' = sendBuffer /\ used' = used /\ opened' = opened
      /\ ~crashed'
  BY DEF IInv, TypeInv, At, Goto, heap, fields, call, MakeSendBuffer
<1>2. TypeInv'
  BY <1>1 DEF IInv, Labels, TypeInv, At, Goto, heap, fields, call, MakeSendBuffer
<1>3. CallInv'
  <2>1. ASSUME NEW u \in Threads, u # t
        PROVE  Holds(u)' /\ Writes(u)'
    BY <2>1, <1>1, OthersCall DEF IInv, TypeInv, At, Goto, heap, fields, call, MakeSendBuffer, Empty, In
  <2>2. Holds(t) /\ Writes(t)
    BY DEF IInv, CallInv
  <2>3. Holds(t)'
    BY <1>1, <2>2 DEF Holds
  <2>4. Writes(t)'
    BY <1>1, <2>2 DEF Writes, Writing
  <2> QED
    BY <2>1, <2>3, <2>4 DEF CallInv
<1>4. OpenInv'
  <2>1. \A u \in Threads : Writing(u) => Writing(u)' /\ local'[u] = local[u]
    BY <1>1 DEF IInv, Writing, TypeInv, Goto, MakeSendBuffer
  <2> QED
    BY <1>1, <2>1, WritersStay DEF IInv
<1>5. HolderInv'
  BY <1>1, ChunksStay DEF IInv
<1>6. KeptInv'
  BY <1>1, ChunksStay DEF IInv
<1>7. BytesInv'
  BY <1>1 DEF IInv, BytesInv, Apart, In
<1>8. CrashNeedsLargePacket'
  BY <1>1 DEF CrashNeedsLargePacket
<1> QED
  BY <1>2, <1>3, <1>4, <1>5, <1>6, <1>7, <1>8 DEF IInv

LEMMA PopFirstStep ==
    ASSUME IInv, NEW t \in Threads, PopFirst(t)
    PROVE  IInv'
<1>0. PICK c \in Chunks : Pop(c) /\ local' = [local EXCEPT ![t] = c]
  BY DEF PopFirst
<1>1. /\ pc[t] = "popFirst" /\ pc'[t] = "resetFirst" /\ hand' = hand
      /\ local'[t] = c /\ local[t] = None /\ \A u \in Threads : u # t => local'[u] = local[u]
      /\ buffers' = buffers /\ sendBuffer' = sendBuffer /\ used' = used /\ opened' = opened
      /\ ~crashed'
      /\ made' = made \union {c} /\ pool' \in Seq(made') /\ made' \subseteq Chunks
      /\ Unheld(c) /\ c # None /\ \A u \in Threads : hand[u] # c
      /\ \A i \in DOMAIN pool' :
            i \in DOMAIN pool /\ pool'[i] = pool[i] /\ pool'[i] # c
      /\ \A i \in DOMAIN pool :
            pool[i] = c \/ (i \in DOMAIN pool' /\ pool'[i] = pool[i])
  <2>1. Holds(t)
    BY DEF IInv, CallInv
  <2>2. c # None
    BY NoneAssumption
  <2> QED
    BY <1>0, <2>1, <2>2, PopGives DEF IInv, TypeInv, At, Goto, heap, fields, call, PopFirst, Holds
<1>2. TypeInv'
  BY <1>0, <1>1 DEF IInv, Labels, TypeInv, At, Goto, heap, fields, call, PopFirst
<1>3. CallInv'
  <2>1. ASSUME NEW u \in Threads, u # t
        PROVE  Holds(u)' /\ Writes(u)'
    BY <2>1, <1>1, OthersCall, <1>0 DEF IInv, TypeInv, At, Goto, heap, fields, call, PopFirst, Empty, In
  <2>2. Holds(t) /\ Writes(t)
    BY DEF IInv, CallInv
  <2>3. Holds(t)'
    BY <1>1, <2>2 DEF Holds, Unheld, Empty, In
  <2>4. Writes(t)'
    BY <1>1, <2>2 DEF Writes, Writing
  <2> QED
    BY <2>1, <2>3, <2>4 DEF CallInv
<1>4. OpenInv'
  <2>1. \A u \in Threads : Writing(u) => Writing(u)' /\ local'[u] = local[u]
    BY <1>1 DEF IInv, Writing, TypeInv, Goto, PopFirst
  <2> QED
    BY <1>1, <2>1, WritersStay DEF IInv
<1>5. HolderInv'
  BY <1>0, <1>1 DEF IInv, HolderInv, Unheld, Empty, In, TypeInv, At, Goto, heap, fields, call, PopFirst
<1>6. KeptInv'
  <2> SUFFICES ASSUME NEW d \in made'
               PROVE  Kept(d)'
    BY DEF KeptInv
  <2>1. CASE d = c
    BY <1>1, <2>1 DEF Kept
  <2>2. CASE d # c
    <3>1. d \in made /\ Kept(d)
      BY <1>1, <2>2 DEF IInv, KeptInv
    <3>2. d # None
      BY <3>1, NoneAssumption DEF IInv, TypeInv
    <3>3. ASSUME \E i \in DOMAIN pool : pool[i] = d
          PROVE  \E i \in DOMAIN pool' : pool'[i] = d
      BY <1>1, <2>2, <3>3
    <3>4. Empty(d)' <=> Empty(d)
      BY <1>1 DEF Empty, In
    <3>5. ASSUME NEW u \in Threads, local[u] = d
          PROVE  local'[u] = d
      BY <1>1, <3>2, <3>5
    <3> QED
      BY <1>1, <3>1, <3>3, <3>4, <3>5 DEF Kept
  <2> QED
    BY <2>1, <2>2
<1>7. BytesInv'
  BY <1>1 DEF IInv, BytesInv, Apart, In
<1>8. CrashNeedsLargePacket'
  BY <1>1 DEF CrashNeedsLargePacket
<1> QED
  BY <1>2, <1>3, <1>4, <1>5, <1>6, <1>7, <1>8 DEF IInv

LEMMA ResetStep ==
    ASSUME IInv, NEW t \in Threads, Reset(t)
    PROVE  IInv'
<1>1. /\ pc[t] \in {"resetFirst", "reset"} /\ pc'[t] \in {"open", "fits"}
      /\ made' = made /\ pool' = pool /\ local' = local /\ hand' = hand
      /\ buffers' = buffers /\ sendBuffer' = sendBuffer /\ ~crashed'
      /\ local[t] # None /\ local[t] \in Chunks /\ Empty(local[t])
      /\ used' = [used EXCEPT ![local[t]] = 0] /\ opened' = [opened EXCEPT ![local[t]] = FALSE]
      /\ \A u \in Threads : u # t => local[u] # local[t]
  <2>1. Holds(t)
    BY DEF IInv, CallInv
  <2> QED
    BY <2>1, Own DEF IInv, TypeInv, At, Goto, heap, fields, call, Reset, Holds
<1>2. TypeInv'
  <2>1. 0 \in 0 .. ChunkSize
    BY SizesAssumption
  <2> QED
    BY <1>1, <2>1 DEF IInv, Labels, TypeInv, At, Goto, heap, fields, call, Reset
<1>3. CallInv'
  <2>1. ASSUME NEW u \in Threads, u # t
        PROVE  Holds(u)' /\ Writes(u)'
    BY <2>1, <1>1, OthersCall DEF IInv, TypeInv, At, Goto, heap, fields, call, Reset, Empty, In
  <2>2. Holds(t) /\ Writes(t)
    BY DEF IInv, CallInv
  <2>3. Holds(t)'
    BY <1>1, <2>2 DEF IInv, TypeInv, Holds
  <2>4. Writes(t)'
    BY <1>1, <2>2 DEF Writes, Writing
  <2> QED
    BY <2>1, <2>3, <2>4 DEF CallInv
<1>4. OpenInv'
  BY <1>1 DEF IInv, OpenInv, Writing, TypeInv, At, Goto, heap, fields, call, Reset
<1>5. HolderInv'
  BY <1>1, ChunksStay DEF IInv
<1>6. KeptInv'
  BY <1>1, ChunksStay DEF IInv
<1>7. BytesInv'
  <2>1. \A b \in Buffers : buffers[b] # None =>
            buffers[b].chunk # local[t] /\ used'[buffers[b].chunk] = used[buffers[b].chunk]
    BY <1>1 DEF IInv, TypeInv, Empty, In, SendBufferRecord
  <2> QED
    BY <1>1, <2>1 DEF IInv, BytesInv, Apart, In
<1>8. CrashNeedsLargePacket'
  BY <1>1 DEF CrashNeedsLargePacket
<1> QED
  BY <1>2, <1>3, <1>4, <1>5, <1>6, <1>7, <1>8 DEF IInv

LEMMA CheckFitsStep ==
    ASSUME IInv, NEW t \in Threads, CheckFits(t)
    PROVE  IInv'
<1>1. /\ pc[t] = "fits" /\ pc'[t] \in {"open", "pop"}
      /\ pc'[t] = "open" => Fits(t)
      /\ made' = made /\ pool' = pool /\ local' = local /\ hand' = hand
      /\ buffers' = buffers /\ sendBuffer' = sendBuffer /\ used' = used /\ opened' = opened
      /\ payload' = payload /\ local[t] # None /\ crashed' = opened[local[t]]
  <2>1. Holds(t)
    BY DEF IInv, CallInv
  <2> QED
    BY <2>1 DEF IInv, TypeInv, At, Goto, heap, fields, call, CheckFits, Holds
<1>2. TypeInv'
  <2>1. local[t] \in Chunks
    BY <1>1, Own
  <2> QED
    BY <1>1, <2>1 DEF IInv, Labels, TypeInv, At, Goto, heap, fields, call, CheckFits
<1>3. CallInv'
  <2>1. ASSUME NEW u \in Threads, u # t
        PROVE  Holds(u)' /\ Writes(u)'
    BY <2>1, <1>1, OthersCall DEF IInv, TypeInv, At, Goto, heap, fields, call, CheckFits, Empty, In
  <2>2. Holds(t) /\ Writes(t)
    BY DEF IInv, CallInv
  <2>3. Holds(t)'
    <3>1. Fits(t)' <=> Fits(t)
      BY <1>1 DEF Fits, FreeInChunk, PacketSize, PayloadSize
    <3> QED
      BY <1>1, <2>2, <3>1 DEF Holds
  <2>4. Writes(t)'
    BY <1>1, <2>2 DEF Writes, Writing
  <2> QED
    BY <2>1, <2>3, <2>4 DEF CallInv
<1>4. OpenInv'
  BY <1>1 DEF IInv, OpenInv, Writing, TypeInv, At, Goto, heap, fields, call, CheckFits
<1>5. HolderInv'
  BY <1>1, ChunksStay DEF IInv
<1>6. KeptInv'
  BY <1>1, ChunksStay DEF IInv
<1>7. BytesInv'
  BY <1>1 DEF IInv, BytesInv, Apart, In
<1>8. CrashNeedsLargePacket'
  <2>1. ~opened[local[t]]
    BY <1>1, Own DEF Writing
  <2> QED
    BY <1>1, <2>1 DEF CrashNeedsLargePacket
<1> QED
  BY <1>2, <1>3, <1>4, <1>5, <1>6, <1>7, <1>8 DEF IInv

LEMMA PopAgainStep ==
    ASSUME IInv, NEW t \in Threads, PopAgain(t)
    PROVE  IInv'
<1>0. PICK c \in Chunks : Pop(c) /\ hand' = [hand EXCEPT ![t] = c]
  BY DEF PopAgain
<1>1. /\ pc[t] = "pop" /\ pc'[t] = "swap" /\ local' = local
      /\ hand'[t] = c /\ hand[t] = None /\ \A u \in Threads : u # t => hand'[u] = hand[u]
      /\ buffers' = buffers /\ sendBuffer' = sendBuffer /\ used' = used /\ opened' = opened
      /\ ~crashed'
      /\ made' = made \union {c} /\ pool' \in Seq(made') /\ made' \subseteq Chunks
      /\ Unheld(c) /\ c # None /\ \A u \in Threads : hand[u] # c
      /\ \A i \in DOMAIN pool' :
            i \in DOMAIN pool /\ pool'[i] = pool[i] /\ pool'[i] # c
      /\ \A i \in DOMAIN pool :
            pool[i] = c \/ (i \in DOMAIN pool' /\ pool'[i] = pool[i])
  <2>1. Holds(t)
    BY DEF IInv, CallInv
  <2>2. c # None
    BY NoneAssumption
  <2> QED
    BY <1>0, <2>1, <2>2, PopGives DEF IInv, TypeInv, At, Goto, heap, fields, call, PopAgain, Holds
<1>2. TypeInv'
  BY <1>0, <1>1 DEF IInv, Labels, TypeInv, At, Goto, heap, fields, call, PopAgain
<1>3. CallInv'
  <2>1. ASSUME NEW u \in Threads, u # t
        PROVE  Holds(u)' /\ Writes(u)'
    BY <2>1, <1>1, OthersCall, <1>0 DEF IInv, TypeInv, At, Goto, heap, fields, call, PopAgain, Empty, In
  <2>2. Holds(t) /\ Writes(t)
    BY DEF IInv, CallInv
  <2>3. Holds(t)'
    BY <1>1, <2>2 DEF Holds, Unheld, Empty, In
  <2>4. Writes(t)'
    BY <1>1, <2>2 DEF Writes, Writing
  <2> QED
    BY <2>1, <2>3, <2>4 DEF CallInv
<1>4. OpenInv'
  <2>1. \A u \in Threads : Writing(u) => Writing(u)' /\ local'[u] = local[u]
    BY <1>1 DEF IInv, Writing, TypeInv, Goto, PopAgain
  <2> QED
    BY <1>1, <2>1, WritersStay DEF IInv
<1>5. HolderInv'
  BY <1>0, <1>1 DEF IInv, HolderInv, Unheld, Empty, In, TypeInv, At, Goto, heap, fields, call, PopAgain
<1>6. KeptInv'
  <2> SUFFICES ASSUME NEW d \in made'
               PROVE  Kept(d)'
    BY DEF KeptInv
  <2>1. CASE d = c
    BY <1>1, <2>1 DEF Kept
  <2>2. CASE d # c
    <3>1. d \in made /\ Kept(d)
      BY <1>1, <2>2 DEF IInv, KeptInv
    <3>2. d # None
      BY <3>1, NoneAssumption DEF IInv, TypeInv
    <3>3. ASSUME \E i \in DOMAIN pool : pool[i] = d
          PROVE  \E i \in DOMAIN pool' : pool'[i] = d
      BY <1>1, <2>2, <3>3
    <3>4. Empty(d)' <=> Empty(d)
      BY <1>1 DEF Empty, In
    <3>5. ASSUME NEW u \in Threads, hand[u] = d
          PROVE  hand'[u] = d
      BY <1>1, <3>2, <3>5
    <3> QED
      BY <1>1, <3>1, <3>3, <3>4, <3>5 DEF Kept
  <2> QED
    BY <2>1, <2>2
<1>7. BytesInv'
  BY <1>1 DEF IInv, BytesInv, Apart, In
<1>8. CrashNeedsLargePacket'
  BY <1>1 DEF CrashNeedsLargePacket
<1> QED
  BY <1>2, <1>3, <1>4, <1>5, <1>6, <1>7, <1>8 DEF IInv

LEMMA SwapStep ==
    ASSUME IInv, NEW t \in Threads, Swap(t)
    PROVE  IInv'
<1>1. /\ pc[t] = "swap" /\ made' = made /\ pool' = pool
      /\ buffers' = buffers /\ sendBuffer' = sendBuffer /\ payload' = payload
      /\ used' = used /\ opened' = opened
      /\ ~crashed'
      /\ local[t] # None /\ local[t] \in made /\ hand[t] # None /\ hand[t] \in made
      /\ Unheld(hand[t]) /\ local'[t] = hand[t]
      /\ \A u \in Threads : u # t =>
            /\ local[u] # local[t] /\ local'[u] = local[u] /\ hand'[u] = hand[u]
            /\ hand[u] # hand[t] /\ pc'[u] = pc[u]
      /\ \/ Empty(local[t]) /\ hand'[t] = local[t] /\ pc'[t] = "pushOld"
         \/ ~Empty(local[t]) /\ hand'[t] = None /\ pc'[t] = "reset"
  <2>1. Holds(t)
    BY DEF IInv, CallInv
  <2>2. local[t] # None /\ hand[t] # None /\ pc[t] = "swap"
    BY <2>1 DEF Holds, Swap, At
  <2>3. local[t] \in made /\ hand[t] \in made
    BY <2>2 DEF IInv, TypeInv
  <2>4. /\ Unheld(hand[t])
        /\ \A u \in Threads : u # t => local[u] # local[t] /\ hand[u] # hand[t]
    BY <2>2 DEF IInv, HolderInv
  <2>5. LastReference(local[t], {t}, {}) <=> Empty(local[t])
    <3>1. LastReference(local[t], {t}, {}) <=>
            Empty(local[t]) /\ \A u \in Threads : u # t => local[u] # local[t]
      BY DEF LastReference, BuffersOf, Empty, In
    <3> QED
      BY <2>4, <3>1
  <2> QED
    BY <2>2, <2>3, <2>4, <2>5 DEF IInv, TypeInv, At, Goto, heap, fields, call, Swap
<1>2. TypeInv'
  BY <1>1 DEF IInv, Labels, TypeInv, At, Goto, heap, fields, call, Swap
<1>3. CallInv'
  <2>1. ASSUME NEW u \in Threads, u # t
        PROVE  Holds(u)' /\ Writes(u)'
    BY <2>1, <1>1, OthersCall DEF IInv, Empty, In
  <2>2. Holds(t) /\ Writes(t)
    BY DEF IInv, CallInv
  <2>3. Holds(t)'
    BY <1>1, <2>2 DEF Holds, Unheld, Empty, In
  <2>4. Writes(t)'
    BY <1>1, <2>2 DEF Writes, Writing
  <2> QED
    BY <2>1, <2>3, <2>4 DEF CallInv
<1>4. OpenInv'
  <2>1. ASSUME NEW c \in Chunks, NEW u \in Threads, Writing(u), local[u] = c
        PROVE  Writing(u)' /\ local'[u] = c
    BY <1>1, <2>1 DEF IInv, Writing, TypeInv, At, Goto, heap, fields, call, Swap
  <2> QED
    BY <1>1, <2>1 DEF IInv, OpenInv
<1>5. HolderInv'
  <2>1. ASSUME NEW c
        PROVE  Empty(c)' <=> Empty(c)
    BY <1>1 DEF Empty, In
  <2>2. ASSUME NEW i \in DOMAIN pool
        PROVE  Unheld(pool[i])' /\ pool[i] # hand'[t]
    <3>1. Unheld(pool[i]) /\ pool[i] # hand[t]
      BY DEF IInv, HolderInv
    <3>2. pool[i] # None
      BY NoneAssumption DEF IInv, TypeInv
    <3>3. Unheld(pool[i])'
      BY <1>1, <2>1, <3>1 DEF Unheld
    <3> QED
      BY <1>1, <3>1, <3>2, <3>3 DEF Unheld
  <2>3. ASSUME NEW u \in Threads, hand'[u] # None
        PROVE  Unheld(hand[u])'
    BY <1>1, <2>1, <2>3 DEF IInv, HolderInv, Unheld
  <2> QED
    BY <1>1, <2>1, <2>2, <2>3 DEF IInv, HolderInv, Unheld
<1>6. KeptInv'
  <2> SUFFICES ASSUME NEW c \in made
               PROVE  Kept(c)'
    BY <1>1 DEF KeptInv
  <2>1. Kept(c)
    BY DEF IInv, KeptInv
  <2>2. Empty(c)' <=> Empty(c)
    BY <1>1 DEF Empty, In
  <2>3. ASSUME NEW u \in Threads, local[u] = c
        PROVE  Kept(c)'
    <3>1. CASE u = t
      BY <1>1, <2>2, <2>3, <3>1 DEF Kept
    <3>2. CASE u # t
      BY <1>1, <2>3, <3>2 DEF Kept
    <3> QED
      BY <3>1, <3>2
  <2>4. ASSUME NEW u \in Threads, hand[u] = c
        PROVE  Kept(c)'
    <3>1. CASE u = t
      BY <1>1, <2>4, <3>1 DEF Kept
    <3>2. CASE u # t
      BY <1>1, <2>4, <3>2 DEF Kept
    <3> QED
      BY <3>1, <3>2
  <2> QED
    BY <1>1, <2>1, <2>2, <2>3, <2>4 DEF Kept
<1>7. BytesInv'
  BY <1>1 DEF IInv, BytesInv, Apart, In
<1>8. CrashNeedsLargePacket'
  BY <1>1 DEF CrashNeedsLargePacket
<1> QED
  BY <1>2, <1>3, <1>4, <1>5, <1>6, <1>7, <1>8 DEF IInv

LEMMA OpenRefusedStep ==
    ASSUME IInv, NEW t \in Threads, OpenRefused(t)
    PROVE  IInv'
<1>1. /\ pc[t] = "open" /\ Refused(t)
      /\ made' = made /\ pool' = pool /\ local' = local /\ hand' = hand
      /\ buffers' = buffers /\ sendBuffer' = sendBuffer /\ used' = used /\ opened' = opened
      /\ pc' = pc /\ payload' = payload /\ crashed' = TRUE
  BY DEF TypeInv, At, Goto, heap, fields, call, OpenRefused
<1>2. TypeInv'
  BY <1>1 DEF IInv, TypeInv
<1>3. CallInv'
  BY <1>1 DEF IInv, CallInv, Holds, Writes, Writing, Fits, FreeInChunk, PacketSize, PayloadSize, Empty, In
<1>4. OpenInv'
  BY <1>1 DEF IInv, OpenInv, Writing
<1>5. HolderInv'
  BY <1>1, ChunksStay DEF IInv
<1>6. KeptInv'
  BY <1>1, ChunksStay DEF IInv
<1>7. BytesInv'
  BY <1>1 DEF IInv, BytesInv, Apart, In
<1>8. CrashNeedsLargePacket'
  <2>1. Holds(t) /\ TypeInv
    BY DEF IInv, CallInv
  <2>2. local[t] # None /\ (Fits(t) \/ used[local[t]] = 0)
    BY <1>1, <2>1 DEF Holds
  <2>3. local[t] \in Chunks /\ ~opened[local[t]]
    BY <1>1, <2>2, Own DEF Writing
  <2>4. PacketSize(t) > FreeInChunk(local[t])
    BY <1>1, <2>3 DEF Refused
  <2>5. /\ PacketSize(t) \in Nat /\ payload[t] \in Nat /\ PacketSize(t) <= payload[t] + Header
        /\ Header \in Nat /\ ChunkSize \in Nat /\ used[local[t]] \in 0 .. ChunkSize
    BY <2>1, <2>3, Sizes, SizesAssumption DEF TypeInv
  <2>6. payload[t] + Header > ChunkSize
    BY <2>2, <2>4, <2>5 DEF Fits, FreeInChunk
  <2> QED
    BY <1>1, <2>6 DEF CrashNeedsLargePacket
<1> QED
  BY <1>2, <1>3, <1>4, <1>5, <1>6, <1>7, <1>8 DEF IInv

LEMMA OpenStep ==
    ASSUME IInv, NEW t \in Threads, Open(t)
    PROVE  IInv'
<1> DEFINE c == local[t]
<1>0. PICK b \in Buffers :
        /\ buffers[b] = None
        /\ buffers' = [buffers EXCEPT ![b] =
              [chunk |-> c, from |-> used[c], size |-> PacketSize(t), written |-> 0]]
        /\ sendBuffer' = [sendBuffer EXCEPT ![t] = b]
  BY DEF Open
<1>1. /\ pc[t] = "open" /\ pc'[t] = "write"
      /\ made' = made /\ pool' = pool /\ local' = local /\ hand' = hand
      /\ used' = used /\ payload' = payload /\ ~crashed'
      /\ c # None /\ c \in made /\ c \in Chunks
      /\ \A u \in Threads : u # t =>
            local[u] # c /\ pc'[u] = pc[u] /\ sendBuffer'[u] = sendBuffer[u]
      /\ opened' = [opened EXCEPT ![c] = TRUE]
      /\ sendBuffer[t] = None /\ sendBuffer'[t] = b
  <2>1. Holds(t) /\ Writes(t)
    BY DEF IInv, CallInv
  <2>2. pc[t] = "open" /\ c # None
    BY <2>1 DEF Open, At, Holds
  <2>3. sendBuffer[t] = None
    BY <2>1, <2>2 DEF Writes, Writing
  <2> QED
    BY <1>0, <2>2, <2>3, Own DEF IInv, TypeInv, At, Goto, heap, fields, call, Open
<1>a. /\ PacketSize(t) \in Nat /\ used[c] \in 0 .. ChunkSize
      /\ ChunkSize \in Nat /\ used[c] + PacketSize(t) <= ChunkSize
  <2>1. PacketSize(t) \in Nat /\ used[c] \in 0 .. ChunkSize /\ ChunkSize \in Nat
    BY <1>1, Sizes, SizesAssumption DEF IInv, TypeInv
  <2>2. ~(PacketSize(t) > ChunkSize - used[c])
    BY DEF Open, Refused, FreeInChunk
  <2> QED
    BY <2>1, <2>2
<1>b. /\ buffers'[b] # None /\ buffers'[b] \in SendBufferRecord
      /\ buffers'[b].chunk = c /\ buffers'[b].from = used[c]
      /\ buffers'[b].size = PacketSize(t)
      /\ \A a \in Buffers : a # b => buffers'[a] = buffers[a]
      /\ \A u \in Threads : sendBuffer[u] # b
  <2>1. buffers'[b] = [chunk |-> c, from |-> used[c], size |-> PacketSize(t), written |-> 0]
    BY <1>0 DEF IInv, TypeInv
  <2>2. buffers'[b] \in SendBufferRecord
    BY <1>1, <1>a, <2>1 DEF SendBufferRecord
  <2>3. buffers'[b] # None
    BY <2>2, NoneAssumption
  <2>4. \A a \in Buffers : a # b => buffers'[a] = buffers[a]
    BY <1>0 DEF IInv, TypeInv
  <2>5. ASSUME NEW u \in Threads
        PROVE  sendBuffer[u] # b
    <3>1. Writes(u)
      BY DEF IInv, CallInv
    <3> QED
      BY <1>0, <3>1, NoneAssumption DEF Writes, In
  <2> QED
    BY <2>1, <2>2, <2>3, <2>4, <2>5
<1> HIDE DEF c
<1>2. TypeInv'
  <2>1. buffers' \in [Buffers -> SendBufferRecord \union {None}]
    BY <1>0, <1>b DEF IInv, TypeInv
  <2>2. opened' \in [Chunks -> BOOLEAN]
    BY <1>1 DEF IInv, TypeInv
  <2>3. pc' \in [Threads -> Labels] /\ crashed' \in BOOLEAN
    BY DEF IInv, TypeInv, Open, Goto, Labels
  <2>4. sendBuffer' \in [Threads -> Buffers \union {None}]
    BY <1>0 DEF IInv, TypeInv
  <2> QED
    BY <1>1, <2>1, <2>2, <2>3, <2>4 DEF IInv, TypeInv
<1>3. CallInv'
  <2>1. ASSUME NEW u \in Threads, u # t
        PROVE  Holds(u)' /\ Writes(u)'
    <3>1. Empty(local[u]) => Empty(local[u])'
      BY <1>1, <1>b, <2>1 DEF Empty, In
    <3>2. sendBuffer[u] # None => buffers'[sendBuffer[u]] = buffers[sendBuffer[u]]
      BY <1>0, <1>b DEF IInv, TypeInv
    <3>3. local[u] # None =>
             used'[local[u]] = used[local[u]] /\ opened'[local[u]] = opened[local[u]]
      BY <1>1, <2>1 DEF IInv, TypeInv
    <3> QED
      BY <1>1, <2>1, <3>1, <3>2, <3>3, OthersCall DEF IInv
  <2>2. Holds(t) /\ Writes(t)
    BY DEF IInv, CallInv
  <2>3. Holds(t)'
    BY <1>1, <2>2 DEF Holds
  <2>4. Writes(t)'
    <3>1. PacketSize(t)' = PacketSize(t)
      BY <1>1 DEF PacketSize, PayloadSize
    <3>2. opened'[c] /\ local'[t] = c
      BY <1>1 DEF c, IInv, TypeInv
    <3> QED
      BY <1>1, <1>b, <3>1, <3>2 DEF Writes, Writing, In
  <2> QED
    BY <2>1, <2>3, <2>4 DEF CallInv
<1>4. OpenInv'
  <2>1. \A u \in Threads : Writing(u) => Writing(u)'
    BY <1>1 DEF Writing
  <2>2. Writing(t)' /\ local'[t] = c
    BY <1>1 DEF Writing, c
  <2>3. \A d \in Chunks : opened'[d] => opened[d] \/ d = c
    BY <1>1 DEF IInv, TypeInv
  <2> QED
    BY <1>1, <2>1, <2>2, <2>3 DEF IInv, OpenInv
<1>c. ASSUME NEW d, d # c
      PROVE  Empty(d)' <=> Empty(d)
  BY <1>0, <1>b, <1>c DEF Empty, In
<1>5. HolderInv'
  <2>1. \A d : Unheld(d) => Unheld(d)'
    <3>1. ASSUME NEW d, Unheld(d)
          PROVE  Unheld(d)'
      <4>1. d # c
        BY <3>1 DEF Unheld, c
      <4> QED
        BY <1>1, <1>c, <3>1, <4>1 DEF Unheld
    <3> QED
      BY <3>1
  <2> QED
    BY <1>1, <1>b, <2>1 DEF IInv, HolderInv
<1>6. KeptInv'
  <2>1. c' = c
    BY <1>1 DEF c
  <2>2. ~Empty(c)'
    BY <1>b, <2>1 DEF Empty, In
  <2>3. ASSUME NEW d \in made
        PROVE  Kept(d)'
    <3>1. Kept(d)
      BY DEF IInv, KeptInv
    <3>2. CASE d = c
      BY <2>1, <2>2, <3>2 DEF Kept
    <3>3. CASE d # c
      BY <1>1, <1>c, <3>1, <3>3 DEF Kept
    <3> QED
      BY <3>2, <3>3
  <2> QED
    BY <1>1, <2>3 DEF KeptInv
<1>7. BytesInv'
  <2>1. ASSUME NEW a \in Buffers, In(a, c)
        PROVE  /\ buffers[a].from \in Nat /\ buffers[a].size \in Nat
               /\ buffers[a].from + buffers[a].size <= used[c]
    <3>1. \A u \in Threads : sendBuffer[u] # a
      <4>1. ASSUME NEW u \in Threads, sendBuffer[u] = a
            PROVE  FALSE
        <5>1. Writes(u)
          BY DEF IInv, CallInv
        <5>2. Writing(u) /\ In(a, local[u])
          BY <4>1, <5>1, NoneAssumption DEF Writes
        <5>3. local[u] = c
          BY <2>1, <5>2 DEF In
        <5>4. u = t
          BY <1>1, <5>3
        <5> QED
          BY <1>1, <5>2, <5>4 DEF Writing
      <4> QED
        BY <4>1
    <3>2. buffers[a] \in SendBufferRecord
      BY <2>1 DEF IInv, TypeInv, In
    <3> QED
      BY <2>1, <3>1, <3>2 DEF IInv, BytesInv, In, SendBufferRecord
  <2>2. ASSUME NEW a \in Buffers, a # b, buffers[a] # None
        PROVE  /\ buffers'[a].from + buffers'[a].size <= ChunkSize
               /\ (\A u \in Threads : sendBuffer'[u] # a) =>
                   buffers'[a].from + buffers'[a].size <= used'[buffers'[a].chunk]
               /\ \A d \in Buffers : In(d, buffers[a].chunk) /\ d # a => Apart(d, a)
    <3>1. (\A u \in Threads : sendBuffer'[u] # a) => \A u \in Threads : sendBuffer[u] # a
      BY <1>0, <1>1, NoneAssumption
    <3> QED
      BY <1>1, <1>b, <2>2, <3>1 DEF IInv, BytesInv
  <2>3. ASSUME NEW a \in Buffers, In(a, c), a # b
        PROVE  Apart(a, b)' /\ Apart(b, a)'
    BY <1>a, <1>b, <2>1, <2>3 DEF Apart
  <2>4. buffers'[b].from + buffers'[b].size <= ChunkSize
    BY <1>a, <1>b
  <2>5. ASSUME NEW a \in Buffers, NEW d \in Buffers, buffers'[a] # None,
               In(d, buffers[a].chunk)', d # a, a # b, d # b
        PROVE  Apart(d, a)'
    BY <1>b, <2>2, <2>5 DEF In, Apart
  <2>6. ASSUME NEW a \in Buffers, NEW d \in Buffers, buffers'[a] # None,
               In(d, buffers[a].chunk)', d # a, a = b \/ d = b
        PROVE  Apart(d, a)'
    BY <1>b, <2>3, <2>6 DEF In
  <2> QED
    BY <1>1, <1>b, <2>2, <2>4, <2>5, <2>6 DEF BytesInv
<1>8. CrashNeedsLargePacket'
  BY <1>1 DEF CrashNeedsLargePacket
<1> QED
  BY <1>2, <1>3, <1>4, <1>5, <1>6, <1>7, <1>8 DEF IInv

LEMMA WriteStep ==
    ASSUME IInv, NEW t \in Threads, Write(t)
    PROVE  IInv'
<1>0. PICK s : s = sendBuffer[t]
  OBVIOUS
<1>1. /\ pc[t] = "write" /\ pc'[t] = "close"
      /\ made' = made /\ pool' = pool /\ local' = local /\ hand' = hand
      /\ used' = used /\ opened' = opened /\ payload' = payload /\ sendBuffer' = sendBuffer
      /\ buffers' = [buffers EXCEPT ![s].written = Header + PayloadSize(t)]
      /\ crashed' = (PayloadSize(t) # payload[t])
      /\ \A u \in Threads : u # t => pc'[u] = pc[u] /\ (local[u] # local[t])
      /\ local[t] # None /\ s \in Buffers /\ buffers[s] \in SendBufferRecord
      /\ buffers[s] # None /\ opened[local[t]] /\ local[t] \in Chunks
      /\ buffers[s].chunk = local[t] /\ buffers[s].from = used[local[t]]
      /\ buffers[s].size = PacketSize(t)
  <2>1. Holds(t)
    BY DEF IInv, CallInv
  <2>2. pc[t] = "write" /\ local[t] # None
    BY <2>1 DEF Write, At, Holds
  <2> QED
    BY <1>0, <2>2, Own DEF IInv, Writing, TypeInv, At, Goto, heap, fields, call, Write
<1>a. /\ payload[t] \in Nat /\ PayloadSize(t) \in Nat /\ Header \in Nat
      /\ ChunkSize \in Nat /\ Width \in Nat /\ ChunkSize < Width
      /\ payload[t] < Width => PayloadSize(t) = payload[t]
  BY Sizes, SizesAssumption DEF IInv
<1>b. /\ \A b \in Buffers : b # s => buffers'[b] = buffers[b]
      /\ buffers'[s] \in SendBufferRecord /\ buffers'[s] # None
      /\ buffers'[s].chunk = buffers[s].chunk
      /\ buffers'[s].from = buffers[s].from /\ buffers'[s].size = buffers[s].size
  <2>1. buffers'[s] = [buffers[s] EXCEPT !.written = Header + PayloadSize(t)]
    BY <1>1 DEF IInv, TypeInv
  <2>2. buffers'[s] \in SendBufferRecord
    BY <1>1, <1>a, <2>1 DEF SendBufferRecord
  <2>3. /\ buffers'[s].chunk = buffers[s].chunk
        /\ buffers'[s].from = buffers[s].from /\ buffers'[s].size = buffers[s].size
    BY <1>1, <2>1 DEF SendBufferRecord
  <2>4. \A b \in Buffers : b # s => buffers'[b] = buffers[b]
    BY <1>1 DEF IInv, TypeInv
  <2> QED
    BY <2>2, <2>3, <2>4, NoneAssumption
<1>2. TypeInv'
  <2>1. buffers' \in [Buffers -> SendBufferRecord \union {None}]
    BY <1>1, <1>b DEF IInv, TypeInv
  <2>2. pc' \in [Threads -> Labels]
    BY DEF IInv, TypeInv, Write, Goto, Labels
  <2>3. crashed' \in BOOLEAN
    BY <1>1
  <2> QED
    BY <1>1, <2>1, <2>2, <2>3 DEF IInv, TypeInv
<1>3. CallInv'
  <2>1. ASSUME NEW u \in Threads, u # t
        PROVE  Holds(u)' /\ Writes(u)'
    <3>1. Empty(local[u]) => Empty(local[u])'
      BY <1>1, <1>b DEF Empty, In
    <3>2. ASSUME sendBuffer[u] # None
          PROVE  buffers'[sendBuffer[u]] = buffers[sendBuffer[u]]
      <4>1. Writes(u)
        BY DEF IInv, CallInv
      <4>2. sendBuffer[u] \in Buffers /\ buffers[sendBuffer[u]].chunk = local[u]
        BY <3>2, <4>1 DEF Writes, In
      <4> QED
        BY <1>1, <1>b, <2>1, <4>2
    <3> QED
      BY <1>1, <2>1, <3>1, <3>2, OthersCall DEF IInv
  <2>2. Holds(t) /\ Writes(t)
    BY DEF IInv, CallInv
  <2>3. Holds(t)'
    BY <1>1, <2>2 DEF Holds
  <2>4. Writes(t)'
    <3>1. PacketSize(t)' = PacketSize(t)
      BY <1>1 DEF PacketSize, PayloadSize
    <3> QED
      BY <1>0, <1>1, <1>b, <3>1 DEF Writes, Writing, In
  <2> QED
    BY <2>1, <2>3, <2>4 DEF CallInv
<1>4. OpenInv'
  <2>1. \A u \in Threads : Writing(u) => Writing(u)' /\ local'[u] = local[u]
    BY <1>1 DEF Writing
  <2> QED
    BY <1>1, <2>1, WritersStay DEF IInv
<1>5. HolderInv'
  BY <1>1, <1>b, ChunksStay DEF IInv
<1>6. KeptInv'
  BY <1>1, <1>b, ChunksStay DEF IInv
<1>7. BytesInv'
  <2>1. \A b \in Buffers :
            /\ buffers'[b] # None <=> buffers[b] # None
            /\ buffers'[b].chunk = buffers[b].chunk
            /\ buffers'[b].from = buffers[b].from /\ buffers'[b].size = buffers[b].size
    BY <1>1, <1>b
  <2> QED
    BY <1>1, <2>1 DEF IInv, BytesInv, Apart, In
<1>8. CrashNeedsLargePacket'
  <2>1. crashed' => payload'[t] + Header > ChunkSize
    <3>1. ASSUME crashed'
          PROVE  PayloadSize(t) # payload[t]
      BY <1>1, <3>1, Zenon
    <3>2. PayloadSize(t) # payload[t] => payload[t] + Header > ChunkSize
      BY <1>a
    <3> QED
      BY <1>1, <3>1, <3>2
  <2> QED
    BY <2>1 DEF CrashNeedsLargePacket
<1> QED
  BY <1>2, <1>3, <1>4, <1>5, <1>6, <1>7, <1>8 DEF IInv

LEMMA CloseStep ==
    ASSUME IInv, NEW t \in Threads, Close(t)
    PROVE  IInv'
<1>0. PICK s, c : s = sendBuffer[t] /\ c = local[t]
  OBVIOUS
<1>1. /\ pc[t] = "close" /\ pc'[t] = "idle"
      /\ made' = made /\ pool' = pool /\ local' = local /\ hand' = hand /\ buffers' = buffers
      /\ opened' = [opened EXCEPT ![c] = FALSE]
      /\ used' = [used EXCEPT ![c] = @ + PacketSize(t)]
      /\ sendBuffer' = [sendBuffer EXCEPT ![t] = None] /\ ~crashed'
      /\ \A u \in Threads : u # t =>
            /\ pc'[u] = pc[u] /\ local[u] # c /\ payload'[u] = payload[u]
            /\ sendBuffer'[u] = sendBuffer[u]
      /\ c # None /\ s \in Buffers /\ buffers[s] \in SendBufferRecord
      /\ buffers[s] # None /\ opened[c] /\ c \in Chunks
      /\ buffers[s].chunk = c /\ buffers[s].from = used[c]
      /\ buffers[s].size = PacketSize(t)
  <2>1. Holds(t)
    BY DEF IInv, CallInv
  <2>2. pc[t] = "close" /\ local[t] # None
    BY <2>1 DEF Close, At, Holds
  <2>3. /\ s \in Buffers /\ buffers[s] \in SendBufferRecord
        /\ buffers[s] # None /\ opened[c] /\ c \in Chunks
        /\ buffers[s].chunk = c /\ buffers[s].from = used[c]
        /\ buffers[s].size = PacketSize(t)
        /\ \A u \in Threads : u # t => local[u] # c
    BY <1>0, <2>2, Own DEF Writing
  <2> QED
    BY <1>0, <2>2, <2>3 DEF IInv, TypeInv, At, Goto, heap, fields, call, Close
<1>a. /\ PacketSize(t) \in Nat /\ used[c] \in 0 .. ChunkSize /\ ChunkSize \in Nat
      /\ used[c] + PacketSize(t) <= ChunkSize
  <2>1. PacketSize(t) \in Nat /\ used[c] \in 0 .. ChunkSize /\ ChunkSize \in Nat
    BY <1>1, Sizes, SizesAssumption DEF IInv, TypeInv
  <2>2. buffers[s].from + buffers[s].size <= ChunkSize
    BY <1>1 DEF IInv, BytesInv
  <2> QED
    BY <1>1, <2>1, <2>2
<1>b. \A b \in Buffers :
          /\ buffers'[b] # None <=> buffers[b] # None
          /\ buffers'[b].chunk = buffers[b].chunk
  BY <1>1
<1>c. /\ used'[c] = used[c] + PacketSize(t) /\ used'[c] \in 0 .. ChunkSize
      /\ \A d \in Chunks : d # c => used'[d] = used[d] /\ opened'[d] = opened[d]
      /\ ~opened'[c]
  BY <1>1, <1>a DEF IInv, TypeInv
<1>2. TypeInv'
  <2>1. used' \in [Chunks -> 0 .. ChunkSize]
    BY <1>1, <1>c DEF IInv, TypeInv
  <2>2. opened' \in [Chunks -> BOOLEAN]
    BY <1>1 DEF IInv, TypeInv
  <2>3. pc' \in [Threads -> Labels] /\ payload' \in [Threads -> Payloads \union {0}]
    BY DEF IInv, TypeInv, Close, Goto, Labels
  <2>4. sendBuffer' \in [Threads -> Buffers \union {None}]
    BY <1>1 DEF IInv, TypeInv
  <2>5. crashed' \in BOOLEAN
    BY DEF Close
  <2> QED
    BY <1>1, <2>1, <2>2, <2>3, <2>4, <2>5 DEF IInv, TypeInv
<1>3. CallInv'
  <2>1. ASSUME NEW u \in Threads, u # t
        PROVE  Holds(u)' /\ Writes(u)'
    <3>1. Empty(local[u]) => Empty(local[u])'
      BY <1>1 DEF Empty, In
    <3>2. ASSUME local[u] # None
          PROVE  used'[local[u]] = used[local[u]] /\ opened'[local[u]] = opened[local[u]]
      <4>1. local[u] \in Chunks /\ local[u] # c
        BY <1>1, <2>1, <3>2 DEF IInv, TypeInv
      <4> QED
        BY <1>c, <4>1
    <3> QED
      BY <1>1, <2>1, <3>1, <3>2, OthersCall DEF IInv
  <2>2. Holds(t) /\ Writes(t)
    BY DEF IInv, CallInv
  <2>3. Holds(t)'
    BY <1>1, <2>2 DEF Holds
  <2>4. Writes(t)'
    BY <1>1 DEF Writes, Writing, IInv, TypeInv
  <2> QED
    BY <2>1, <2>3, <2>4 DEF CallInv
<1>4. OpenInv'
  <2>1. ASSUME NEW d \in Chunks, opened'[d]
        PROVE  \E u \in Threads : Writing(u)' /\ local'[u] = d
    <3>1. d # c /\ opened[d]
      BY <1>c, <2>1
    <3>2. PICK u \in Threads : Writing(u) /\ local[u] = d
      BY <3>1 DEF IInv, OpenInv
    <3> QED
      BY <1>0, <1>1, <3>1, <3>2 DEF Writing
  <2> QED
    BY <2>1 DEF OpenInv
<1>5. HolderInv'
  BY <1>1, <1>b, ChunksStay DEF IInv
<1>6. KeptInv'
  BY <1>1, <1>b, ChunksStay DEF IInv
<1>7. BytesInv'
  <2>1. ASSUME NEW b \in Buffers, buffers[b] # None, \A u \in Threads : sendBuffer'[u] # b
        PROVE  buffers[b].from + buffers[b].size <= used'[buffers[b].chunk]
    <3>1. /\ buffers[b].from \in Nat /\ buffers[b].size \in Nat /\ buffers[b].chunk \in Chunks
      BY <2>1 DEF IInv, TypeInv, SendBufferRecord
    <3>2. CASE b = s
      BY <1>1, <1>a, <1>c, <3>2
    <3>3. CASE b # s
      <4>1. \A u \in Threads : sendBuffer[u] # b
        BY <1>0, <1>1, <2>1, <3>3
      <4>2. buffers[b].from + buffers[b].size <= used[buffers[b].chunk]
        BY <2>1, <4>1 DEF IInv, BytesInv
      <4>3. CASE buffers[b].chunk = c
        BY <1>a, <1>c, <3>1, <4>2, <4>3
      <4>4. CASE buffers[b].chunk # c
        BY <1>c, <3>1, <4>2, <4>4
      <4> QED
        BY <4>3, <4>4
    <3> QED
      BY <3>2, <3>3
  <2> QED
    BY <1>1, <2>1 DEF IInv, BytesInv, Apart, In
<1>8. CrashNeedsLargePacket'
  BY <1>1 DEF CrashNeedsLargePacket
<1> QED
  BY <1>2, <1>3, <1>4, <1>5, <1>6, <1>7, <1>8 DEF IInv

LEMMA PushGlobalStep ==
    ASSUME IInv, NEW t \in Threads, PushGlobal(t)
    PROVE  IInv'
<1>0. PICK h : h = hand[t]
  OBVIOUS
<1>1. /\ pc[t] \in {"push", "pushOld"} /\ pc'[t] \in {"idle", "reset"}
      /\ pc'[t] = "reset" <=> pc[t] = "pushOld"
      /\ made' = made /\ local' = local /\ buffers' = buffers /\ sendBuffer' = sendBuffer
      /\ used' = used /\ opened' = opened /\ payload' = payload /\ ~crashed'
      /\ pool' = Append(pool, h) /\ hand' = [hand EXCEPT ![t] = None]
      /\ h # None /\ h \in made /\ Unheld(h)
      /\ \A u \in Threads : u # t =>
            hand[u] # h /\ hand'[u] = hand[u] /\ pc'[u] = pc[u]
      /\ hand'[t] = None
  <2>1. Holds(t)
    BY DEF IInv, CallInv
  <2>2. pc[t] \in {"push", "pushOld"} /\ h # None
    BY <1>0, <2>1 DEF PushGlobal, At, Holds
  <2>3. h \in made /\ Unheld(h) /\ \A u \in Threads : u # t => hand[u] # h
    BY <1>0, <2>2 DEF IInv, HolderInv, TypeInv
  <2> QED
    BY <1>0, <2>2, <2>3 DEF IInv, TypeInv, At, Goto, heap, fields, call, PushGlobal
<1>a. /\ pool' \in Seq(made) /\ DOMAIN pool' = DOMAIN pool \union {Len(pool) + 1}
      /\ \A i \in DOMAIN pool : pool'[i] = pool[i] /\ i # Len(pool) + 1
      /\ pool'[Len(pool) + 1] = h
  BY <1>1 DEF IInv, TypeInv
<1>2. TypeInv'
  <2>1. pc' \in [Threads -> Labels] /\ crashed' \in BOOLEAN
    BY <1>1 DEF IInv, TypeInv, PushGlobal, Goto, Labels
  <2>2. hand' \in [Threads -> made \union {None}]
    BY <1>1 DEF IInv, TypeInv
  <2> QED
    BY <1>1, <1>a, <2>1, <2>2 DEF IInv, TypeInv
<1>3. CallInv'
  <2>1. ASSUME NEW u \in Threads, u # t
        PROVE  Holds(u)' /\ Writes(u)'
    BY <1>1, <2>1, OthersCall DEF IInv, Empty, In
  <2>2. Holds(t) /\ Writes(t)
    BY DEF IInv, CallInv
  <2>3. Holds(t)'
    BY <1>1, <2>2 DEF Holds, Empty, In
  <2>4. Writes(t)'
    BY <1>1, <2>2 DEF Writes, Writing
  <2> QED
    BY <2>1, <2>3, <2>4 DEF CallInv
<1>4. OpenInv'
  <2>1. \A u \in Threads : Writing(u) => Writing(u)' /\ local'[u] = local[u]
    BY <1>1 DEF Writing
  <2> QED
    BY <1>1, <2>1, WritersStay DEF IInv
<1>5. HolderInv'
  <2>1. ASSUME NEW d
        PROVE  Unheld(d)' <=> Unheld(d)
    BY <1>1 DEF Unheld, Empty, In
  <2>2. ASSUME NEW i \in DOMAIN pool
        PROVE  pool[i] # None /\ pool[i] # h
    BY <1>0, NoneAssumption DEF IInv, TypeInv, HolderInv
  <2> QED
    BY <1>1, <1>a, <2>1, <2>2 DEF IInv, HolderInv
<1>6. KeptInv'
  <2>1. ASSUME NEW d \in made
        PROVE  Kept(d)'
    <3>1. Kept(d)
      BY DEF IInv, KeptInv
    <3>2. Empty(d)' <=> Empty(d)
      BY <1>1 DEF Empty, In
    <3>3. ASSUME NEW i \in DOMAIN pool, pool[i] = d
          PROVE  Kept(d)'
      BY <1>a, <3>3 DEF Kept
    <3>4. ASSUME NEW u \in Threads, hand[u] = d
          PROVE  Kept(d)'
      <4>1. CASE u = t
        BY <1>0, <1>a, <3>4, <4>1 DEF Kept
      <4>2. CASE u # t
        BY <1>1, <3>4, <4>2 DEF Kept
      <4> QED
        BY <4>1, <4>2
    <3> QED
      BY <1>1, <3>1, <3>2, <3>3, <3>4 DEF Kept
  <2> QED
    BY <1>1, <2>1 DEF KeptInv
<1>7. BytesInv'
  BY <1>1 DEF IInv, BytesInv, Apart, In
<1>8. CrashNeedsLargePacket'
  BY <1>1 DEF CrashNeedsLargePacket
<1> QED
  BY <1>2, <1>3, <1>4, <1>5, <1>6, <1>7, <1>8 DEF IInv

LEMMA ReleaseStep ==
    ASSUME IInv, NEW t \in Threads, NEW b \in Buffers, Release(t, b)
    PROVE  IInv'
<1>0. PICK c : c = buffers[b].chunk
  OBVIOUS
<1>1. /\ pc[t] = "idle" /\ buffers[b] # None /\ \A u \in Threads : sendBuffer[u] # b
      /\ made' = made /\ pool' = pool /\ local' = local
      /\ used' = used /\ opened' = opened /\ sendBuffer' = sendBuffer /\ payload' = payload
      /\ buffers' = [buffers EXCEPT ![b] = None] /\ ~crashed'
      /\ c \in made /\ c \in Chunks /\ c # None
      /\ hand[t] = None
      /\ \A u \in Threads : u # t => hand'[u] = hand[u] /\ pc'[u] = pc[u]
      /\ \/ /\ \A a \in Buffers : In(a, c) => a = b
            /\ \A u \in Threads : local[u] # c
            /\ hand'[t] = c /\ pc'[t] = "push"
         \/ /\ \/ \E a \in Buffers : In(a, c) /\ a # b
               \/ \E u \in Threads : local[u] = c
            /\ hand' = hand /\ pc' = pc
  <2>1. Holds(t)
    BY DEF IInv, CallInv
  <2>2. pc[t] = "idle" /\ hand[t] = None /\ buffers[b] # None
    BY <2>1 DEF Release, At, Holds
  <2>3. c \in made /\ c \in Chunks /\ c # None
    BY <1>0, <2>2, NoneAssumption DEF IInv, HolderInv, TypeInv
  <2>4. LastReference(c, {}, {b}) <=>
            (\A a \in Buffers : In(a, c) => a = b) /\ \A u \in Threads : local[u] # c
    BY DEF LastReference, BuffersOf, In
  <2>5. \/ /\ LastReference(c, {}, {b})
           /\ hand' = [hand EXCEPT ![t] = c] /\ Goto(t, "push")
        \/ ~LastReference(c, {}, {b}) /\ hand' = hand /\ pc' = pc
    BY <1>0 DEF Release
  <2>6. \/ hand'[t] = c /\ pc'[t] = "push" /\ LastReference(c, {}, {b})
        \/ hand' = hand /\ pc' = pc /\ ~LastReference(c, {}, {b})
    BY <2>5 DEF IInv, TypeInv, Goto
  <2>7. \A u \in Threads : u # t => hand'[u] = hand[u] /\ pc'[u] = pc[u]
    BY <2>5 DEF IInv, TypeInv, Goto
  <2>8. /\ \A u \in Threads : sendBuffer[u] # b
        /\ made' = made /\ pool' = pool /\ local' = local
        /\ used' = used /\ opened' = opened /\ sendBuffer' = sendBuffer /\ payload' = payload
        /\ buffers' = [buffers EXCEPT ![b] = None] /\ ~crashed'
    BY DEF Release, At, call, fields
  <2> QED
    BY <2>2, <2>3, <2>4, <2>6, <2>7, <2>8
<1>a. /\ buffers'[b] = None /\ \A a \in Buffers : a # b => buffers'[a] = buffers[a]
      /\ \A a \in Buffers : \A d : In(a, d)' <=> (In(a, d) /\ a # b)
  BY <1>1 DEF IInv, TypeInv, In
<1>b. ASSUME NEW d
      PROVE  /\ Empty(d) => Empty(d)'
             /\ d # c => (Empty(d)' <=> Empty(d))
  BY <1>0, <1>1, <1>a DEF Empty, In
<1>2. TypeInv'
  <2>1. buffers' \in [Buffers -> SendBufferRecord \union {None}]
    BY <1>1 DEF IInv, TypeInv
  <2>4. crashed' \in BOOLEAN
    BY DEF IInv, TypeInv, Release
  <2>2. pc' \in [Threads -> Labels]
    BY DEF IInv, TypeInv, Release, Goto, Labels
  <2>3. hand' \in [Threads -> made \union {None}]
    BY <1>0, <1>1 DEF IInv, TypeInv, Release
  <2> QED
    BY <1>1, <2>1, <2>2, <2>3, <2>4 DEF IInv, TypeInv
<1>3. CallInv'
  <2>1. ASSUME NEW u \in Threads, u # t
        PROVE  Holds(u)' /\ Writes(u)'
    <3>1. Empty(local[u]) => Empty(local[u])'
      BY <1>1, <1>a DEF Empty
    <3>2. sendBuffer[u] # None => buffers'[sendBuffer[u]] = buffers[sendBuffer[u]]
      BY <1>1, <1>a DEF IInv, TypeInv
    <3> QED
      BY <1>1, <2>1, <3>1, <3>2, OthersCall DEF IInv
  <2>2. Holds(t) /\ Writes(t)
    BY DEF IInv, CallInv
  <2>3. Holds(t)'
    BY <1>1, <2>2 DEF Holds
  <2>4. Writes(t)'
    BY <1>1, <2>2 DEF Writes, Writing
  <2> QED
    BY <2>1, <2>3, <2>4 DEF CallInv
<1>4. OpenInv'
  <2>1. \A u \in Threads : Writing(u) => Writing(u)' /\ local'[u] = local[u]
    BY <1>1 DEF Writing
  <2> QED
    BY <1>1, <2>1, WritersStay DEF IInv
<1>5. HolderInv'
  <2>1. ASSUME NEW d, Unheld(d)
        PROVE  Unheld(d)' /\ d # c
    BY <1>0, <1>1, <1>b, <2>1 DEF Unheld, Empty, In
  <2>2. \A i \in DOMAIN pool : Unheld(pool[i])
    BY DEF IInv, HolderInv
  <2>3. \A u \in Threads : hand[u] # None => Unheld(hand[u])
    BY DEF IInv, HolderInv
  <2>4. \A u \in Threads : hand[u] # None => hand[u] # c
    BY <2>1, <2>3
  <2>5. ASSUME NEW i \in DOMAIN pool
        PROVE  Unheld(pool[i])' /\ pool[i] # c
    BY <1>1, <2>1, <2>2
  <2>6. \A a \in Buffers : buffers'[a] # None => buffers'[a].chunk \in made
    BY <1>a DEF IInv, HolderInv
  <2>7. ASSUME NEW u \in Threads, hand'[u] # None
        PROVE  Unheld(hand[u])'
    <3>1. PICK d : d = hand'[u]
      OBVIOUS
    <3>2. Unheld(d)'
      <4>1. CASE hand[u] = d
        BY <2>1, <2>3, <2>7, <3>1, <4>1
      <4>2. CASE hand[u] # d
        BY <1>1, <1>a, <3>1, <4>2, <2>7 DEF Unheld, Empty
      <4> QED
        BY <4>1, <4>2
    <3> QED
      BY <3>1, <3>2
  <2>8. \A u, v \in Threads : u # v => (hand'[u] = hand'[v] => hand'[u] = None)
    BY <1>1, <2>4 DEF IInv, HolderInv
  <2>9. \A i \in DOMAIN pool : \A u \in Threads : pool[i] # hand'[u]
    BY <1>1, <2>5 DEF IInv, HolderInv
  <2> QED
    BY <1>1, <2>5, <2>6, <2>7, <2>8, <2>9 DEF IInv, HolderInv
<1>6. KeptInv'
  <2>1. ASSUME NEW d \in made
        PROVE  Kept(d)'
    <3>1. Kept(d)
      BY DEF IInv, KeptInv
    <3>2. CASE d = c
      BY <1>1, <1>a, <3>2 DEF Kept, Empty
    <3>3. CASE d # c
      <4>1. d # None
        BY NoneAssumption DEF IInv, TypeInv
      <4>2. \A u \in Threads : hand[u] = d => hand'[u] = d
        BY <1>1, <4>1
      <4> QED
        BY <1>1, <1>b, <3>1, <3>3, <4>2 DEF Kept
    <3> QED
      BY <3>2, <3>3
  <2> QED
    BY <1>1, <2>1 DEF KeptInv
<1>7. BytesInv'
  BY <1>1, <1>a DEF IInv, BytesInv, Apart, In
<1>8. CrashNeedsLargePacket'
  BY <1>1 DEF CrashNeedsLargePacket
<1> QED
  BY <1>2, <1>3, <1>4, <1>5, <1>6, <1>7, <1>8 DEF IInv

-----------------------------------------------------------------------------
(* Theorems *)

LEMMA InitIInv ==
    ASSUME Init
    PROVE  IInv
<1>1. TypeInv
  <2>1. 0 \in 0 .. ChunkSize
    BY SizesAssumption
  <2>2. made \subseteq Chunks /\ pool \in Seq(made)
    BY DEF Init
  <2>3. opened \in [Chunks -> BOOLEAN]
    BY DEF Init
  <2>4. used \in [Chunks -> 0 .. ChunkSize]
    BY <2>1 DEF Init
  <2>5. crashed \in BOOLEAN
    BY DEF Init
  <2>6. /\ local \in [Threads -> made \union {None}] /\ hand \in [Threads -> made \union {None}]
        /\ buffers \in [Buffers -> SendBufferRecord \union {None}]
        /\ pc \in [Threads -> Labels] /\ payload \in [Threads -> Payloads \union {0}]
        /\ sendBuffer \in [Threads -> Buffers \union {None}]
    BY DEF Init, Labels
  <2> QED
    BY <2>2, <2>3, <2>4, <2>5, <2>6 DEF TypeInv
<1>2. \A c : Empty(c)
  BY DEF Init, Empty, In
<1>3. CallInv
  BY DEF Init, CallInv, Holds, Writes, Writing
<1>4. OpenInv /\ KeptInv
  BY DEF Init, OpenInv, KeptInv
<1>5. HolderInv
  BY DEF Init, HolderInv
<1>6. BytesInv /\ CrashNeedsLargePacket
  BY DEF Init, BytesInv, CrashNeedsLargePacket
<1> QED
  BY <1>1, <1>3, <1>4, <1>5, <1>6 DEF IInv

LEMMA NextIInv ==
    ASSUME IInv, [Next]_vars
    PROVE  IInv'
<1>1. CASE Next
  <2>1. PICK t \in Threads :
            \/ MakeSendBuffer(t) \/ PopFirst(t) \/ Reset(t) \/ CheckFits(t)
            \/ PopAgain(t) \/ Swap(t) \/ OpenRefused(t) \/ Open(t) \/ Write(t)
            \/ Close(t) \/ PushGlobal(t) \/ \E b \in Buffers : Release(t, b)
    BY <1>1 DEF Next
  <2>2. CASE MakeSendBuffer(t) \/ PopFirst(t) \/ Reset(t) \/ CheckFits(t)
    BY <2>2, MakeSendBufferStep, PopFirstStep, ResetStep, CheckFitsStep
  <2>3. CASE PopAgain(t) \/ Swap(t) \/ OpenRefused(t) \/ Open(t) \/ Write(t)
    BY <2>3, PopAgainStep, SwapStep, OpenRefusedStep, OpenStep, WriteStep
  <2>4. CASE Close(t) \/ PushGlobal(t) \/ \E b \in Buffers : Release(t, b)
    BY <2>4, CloseStep, PushGlobalStep, ReleaseStep
  <2> QED
    BY <2>1, <2>2, <2>3, <2>4
<1>2. CASE UNCHANGED vars
  <2>1. /\ made' = made /\ pool' = pool /\ local' = local /\ hand' = hand /\ used' = used
        /\ opened' = opened /\ buffers' = buffers /\ pc' = pc /\ payload' = payload
        /\ sendBuffer' = sendBuffer /\ crashed' = crashed
    BY <1>2 DEF vars, heap, fields, call
  <2>2. TypeInv' /\ OpenInv' /\ BytesInv' /\ CrashNeedsLargePacket'
    BY <2>1 DEF IInv, TypeInv, OpenInv, Writing, BytesInv, In, Apart, CrashNeedsLargePacket
  <2>3. CallInv'
    BY <2>1 DEF IInv, CallInv, Holds, Writes, Writing, Fits, FreeInChunk, PacketSize, PayloadSize,
                Empty, In
  <2>4. HolderInv' /\ KeptInv'
    BY <2>1, ChunksStay DEF IInv
  <2> QED
    BY <2>2, <2>3, <2>4 DEF IInv
<1> QED
  BY <1>1, <1>2

\* The inductive invariant: what every label of MakeSendBuffer and of the deleter
\* may rely on, who holds each chunk, and where each packet lies (SendBuffer.cpp).
THEOREM Invariance == Spec => []IInv
  BY InitIInv, NextIInv, PTL DEF Spec

\* For every number of threads, chunks and packets the fields keep their types, and
\* a thread has a buffer open exactly between Open and Close, in its own chunk.
THEOREM TypeCorrect == Spec => []TypeOK
<1>1. IInv => TypeOK
  <2> SUFFICES ASSUME IInv
               PROVE  TypeOK
    OBVIOUS
  <2>1. ASSUME NEW t \in Threads
        PROVE  IF pc[t] \in {"write", "close"}
               THEN sendBuffer[t] \in BuffersOf(local[t])
               ELSE sendBuffer[t] = None
    <3>1. Writes(t)
      BY DEF IInv, CallInv
    <3> QED
      BY <3>1 DEF Writes, Writing, BuffersOf, In
  <2> QED
    BY <2>1 DEF IInv, TypeInv, TypeOK
<1> QED
  BY <1>1, Invariance, PTL

\* The assertions and the null buffer of MakeSendBuffer stop the server only when a
\* packet is larger than a chunk, whatever the threads and the chunks' fill.
THEOREM CrashIsLargePacket == Spec => []CrashNeedsLargePacket
<1>1. IInv => CrashNeedsLargePacket
  BY DEF IInv
<1> QED
  BY <1>1, Invariance, PTL

\* No byte of a live packet is given away twice, no chunk is reused while anything
\* refers to it, and none is lost, under any interleaving of senders and releases.
THEOREM MemoryIsExclusive == Spec => []MemoryExclusive
<1>1. IInv => MemoryExclusive
  <2> SUFFICES ASSUME IInv
               PROVE  MemoryExclusive
    OBVIOUS
  <2>1. BytesExclusive
    <3> SUFFICES ASSUME NEW a \in Buffers, buffers[a] # None, ~Cut(a)
                 PROVE  /\ buffers[a].from + buffers[a].written <= ChunkSize
                        /\ \A b \in BuffersOf(buffers[a].chunk) \ {a} :
                            \/ Cut(b)
                            \/ buffers[a].from + buffers[a].size <= buffers[b].from
                            \/ buffers[b].from + buffers[b].size <= buffers[a].from
      BY DEF BytesExclusive
    <3>1. /\ buffers[a].from \in Nat /\ buffers[a].size \in Nat /\ buffers[a].written \in Nat
          /\ ChunkSize \in Nat
      BY SizesAssumption DEF IInv, TypeInv, SendBufferRecord
    <3>2. buffers[a].from + buffers[a].size <= ChunkSize
      BY DEF IInv, BytesInv
    <3>3. buffers[a].from + buffers[a].written <= ChunkSize
      BY <3>1, <3>2 DEF Cut
    <3>4. \A b \in BuffersOf(buffers[a].chunk) \ {a} : Apart(a, b)
      BY DEF IInv, BytesInv, BuffersOf, In, Apart
    <3> QED
      BY <3>3, <3>4 DEF Apart
  <2>2. \A c : BuffersOf(c) = {} <=> Empty(c)
    BY DEF BuffersOf, Empty, In
  <2>3. \A c : (\E t \in Threads : local[t] = c) <=> {t \in Threads : local[t] = c} # {}
    OBVIOUS
  <2>4. /\ Range(pool) = {pool[i] : i \in DOMAIN pool}
        /\ Range(hand) = {hand[t] : t \in Threads}
        /\ Range(local) = {local[t] : t \in Threads}
    BY DEF Range, IInv, TypeInv
  <2>5. \A c \in Range(pool) \union (Range(hand) \ {None}) : Unheld(c)
    BY <2>4 DEF IInv, HolderInv
  <2>6. Range(pool) \intersect Range(hand) = {}
    BY <2>4 DEF IInv, HolderInv
  <2>7. ReusedOnlyWhenFree
    <3>1. \A c \in Range(pool) \union (Range(hand) \ {None}) :
            BuffersOf(c) = {} /\ {t \in Threads : local[t] = c} = {}
      BY <2>2, <2>3, <2>5 DEF Unheld
    <3> QED
      BY <2>6, <3>1 DEF ReusedOnlyWhenFree, IInv, HolderInv
  <2>8. NoChunkLost
    <3>1. \A c \in made : Kept(c)
      BY DEF IInv, KeptInv
    <3> QED
      BY <2>2, <2>4, <3>1 DEF NoChunkLost, Kept
  <2> QED
    BY <2>1, <2>7, <2>8 DEF MemoryExclusive, ChunksAccountedFor
<1> QED
  BY <1>1, Invariance, PTL

-----------------------------------------------------------------------------
(* The receive buffer *)

\* A buffer holds at least one receive.
LEMMA CapacityType == Capacity \in Nat /\ Capacity >= BufferSize
  BY SizeAssumption, SMT DEF Capacity

\* The inductive invariant: either conjunct needs the other across Clean.
CursorInv == CursorsInBuffer /\ RoomUnlessFull

\* What Clean leaves of cursors that are in order.
LEMMA CleanStep ==
    ASSUME NEW r \in 0 .. Capacity, NEW w \in 0 .. Capacity, r <= w,
           overlapped \in BOOLEAN, Clean(r, w)
    PROVE  /\ readPos' \in 0 .. Capacity /\ writePos' \in 0 .. Capacity
           /\ readPos' <= writePos' /\ overlapped' \in BOOLEAN
           /\ Capacity - writePos' < BufferSize => readPos' = 0
           /\ writePos' - readPos' = w - r
           /\ ~overlapped /\ overlapped' => 2 * (w - r) > Capacity - BufferSize
<1>1. CASE r = w
  BY <1>1, CapacityType, SizeAssumption DEF Clean
<1>2. CASE r # w /\ MustPull(r, w)
  BY <1>2, CapacityType, SizeAssumption DEF Clean, MustPull
<1>3. CASE r # w /\ ~MustPull(r, w)
  BY <1>3, CapacityType, SizeAssumption DEF Clean, MustPull
<1> QED
  BY <1>1, <1>2, <1>3

LEMMA CursorInit == BufferInit => CursorInv
<1> SUFFICES ASSUME BufferInit
             PROVE  CursorInv
  OBVIOUS
<1>1. open \in BOOLEAN /\ overlapped \in BOOLEAN /\ readPos = 0 /\ writePos = 0
  BY Zenon DEF BufferInit
<1> QED
  BY <1>1, CapacityType, SizeAssumption DEF CursorInv, CursorsInBuffer, RoomUnlessFull

\* Every ProcessRecv keeps the invariant.
LEMMA CursorStep == CursorInv /\ [BufferNext]_bufferVars => CursorInv'
<1> SUFFICES ASSUME CursorInv, [BufferNext]_bufferVars
             PROVE  CursorInv'
  OBVIOUS
<1> USE CapacityType DEF CursorInv, CursorsInBuffer, RoomUnlessFull, FreeSize, DataSize
<1>1. CASE RecvNothing
  BY <1>1 DEF RecvNothing
<1>2. ASSUME NEW n \in 1 .. Capacity, NEW dealtWith \in -1 .. Capacity + 1,
             MoveCursors(n, dealtWith)
      PROVE  CursorInv'
  <2>1. CASE dealtWith < 0 \/ dealtWith > DataSize + n
    <3>1. /\ ~open' /\ open' \in BOOLEAN
          /\ writePos' = writePos + n
          /\ readPos' = readPos /\ overlapped' = overlapped
      BY <1>2, <2>1, Zenon DEF MoveCursors
    <3>2. n \in 1 .. FreeSize
      BY <1>2 DEF MoveCursors
    <3> QED
      BY <3>1, <3>2
  <2>2. CASE ~(dealtWith < 0 \/ dealtWith > DataSize + n)
    <3>1. /\ readPos + dealtWith \in 0 .. Capacity
          /\ writePos + n \in 0 .. Capacity
          /\ readPos + dealtWith <= writePos + n
      BY <1>2, <2>2 DEF MoveCursors
    <3>2. Clean(readPos + dealtWith, writePos + n) /\ open' = open
      BY <1>2, <2>2 DEF MoveCursors
    <3> QED
      BY <3>1, <3>2, CleanStep
  <2> QED
    BY <2>1, <2>2
<1>3. CASE UNCHANGED bufferVars
  BY <1>3 DEF bufferVars
<1> QED
  BY <1>1, <1>2, <1>3 DEF BufferNext

LEMMA CursorInvariance == BufferSpec => []CursorInv
  BY CursorInit, CursorStep, PTL DEF BufferSpec

\* The cursors never leave _buffer (RecvBuffer.cpp:32-46 with Session.cpp:253-267).
THEOREM CursorsSafe == BufferSpec => []CursorsInBuffer
<1>1. CursorInv => CursorsInBuffer
  BY DEF CursorInv
<1> QED
  BY <1>1, CursorInvariance, PTL

\* Clean makes room for a whole receive unless the backlog takes it (RecvBuffer.cpp:24).
THEOREM RoomForReceive == BufferSpec => []RoomUnlessFull
<1>1. CursorInv => RoomUnlessFull
  BY DEF CursorInv
<1> QED
  BY <1>1, CursorInvariance, PTL

\* Both of them (Session.cpp:149-150).
THEOREM ReceiveSafe == BufferSpec => []ReceiveHasRoom
<1>1. CursorsInBuffer /\ RoomUnlessFull => ReceiveHasRoom
  BY DEF ReceiveHasRoom
<1> QED
  BY <1>1, CursorsSafe, RoomForReceive, PTL

\* Below half of all but one buffer of backlog, memcpy is defined (RecvBuffer.cpp:25).
THEOREM OverlapBound == BufferSpec => OverlapNeedsBacklog
<1>1. CursorInv /\ [BufferNext]_bufferVars =>
          [ ~overlapped /\ overlapped' => 2 * (writePos' - readPos') > Capacity - BufferSize ]_bufferVars
  <2> SUFFICES ASSUME CursorInv, BufferNext, ~overlapped, overlapped'
               PROVE  2 * (writePos' - readPos') > Capacity - BufferSize
    OBVIOUS
  <2> USE CapacityType DEF CursorInv, CursorsInBuffer, FreeSize, DataSize
  <2>1. PICK n \in 1 .. Capacity, dealtWith \in -1 .. Capacity + 1 : MoveCursors(n, dealtWith)
    BY DEF BufferNext, RecvNothing
  <2>2. ~(dealtWith < 0 \/ dealtWith > DataSize + n)
    BY <2>1 DEF MoveCursors
  <2>3. /\ readPos + dealtWith \in 0 .. Capacity
        /\ writePos + n \in 0 .. Capacity
        /\ readPos + dealtWith <= writePos + n
        /\ Clean(readPos + dealtWith, writePos + n)
    BY <2>1, <2>2 DEF MoveCursors
  <2> QED
    BY <2>3, CleanStep
<1> QED
  BY <1>1, CursorInvariance, PTL DEF BufferSpec, OverlapNeedsBacklog

\* All that the cursors are for, whatever OnRecv answers (Session.cpp:245-271).
THEOREM ReceivingIsSafe == BufferSpec => ReceivesSafely
  BY ReceiveSafe, OverlapBound DEF ReceivesSafely
-----------------------------------------------------------------------------
(***************************************************************************)
(* The bytes.  The invariant says which bytes of the stream are where, by  *)
(* their numbers: what is between the read cursor and the end of what was  *)
(* received are the last bytes that arrived, and OnRecv's loop is always   *)
(* at the first byte of the next packet.                                   *)
(***************************************************************************)
\* The peer's packets follow each other without gap.
SentInv ==
    /\ sent \in Seq([first : Nat \ {0}, size : Nat \ {0}])
    /\ \A n \in 1 .. Len(sent) : sent[n].first = EndOf(n - 1) + 1 /\ sent[n].size >= HeaderSize
    /\ \A m, n \in 1 .. Len(sent) : m < n => sent[m].first < sent[n].first

\* A receive is dealt with inside of the bytes that it stored.
ParsingInv ==
    /\ received \in Nat /\ processLen \in 0 .. received
    /\ received > 0 => open /\ received <= FreeSize
    /\ overlapped => received = 0

DeliveredInv ==
    /\ delivered \in Seq(Seq(Nat)) /\ Len(delivered) <= Len(sent)
    /\ \A n \in 1 .. Len(delivered) : delivered[n] = Packet(n)

StoredEnd == writePos + received
StreamBytesInv ==
    /\ memory \in [0 .. Capacity - 1 -> Nat]
    /\ arrived \in Nat /\ arrived <= EndOf(Len(sent))
    /\ ~overlapped =>
          /\ arrived = EndOf(Len(delivered)) + (StoredEnd - (readPos + processLen))
          /\ \A p \in readPos .. StoredEnd - 1 : memory[p] = arrived - (StoredEnd - 1 - p)

StreamInv == CursorInv /\ SentInv /\ ParsingInv /\ DeliveredInv /\ StreamBytesInv

USE SizeAssumption, HeaderAssumption, StreamAssumption

\* A packet of the peer, and where the one before it ends.
LEMMA SentType ==
    ASSUME SentInv, NEW n \in 1 .. Len(sent)
    PROVE  /\ sent[n].first \in Nat /\ sent[n].first > 0 /\ sent[n].size \in Nat /\ sent[n].size > 0
           /\ sent[n].first = EndOf(n - 1) + 1
           /\ n \in Nat /\ n > 0 /\ Len(sent) \in Nat
<1>1. sent \in Seq([first : Nat \ {0}, size : Nat \ {0}])
  BY DEF SentInv
<1>2. sent[n] \in [first : Nat \ {0}, size : Nat \ {0}]
  <2>1. PICK S : S = [first : Nat \ {0}, size : Nat \ {0}]
    OBVIOUS
  <2>2. sent \in Seq(S)
    BY <1>1, <2>1
  <2>3. sent[n] \in S
    BY ONLY <2>2, n \in 1 .. Len(sent)
  <2> QED  BY <2>1, <2>3
<1>3. sent[n].first \in Nat \ {0} /\ sent[n].size \in Nat \ {0}
  BY <1>2
<1>4. sent[n].first = EndOf(n - 1) + 1
  BY DEF SentInv
<1>5. Len(sent) \in Nat
  BY <1>1
<1> QED  BY <1>3, <1>4, <1>5

LEMMA EndType ==
    ASSUME SentInv, NEW n \in 0 .. Len(sent)
    PROVE  EndOf(n) \in Nat /\ (n # 0 => EndOf(n) = sent[n].first + sent[n].size - 1 /\ EndOf(n) > EndOf(n - 1))
<1>1. CASE n = 0
  BY <1>1 DEF EndOf
<1>2. CASE n # 0
  <2>0. n \in 1 .. Len(sent)
    BY <1>2 DEF SentInv
  <2>1. /\ n \in 1 .. Len(sent) /\ sent[n].first \in Nat \ {0} /\ sent[n].size \in Nat \ {0}
        /\ sent[n].first = EndOf(n - 1) + 1
    BY <2>0, SentType
  <2>2. EndOf(n) = sent[n].first + sent[n].size - 1
    BY <1>2 DEF EndOf
  <2> HIDE DEF EndOf
  <2>3. EndOf(n - 1) = sent[n].first - 1
    <3>1. CASE n = 1
      BY <2>1, <3>1 DEF EndOf
    <3>2. CASE n # 1
      <4>1. n - 1 \in 1 .. Len(sent)
        BY <2>1, <3>2
      <4>2. sent[n - 1].first \in Nat /\ sent[n - 1].size \in Nat /\ n - 1 # 0
        BY <2>1, <3>2, <4>1, SentType
      <4>3. EndOf(n - 1) \in Int
        BY <4>2 DEF EndOf
      <4> QED  BY <2>1, <4>3
    <3> QED  BY <3>1, <3>2
  <2> QED  BY <1>2, <2>1, <2>2, <2>3
<1> QED  BY <1>1, <1>2

\* The byte at the loop's position is the first of the packet that comes next,
\* whose header OnRecv reads there.
LEMMA LoopAtNext ==
    ASSUME StreamInv, ~overlapped, NEW p \in Nat, p = readPos + processLen, p < StoredEnd
    PROVE  LET n == Len(delivered) + 1 IN
           /\ n \in 1 .. Len(sent) /\ memory[p] = sent[n].first /\ SizeAt(p) = sent[n].size
<1> DEFINE d == Len(delivered)
           n == d + 1
<1>1. /\ d \in 0 .. Len(sent) /\ Len(sent) \in Nat /\ arrived \in Nat /\ StoredEnd \in Int
      /\ arrived <= EndOf(Len(sent)) /\ arrived = EndOf(d) + (StoredEnd - p)
      /\ readPos \in Nat /\ processLen \in Nat
  BY DEF StreamInv, CursorInv, CursorsInBuffer, SentInv, ParsingInv, DeliveredInv, StreamBytesInv, StoredEnd
<1>2. EndOf(d) \in Nat /\ EndOf(Len(sent)) \in Nat
  BY <1>1, EndType DEF StreamInv
<1>3. n \in 1 .. Len(sent)
  BY <1>1, <1>2
<1>4. p \in readPos .. StoredEnd - 1
  BY <1>1
<1>5. memory[p] = arrived - (StoredEnd - 1 - p)
  BY <1>4 DEF StreamInv, StreamBytesInv
<1>6. memory[p] = EndOf(d) + 1
  BY <1>1, <1>2, <1>5
<1>7. sent[n].first = EndOf(d) + 1
  <2>1. sent[n].first = EndOf(n - 1) + 1
    BY <1>3 DEF StreamInv, SentInv
  <2>2. n - 1 = d
    BY <1>1
  <2> QED  BY <2>1, <2>2
<1>8. memory[p] = sent[n].first
  BY <1>6, <1>7
<1>9. PacketsFrom(memory[p]) = {n}
  <2>1. ASSUME NEW m \in PacketsFrom(memory[p]) PROVE m = n
    <3>1. m \in 1 .. Len(sent) /\ sent[m].first = sent[n].first
      <4>1. m \in DOMAIN sent /\ sent[m].first = sent[n].first
        BY <1>8, <2>1, Zenon DEF PacketsFrom
      <4>2. DOMAIN sent = 1 .. Len(sent)
        BY DEF StreamInv, SentInv
      <4> QED  BY <4>1, <4>2, Zenon
    <3>2. sent[n].first \in Nat
      BY <1>3, SentType DEF StreamInv
    <3>3. ~(m < n) /\ ~(n < m)
      <4> HIDE DEF n
      <4>1. /\ m < n => sent[m].first < sent[n].first
            /\ n < m => sent[n].first < sent[m].first
        BY <1>3, <3>1 DEF StreamInv, SentInv
      <4> QED  BY <3>1, <3>2, <4>1
    <3> QED  BY <1>3, <3>1, <3>3
  <2>2. n \in PacketsFrom(memory[p])
    BY <1>3, <1>8 DEF PacketsFrom, StreamInv, SentInv
  <2> QED  BY <2>1, <2>2
<1>10. SizeAt(p) = sent[n].size
  BY <1>9 DEF SizeAt
<1> QED  BY <1>3, <1>8, <1>10

LEMMA StreamInitially == StreamInit => StreamInv
<1> SUFFICES ASSUME StreamInit PROVE StreamInv
  OBVIOUS
<1>1. CursorInv
  BY CursorInit DEF StreamInit
<1>2. readPos = 0 /\ writePos = 0 /\ overlapped = FALSE /\ sent = <<>> /\ delivered = <<>>
  BY DEF StreamInit, BufferInit
<1>3. SentInv
  BY <1>2 DEF SentInv
<1>4. received = 0 /\ processLen = 0 /\ arrived = 0 /\ memory = [p \in 0 .. Capacity - 1 |-> 0]
  BY DEF StreamInit
<1>5. ParsingInv
  BY <1>2, <1>4 DEF ParsingInv
<1>6. DeliveredInv
  BY <1>2 DEF DeliveredInv
<1>7. StreamBytesInv
  BY <1>2, <1>4 DEF StreamBytesInv, StoredEnd, EndOf
<1> QED  BY <1>1, <1>3, <1>5, <1>6, <1>7 DEF StreamInv

LEMMA PeerSendsKeeps ==
    ASSUME StreamInv, NEW size \in PacketSizes, PeerSends(size)
    PROVE  StreamInv'
<1> DEFINE n == Len(sent)
           new == [first |-> EndOf(n) + 1, size |-> size]
<1>1. /\ sent' = Append(sent, new)
      /\ UNCHANGED <<readPos, writePos, open, overlapped, memory, arrived, received, processLen, delivered>>
  BY DEF PeerSends, bufferVars, parsing
<1>2. n \in Nat /\ EndOf(n) \in Nat /\ size \in Nat /\ size >= HeaderSize
  BY EndType DEF StreamInv, SentInv
<1>3. new \in [first : Nat \ {0}, size : Nat \ {0}]
  BY <1>2
<1>4. /\ sent' \in Seq([first : Nat \ {0}, size : Nat \ {0}]) /\ Len(sent') = n + 1
      /\ sent'[n + 1] = new /\ \A m \in 1 .. n : sent'[m] = sent[m]
  <2>1. PICK S : S = [first : Nat \ {0}, size : Nat \ {0}]
    OBVIOUS
  <2> HIDE DEF new
  <2>2. sent \in Seq(S) /\ new \in S /\ sent' = Append(sent, new)
    BY <1>1, <1>3, <2>1 DEF StreamInv, SentInv
  <2>3. sent' \in Seq(S) /\ Len(sent') = n + 1 /\ sent'[n + 1] = new /\ \A m \in 1 .. n : sent'[m] = sent[m]
    BY ONLY <2>2
  <2> QED  BY <2>1, <2>3
<1>5. \A m \in 0 .. n : EndOf(m)' = EndOf(m)
  <2> SUFFICES ASSUME NEW m \in 0 .. n PROVE EndOf(m)' = EndOf(m)
    OBVIOUS
  <2>1. m = 0 \/ (m # 0 /\ m \in 1 .. n)
    BY <1>2
  <2> QED  BY <1>4, <2>1, Zenon DEF EndOf
<1>6. \A m \in 1 .. n : Packet(m)' = Packet(m)
  BY <1>4 DEF Packet
<1>7. SentInv'
  <2>1. ASSUME NEW m \in 1 .. Len(sent') PROVE sent'[m].first = EndOf(m - 1)' + 1 /\ sent'[m].size >= HeaderSize
    <3>1. CASE m = n + 1
      <4>1. m - 1 = n /\ n \in 0 .. n
        BY <1>2, <3>1
      <4>2. EndOf(m - 1)' = EndOf(n)
        BY <1>5, <4>1
      <4> QED  BY <1>2, <1>4, <3>1, <4>2
    <3>2. CASE m \in 1 .. n
      <4>1. m - 1 \in 0 .. n
        BY <1>2, <3>2
      <4>2. EndOf(m - 1)' = EndOf(m - 1)
        BY <1>5, <4>1
      <4> QED  BY <1>4, <3>2, <4>2 DEF StreamInv, SentInv
    <3> QED  BY <1>2, <1>4, <3>1, <3>2
  <2>2. ASSUME NEW m \in 1 .. n PROVE sent[m].first < EndOf(n) + 1
    <3>1. CASE m = n
      <4>1. EndOf(n) = sent[n].first + sent[n].size - 1
        BY <2>2, <3>1 DEF EndOf
      <4> QED  BY <2>2, <3>1, <4>1, SentType DEF StreamInv
    <3>2. CASE m < n
      <4>1. sent[m].first < sent[n].first /\ n \in 1 .. n
        BY <1>2, <2>2, <3>2 DEF StreamInv, SentInv
      <4>2. EndOf(n) = sent[n].first + sent[n].size - 1
        BY <1>2, <4>1 DEF EndOf
      <4>3. sent[m].first \in Nat /\ sent[n].first \in Nat /\ sent[n].size \in Nat \ {0}
        BY <2>2, <4>1, SentType DEF StreamInv
      <4>4. PICK a, b, c, e : a = sent[m].first /\ b = sent[n].first /\ c = sent[n].size /\ e = EndOf(n)
        OBVIOUS
      <4>5. a \in Nat /\ b \in Nat /\ c \in Nat \ {0} /\ a < b /\ e = b + c - 1
        BY <4>1, <4>2, <4>3, <4>4
      <4>6. a < e + 1
        BY ONLY <4>5
      <4> QED  BY <4>4, <4>6
    <3> QED  BY <1>2, <2>2, <3>1, <3>2
  <2>3. ASSUME NEW l \in 1 .. Len(sent'), NEW m \in 1 .. Len(sent'), l < m
        PROVE  sent'[l].first < sent'[m].first
    <3>1. l \in 1 .. n
      <4>1. PICK k : k = n
        OBVIOUS
      <4>2. k \in Nat /\ l < m /\ l \in 1 .. k + 1 /\ m \in 1 .. k + 1
        BY <1>2, <1>4, <2>3, <4>1, Zenon
      <4>3. l \in 1 .. k
        BY ONLY <4>2
      <4> QED  BY <4>1, <4>3, Zenon
    <3>2. CASE m = n + 1
      <4>1. sent'[l] = sent[l] /\ sent'[m] = new
        BY <1>4, <3>1, <3>2, Zenon
      <4>2. sent[l].first < EndOf(n) + 1 /\ new.first = EndOf(n) + 1
        BY <2>2, <3>1
      <4> QED  BY <4>1, <4>2, Zenon
    <3>3. CASE m \in 1 .. n
      BY <1>4, <2>3, <3>1, <3>3 DEF StreamInv, SentInv
    <3> QED  BY <1>2, <1>4, <3>2, <3>3
  <2> QED  BY <1>4, <2>1, <2>3 DEF SentInv
<1>8. CursorInv' /\ ParsingInv'
  <2>1. CursorInv'
    BY <1>1, Zenon DEF StreamInv, CursorInv, CursorsInBuffer, RoomUnlessFull, FreeSize
  <2>2. ParsingInv'
    BY <1>1, Zenon DEF StreamInv, ParsingInv, FreeSize
  <2> QED  BY <2>1, <2>2
<1>9. DeliveredInv'
  <2>1. delivered' = delivered /\ delivered \in Seq(Seq(Nat)) /\ Len(delivered) \in 0 .. n
    BY <1>1, <1>2 DEF StreamInv, DeliveredInv
  <2>2. Len(delivered) <= Len(sent')
    BY <1>2, <1>4, <2>1
  <2>3. ASSUME NEW m \in 1 .. Len(delivered) PROVE delivered[m] = Packet(m)'
    <3>1. m \in 1 .. n
      BY <1>2, <2>1
    <3> QED  BY <1>6, <3>1 DEF StreamInv, DeliveredInv
  <2> QED  BY <2>1, <2>2, <2>3 DEF DeliveredInv
<1>10. StreamBytesInv'
  <2>1. Len(delivered) \in 0 .. n /\ n \in 0 .. n /\ n + 1 \in 0 .. Len(sent')
    BY <1>2, <1>4 DEF StreamInv, DeliveredInv
  <2>2. EndOf(Len(delivered))' = EndOf(Len(delivered))
    BY <1>1, <1>5, <2>1
  <2>3. EndOf(Len(sent))' = EndOf(n) + size
    BY <1>2, <1>4 DEF EndOf
  <2>4. arrived' <= EndOf(Len(sent))'
    BY <1>1, <1>2, <2>3 DEF StreamInv, StreamBytesInv
  <2> QED  BY <1>1, <2>2, <2>4 DEF StreamInv, StreamBytesInv, StoredEnd
<1> QED  BY <1>7, <1>8, <1>9, <1>10 DEF StreamInv

LEMMA ProcessRecvKeeps ==
    ASSUME StreamInv, ~overlapped, NEW n \in 1 .. Capacity, ProcessRecv(n)
    PROVE  StreamInv'
<1>1. /\ open /\ received = 0 /\ processLen = 0 /\ n \in Nat \ {0} /\ n <= FreeSize
      /\ arrived + n <= EndOf(Len(sent)) /\ arrived' = arrived + n /\ received' = n
      /\ memory' = [p \in DOMAIN memory |->
                     IF p \in writePos .. writePos + n - 1 THEN arrived + 1 + p - writePos
                     ELSE memory[p]]
      /\ UNCHANGED <<readPos, writePos, open, overlapped, sent, processLen, delivered>>
  BY DEF ProcessRecv, bufferVars, StreamInv, ParsingInv
<1>2. /\ readPos \in Nat /\ writePos \in Nat /\ readPos <= writePos /\ Capacity \in Nat
      /\ writePos + n <= Capacity /\ arrived \in Nat
      /\ memory \in [0 .. Capacity - 1 -> Nat]
  BY <1>1, CapacityType DEF StreamInv, CursorInv, CursorsInBuffer, StreamBytesInv, FreeSize
<1>3. CursorInv' /\ SentInv' /\ DeliveredInv'
  BY <1>1 DEF StreamInv, CursorInv, CursorsInBuffer, RoomUnlessFull, FreeSize, SentInv, EndOf,
     DeliveredInv, Packet
<1>4. ParsingInv'
  BY <1>1 DEF StreamInv, ParsingInv, FreeSize
<1>5. EndOf(Len(sent))' = EndOf(Len(sent)) /\ EndOf(Len(delivered))' = EndOf(Len(delivered))
  BY <1>1 DEF EndOf
<1>6. memory' \in [0 .. Capacity - 1 -> Nat]
  BY <1>1, <1>2
<1>7. StoredEnd' = writePos + n /\ StoredEnd = writePos
  BY <1>1, <1>2 DEF StoredEnd
<1>8. EndOf(Len(delivered)) \in Nat
  BY EndType DEF StreamInv, DeliveredInv
<1>9. arrived' = EndOf(Len(delivered))' + (StoredEnd' - (readPos' + processLen'))
  BY <1>1, <1>2, <1>5, <1>7, <1>8 DEF StreamInv, StreamBytesInv
<1>10. ASSUME NEW p \in readPos' .. StoredEnd' - 1
       PROVE  memory'[p] = arrived' - (StoredEnd' - 1 - p)
  <2>1. p \in Nat /\ p \in 0 .. Capacity - 1 /\ p \in readPos .. writePos + n - 1
    BY <1>1, <1>2, <1>7
  <2>2. CASE p \in writePos .. writePos + n - 1
    BY <1>1, <1>2, <1>7, <2>1, <2>2
  <2>3. CASE p \in readPos .. writePos - 1
    <3>1. memory'[p] = memory[p]
      BY <1>1, <1>2, <2>1, <2>3
    <3>2. memory[p] = arrived - (writePos - 1 - p)
      BY <1>7, <2>3 DEF StreamInv, StreamBytesInv
    <3> QED  BY <1>1, <1>2, <1>7, <2>1, <3>1, <3>2
  <2> QED  BY <1>2, <2>1, <2>2, <2>3
<1>11. StreamBytesInv'
  <2>1. arrived' \in Nat /\ arrived' <= EndOf(Len(sent))'
    BY <1>1, <1>2, <1>5
  <2>2. ~overlapped' =>
          /\ arrived' = EndOf(Len(delivered))' + (StoredEnd' - (readPos' + processLen'))
          /\ \A p \in readPos' .. StoredEnd' - 1 : memory'[p] = arrived' - (StoredEnd' - 1 - p)
    BY <1>9, <1>10
  <2> QED  BY <1>6, <2>1, <2>2, Zenon DEF StreamBytesInv
<1> QED  BY <1>3, <1>4, <1>11 DEF StreamInv

\* The bytes that OnRecvPacket gets are the next packet's.
LEMMA OnRecvPacketKeeps ==
    ASSUME StreamInv, ~overlapped, OnRecvPacket
    PROVE  StreamInv'
<1> DEFINE d == Len(delivered)
           n == d + 1
<1>1. PICK p : p = readPos + processLen
  OBVIOUS
<1>2. /\ received > 0 /\ SizeAt(p) <= received - processLen /\ HeaderSize <= received - processLen
      /\ delivered' = Append(delivered, BytesAt(p, SizeAt(p)))
      /\ processLen' = processLen + SizeAt(p)
      /\ UNCHANGED <<readPos, writePos, open, overlapped, memory, sent, arrived, received>>
  BY <1>1 DEF OnRecvPacket, PacketFits, bufferVars
<1>3. /\ readPos \in Nat /\ writePos \in Nat /\ readPos <= writePos /\ processLen \in Nat
      /\ received \in Nat /\ processLen <= received /\ d \in Nat
      /\ arrived \in Nat
  BY DEF StreamInv, CursorInv, CursorsInBuffer, ParsingInv, DeliveredInv, StreamBytesInv
<1>4. p \in Nat /\ p < StoredEnd
  BY <1>1, <1>2, <1>3 DEF StoredEnd
<1>5. n \in 1 .. Len(sent) /\ memory[p] = sent[n].first /\ SizeAt(p) = sent[n].size
  BY <1>1, <1>4, LoopAtNext
<1>6. /\ sent[n].size \in Nat \ {0} /\ sent[n].first \in Nat \ {0} /\ Len(sent) \in Nat
  <2> HIDE DEF n
  <2> QED  BY <1>5, SentType DEF StreamInv
<1>7. EndOf(n) = sent[n].first + sent[n].size - 1 /\ sent[n].first = EndOf(d) + 1 /\ EndOf(d) \in Nat
  <2>1. n # 0 /\ n - 1 = d /\ d \in 0 .. Len(sent)
    BY <1>3, <1>5
  <2>2. EndOf(n) = sent[n].first + sent[n].size - 1
    BY <2>1 DEF EndOf
  <2>3. sent[n].first = EndOf(n - 1) + 1
    BY <1>5 DEF StreamInv, SentInv
  <2> QED  BY <2>1, <2>2, <2>3, EndType DEF StreamInv
<1>8. ASSUME NEW j \in 1 .. sent[n].size PROVE memory[p + j - 1] = sent[n].first + j - 1 /\ memory[p + j - 1] \in Nat
  <2>1. p + j - 1 \in readPos .. StoredEnd - 1 /\ p \in readPos .. StoredEnd - 1
    <3>1. PICK sz \in Nat : sz = sent[n].size
      BY <1>6
    <3>2. j \in 1 .. sz /\ sz <= received - processLen
      BY <1>2, <1>5, <3>1
    <3> QED  BY ONLY <1>1, <1>3, <1>4, <3>1, <3>2 DEF StoredEnd
  <2>2. /\ memory[p + j - 1] = arrived - (StoredEnd - 1 - (p + j - 1))
        /\ memory[p] = arrived - (StoredEnd - 1 - p)
    BY <2>1 DEF StreamInv, StreamBytesInv
  <2>3. StoredEnd \in Nat
    BY <1>3 DEF StoredEnd
  <2> QED  BY <1>3, <1>4, <1>5, <1>6, <2>2, <2>3
<1>9. BytesAt(p, SizeAt(p)) = Packet(n) /\ Packet(n) \in Seq(Nat)
  <2>1. PICK len \in Nat, first \in Nat : len = sent[n].size /\ first = sent[n].first
    BY <1>6
  <2>2. BytesAt(p, len) = [j \in 1 .. len |-> first + j - 1]
    BY <1>8, <2>1 DEF BytesAt
  <2>3. Packet(n) = [j \in 1 .. len |-> first + j - 1]
    BY <2>1, Zenon DEF Packet
  <2>4. [j \in 1 .. len |-> first + j - 1] \in Seq(Nat)
    <3>1. \A j \in 1 .. len : first + j - 1 \in Nat
      BY <1>6, <2>1
    <3> QED  BY <3>1
  <2>5. BytesAt(p, SizeAt(p)) = BytesAt(p, len)
    BY <1>5, <2>1, Zenon
  <2> QED  BY <2>2, <2>3, <2>4, <2>5
<1>10. /\ delivered' \in Seq(Seq(Nat)) /\ Len(delivered') = n
       /\ delivered'[n] = Packet(n) /\ \A m \in 1 .. d : delivered'[m] = delivered[m]
  <2>1. delivered \in Seq(Seq(Nat)) /\ delivered' = Append(delivered, Packet(n))
    BY <1>2, <1>9 DEF StreamInv, DeliveredInv
  <2> QED  BY <1>9, <2>1
<1>11. DeliveredInv'
  <2>1. \A m : Packet(m)' = Packet(m)
    BY <1>2 DEF Packet
  <2>2. ASSUME NEW m \in 1 .. n PROVE delivered'[m] = Packet(m)
    <3>1. CASE m = n
      BY <1>10, <3>1
    <3>2. CASE m \in 1 .. d
      BY <1>10, <3>2 DEF StreamInv, DeliveredInv
    <3> QED  BY <1>3, <2>2, <3>1, <3>2
  <2> QED  BY <1>2, <1>5, <1>10, <2>1, <2>2 DEF DeliveredInv
<1>12. CursorInv' /\ SentInv'
  BY <1>2 DEF StreamInv, CursorInv, CursorsInBuffer, RoomUnlessFull, FreeSize, SentInv, EndOf
<1>13. processLen' \in 0 .. received
  BY <1>2, <1>3, <1>5, <1>6
<1>14. ParsingInv'
  BY <1>2, <1>13 DEF StreamInv, ParsingInv, FreeSize
<1>15. StreamBytesInv'
  <2>1. EndOf(Len(sent))' = EndOf(Len(sent)) /\ EndOf(Len(delivered))' = EndOf(n) /\ StoredEnd' = StoredEnd
    BY <1>2, <1>10 DEF EndOf, StoredEnd
  <2>2. arrived = EndOf(d) + (StoredEnd - p) /\ StoredEnd \in Nat
    <3>1. arrived = EndOf(d) + (StoredEnd - p)
      BY <1>1, Zenon DEF StreamInv, StreamBytesInv
    <3>2. StoredEnd \in Nat
      BY <1>3 DEF StoredEnd
    <3> QED  BY <3>1, <3>2
  <2>3. EndOf(n) = EndOf(d) + sent[n].size
    <3>1. PICK a, b, c : a = sent[n].first /\ b = sent[n].size /\ c = EndOf(d)
      OBVIOUS
    <3>2. a \in Nat /\ b \in Nat /\ c \in Nat /\ a = c + 1
      BY <1>6, <1>7, <3>1
    <3>3. a + b - 1 = c + b
      BY ONLY <3>2
    <3> QED  BY <1>7, <3>1, <3>3
  <2>4. readPos' + processLen' = p + sent[n].size
    BY <1>1, <1>2, <1>3, <1>5, <1>6
  <2>5. arrived' = EndOf(Len(delivered))' + (StoredEnd' - (readPos' + processLen'))
    <3>1. PICK a, b, c : a = EndOf(d) /\ b = sent[n].size /\ c = StoredEnd
      OBVIOUS
    <3>2. a \in Nat /\ b \in Nat /\ c \in Nat /\ p \in Nat /\ arrived = a + (c - p)
      BY <1>4, <1>6, <1>7, <2>2, <3>1
    <3>3. arrived' = arrived /\ EndOf(Len(delivered))' = a + b /\ StoredEnd' = c
      BY <1>2, <2>1, <2>3, <3>1
    <3>4. a + (c - p) = (a + b) + (c - (p + b))
      BY <3>2
    <3>5. readPos' + processLen' = p + b
      BY <2>4, <3>1
    <3> QED  BY <3>2, <3>3, <3>4, <3>5
  <2> QED  BY <1>2, <2>1, <2>5 DEF StreamInv, StreamBytesInv
<1> QED  BY <1>11, <1>12, <1>14, <1>15 DEF StreamInv

\* Clean keeps the bytes that were not dealt with, wherever it puts them.
LEMMA OnRecvReturnsKeeps ==
    ASSUME StreamInv, ~overlapped, OnRecvReturns
    PROVE  StreamInv' /\ [BufferNext]_bufferVars
<1>1. PICK r, w : r = readPos + processLen /\ w = writePos + received
  OBVIOUS
<1>2. /\ received > 0 /\ MoveCursors(received, processLen)
      /\ memory' = IF r # w /\ MustPull(r, w) THEN Pulled(memory, r, w) ELSE memory
      /\ received' = 0 /\ processLen' = 0
      /\ UNCHANGED <<sent, arrived, delivered>>
  BY <1>1, Zenon DEF OnRecvReturns
<1>3. /\ readPos \in Nat /\ writePos \in Nat /\ readPos <= writePos /\ processLen \in Nat
      /\ received \in Nat /\ processLen <= received /\ open /\ received <= FreeSize
      /\ Capacity \in Nat /\ Capacity >= BufferSize /\ writePos <= Capacity
      /\ overlapped \in BOOLEAN /\ open \in BOOLEAN
  BY <1>2, CapacityType DEF StreamInv, CursorInv, CursorsInBuffer, ParsingInv
<1>4. /\ r \in 0 .. Capacity /\ w \in 0 .. Capacity /\ r <= w /\ readPos <= r
  BY <1>1, <1>3 DEF FreeSize
<1>5. Clean(r, w) /\ open' = open
  <2>1. ~(processLen < 0 \/ processLen > DataSize + received)
    BY <1>3 DEF DataSize
  <2> QED  BY <1>1, <1>2, <2>1, Zenon DEF MoveCursors
<1>6. /\ readPos' \in 0 .. Capacity /\ writePos' \in 0 .. Capacity
      /\ readPos' <= writePos' /\ overlapped' \in BOOLEAN
      /\ Capacity - writePos' < BufferSize => readPos' = 0
      /\ writePos' - readPos' = w - r
  BY <1>3, <1>4, <1>5, CleanStep
<1>7. [BufferNext]_bufferVars
  <2>1. received \in 1 .. Capacity /\ processLen \in -1 .. Capacity + 1
    BY <1>2, <1>3 DEF FreeSize
  <2> QED  BY <1>2, <2>1 DEF BufferNext
<1>8. CursorInv'
  BY <1>7, CursorStep DEF StreamInv
<1>9. SentInv' /\ DeliveredInv'
  BY <1>2 DEF StreamInv, SentInv, EndOf, DeliveredInv, Packet
<1>10. ParsingInv'
  BY <1>2 DEF ParsingInv
<1>11. /\ StoredEnd = w /\ StoredEnd' = writePos' /\ EndOf(Len(delivered))' = EndOf(Len(delivered))
       /\ EndOf(Len(sent))' = EndOf(Len(sent))
  <2>1. StoredEnd = w /\ StoredEnd' = writePos'
    <3>1. writePos' + 0 = writePos'
      <4>1. PICK q : q = writePos'
        OBVIOUS
      <4>2. q \in 0 .. Capacity /\ Capacity \in Nat
        BY <1>3, <1>6, <4>1, Zenon
      <4>3. q + 0 = q
        BY ONLY <4>2
      <4> QED  BY <4>1, <4>3, Zenon
    <3>2. StoredEnd' = writePos' + 0
      BY <1>2, Zenon DEF StoredEnd
    <3>3. StoredEnd = w
      BY <1>1, Zenon DEF StoredEnd
    <3> QED  BY <3>1, <3>2, <3>3, Zenon
  <2>2. EndOf(Len(delivered))' = EndOf(Len(delivered)) /\ EndOf(Len(sent))' = EndOf(Len(sent))
    BY <1>2, Zenon DEF EndOf
  <2> QED  BY <2>1, <2>2
<1>12. /\ arrived \in Nat /\ arrived <= EndOf(Len(sent))
       /\ arrived = EndOf(Len(delivered)) + (w - r)
       /\ memory \in [0 .. Capacity - 1 -> Nat]
       /\ \A p \in r .. w - 1 : memory[p] = arrived - (w - 1 - p)
  <2>1. /\ arrived = EndOf(Len(delivered)) + (w - r)
        /\ \A p \in readPos .. w - 1 : memory[p] = arrived - (w - 1 - p)
    BY <1>1, <1>11, Zenon DEF StreamInv, StreamBytesInv
  <2>2. r .. w - 1 \subseteq readPos .. w - 1
    BY <1>3, <1>4
  <2> QED  BY <2>1, <2>2 DEF StreamInv, StreamBytesInv
<1>13. /\ memory' \in [0 .. Capacity - 1 -> Nat]
       /\ \A p \in readPos' .. writePos' - 1 : memory'[p] = arrived - (writePos' - 1 - p)
  <2>1. CASE r = w
    <3>1. readPos' = 0 /\ writePos' = 0 /\ memory' = memory
      BY <1>2, <1>5, <2>1 DEF Clean
    <3> QED  BY <1>12, <3>1
  <2>2. CASE r # w /\ ~MustPull(r, w)
    <3>1. readPos' = r /\ writePos' = w /\ memory' = memory
      BY <1>2, <1>5, <2>2, Zenon DEF Clean
    <3> QED  BY <1>12, <3>1
  <2>3. CASE r # w /\ MustPull(r, w)
    <3>1. readPos' = 0 /\ writePos' = w - r /\ memory' = Pulled(memory, r, w)
      BY <1>2, <1>5, <2>3, Zenon DEF Clean
    <3>2. memory' = [p \in 0 .. Capacity - 1 |-> IF p < w - r THEN memory[r + p] ELSE memory[p]]
      BY <1>12, <3>1 DEF Pulled
    <3>3. ASSUME NEW p \in 0 .. Capacity - 1, p < w - r
          PROVE  memory[r + p] \in Nat /\ memory[r + p] = arrived - ((w - r) - 1 - p)
      <4>1. r + p \in r .. w - 1 /\ r + p \in 0 .. Capacity - 1
        BY <1>3, <1>4, <3>3
      <4>2. memory[r + p] = arrived - (w - 1 - (r + p))
        BY <1>12, <4>1
      <4> QED  BY <1>3, <1>4, <1>12, <4>1, <4>2
    <3>4. memory' \in [0 .. Capacity - 1 -> Nat]
      BY <1>12, <3>2, <3>3
    <3>5. ASSUME NEW p \in 0 .. (w - r) - 1 PROVE memory'[p] = arrived - ((w - r) - 1 - p)
      <4>1. p \in 0 .. Capacity - 1 /\ p < w - r
        BY <1>3, <1>4
      <4> QED  BY <3>2, <3>3, <4>1
    <3> QED  BY <3>1, <3>4, <3>5
  <2> QED  BY <2>1, <2>2, <2>3
<1>14. arrived' = EndOf(Len(delivered))' + (StoredEnd' - (readPos' + processLen'))
  BY <1>2, <1>6, <1>11, <1>12
<1>15. StreamBytesInv'
  <2>1. arrived' = arrived
    BY <1>2
  <2> QED  BY <1>11, <1>12, <1>13, <1>14, <2>1 DEF StreamBytesInv
<1> QED  BY <1>7, <1>8, <1>9, <1>10, <1>15 DEF StreamInv

\* The peer leaves.
LEMMA ProcessRecvNothingKeeps ==
    ASSUME StreamInv, ProcessRecvNothing
    PROVE  StreamInv' /\ [BufferNext]_bufferVars
<1>1. /\ received = 0 /\ open' = FALSE
      /\ UNCHANGED <<readPos, writePos, overlapped, memory, sent, arrived, received, processLen, delivered>>
  BY DEF ProcessRecvNothing, RecvNothing, parsing
<1>2. [BufferNext]_bufferVars
  BY DEF ProcessRecvNothing, BufferNext
<1>3. CursorInv'
  BY <1>2, CursorStep DEF StreamInv
<1>4. SentInv' /\ ParsingInv' /\ DeliveredInv' /\ StreamBytesInv'
  BY <1>1 DEF StreamInv, SentInv, EndOf, ParsingInv, DeliveredInv, Packet, StreamBytesInv, StoredEnd
<1> QED  BY <1>2, <1>3, <1>4 DEF StreamInv

LEMMA StreamStep == StreamInv /\ [StreamNext]_streamVars => StreamInv' /\ [BufferNext]_bufferVars
<1> SUFFICES ASSUME StreamInv, [StreamNext]_streamVars PROVE StreamInv' /\ [BufferNext]_bufferVars
  OBVIOUS
<1>1. ASSUME NEW size \in PacketSizes, PeerSends(size) PROVE StreamInv' /\ [BufferNext]_bufferVars
  BY <1>1, PeerSendsKeeps DEF PeerSends
<1>2. ASSUME NEW n \in 1 .. Capacity, ~overlapped, ProcessRecv(n)
      PROVE  StreamInv' /\ [BufferNext]_bufferVars
  BY <1>2, ProcessRecvKeeps DEF ProcessRecv
<1>3. CASE ~overlapped /\ OnRecvPacket
  BY <1>3, OnRecvPacketKeeps DEF OnRecvPacket
<1>4. CASE ~overlapped /\ OnRecvReturns
  BY <1>4, OnRecvReturnsKeeps
<1>5. CASE ProcessRecvNothing
  BY <1>5, ProcessRecvNothingKeeps
<1>6. CASE UNCHANGED streamVars
  <2>1. /\ UNCHANGED bufferVars /\ UNCHANGED <<readPos, writePos, open, overlapped>>
        /\ UNCHANGED <<memory, sent, arrived, received, processLen, delivered>>
    BY <1>6 DEF streamVars, parsing, bufferVars
  <2>2. CursorInv'
    BY <2>1, CursorStep DEF StreamInv
  <2>3. SentInv' /\ ParsingInv' /\ DeliveredInv' /\ StreamBytesInv'
    BY <2>1 DEF StreamInv, SentInv, EndOf, ParsingInv, FreeSize, DeliveredInv, Packet, StreamBytesInv, StoredEnd
  <2> QED  BY <2>1, <2>2, <2>3 DEF StreamInv
<1> QED  BY <1>1, <1>2, <1>3, <1>4, <1>5, <1>6 DEF StreamNext

THEOREM StreamInvariance == StreamSpec => []StreamInv
<1>1. StreamInv /\ [StreamNext]_streamVars => StreamInv'
  BY StreamStep
<1> QED  BY <1>1, StreamInitially, PTL DEF StreamSpec

\* Whatever the cuts of the stream, OnRecvPacket gets the peer's packets, and the
\* buffer keeps the rest for the next receive (Session.cpp:245-342).
THEOREM PacketsKept == StreamSpec => []StreamIntact
<1>1. StreamInv => StreamIntact
  <2> SUFFICES ASSUME StreamInv PROVE StreamIntact
    OBVIOUS
  <2>1. PacketsIntact
    BY DEF StreamInv, DeliveredInv, PacketsIntact
  <2>2. ASSUME ~overlapped, received = 0
        PROVE  LET end == EndOf(Len(delivered))
               IN  /\ writePos - readPos = arrived - end
                   /\ BytesAt(readPos, writePos - readPos) = [j \in 1 .. arrived - end |-> end + j]
    <3> DEFINE end == EndOf(Len(delivered))
    <3>1. /\ readPos \in Nat /\ writePos \in Nat /\ readPos <= writePos
          /\ arrived \in Nat /\ end \in Nat /\ processLen = 0
      <4>1. Len(delivered) \in 0 .. Len(sent)
        BY DEF StreamInv, DeliveredInv, SentInv
      <4>2. end \in Nat
        BY <4>1, EndType DEF StreamInv
      <4> HIDE DEF end
      <4> QED  BY <2>2, <4>2 DEF StreamInv, CursorInv, CursorsInBuffer, ParsingInv, StreamBytesInv
    <3>2. StoredEnd = writePos /\ readPos + processLen = readPos
      BY <2>2, <3>1 DEF StoredEnd
    <3>3. /\ arrived = end + (writePos - readPos)
          /\ \A p \in readPos .. writePos - 1 : memory[p] = arrived - (writePos - 1 - p)
      BY <2>2, <3>2, Zenon DEF StreamInv, StreamBytesInv
    <3> HIDE DEF end
    <3>4. writePos - readPos = arrived - end
      BY <3>1, <3>3
    <3>5. ASSUME NEW j \in 1 .. arrived - end PROVE memory[readPos + j - 1] = end + j
      <4>1. readPos + j - 1 \in readPos .. writePos - 1
        BY <3>1, <3>4
      <4>2. memory[readPos + j - 1] = arrived - (writePos - 1 - (readPos + j - 1))
        BY <3>3, <4>1
      <4> QED  BY <3>1, <3>3, <4>2
    <3>6. BytesAt(readPos, writePos - readPos) = [j \in 1 .. arrived - end |-> end + j]
      BY <3>4, <3>5 DEF BytesAt
    <3> QED  BY <3>4, <3>6 DEF end
  <2> QED  BY <2>1, <2>2 DEF StreamIntact, UnreadIsTheRest
<1> QED  BY <1>1, StreamInvariance, PTL

\* What OnRecv makes of the bytes is one of the answers that RecvBuffer allows for:
\* what is proved of the cursors for any answer holds of the stream's.
THEOREM BufferRefined == StreamSpec => BufferSpec
<1>1. StreamInit => BufferInit
  BY DEF StreamInit
<1>2. StreamInv /\ [StreamNext]_streamVars => [BufferNext]_bufferVars
  BY StreamStep
<1> QED  BY <1>1, <1>2, StreamInvariance, PTL DEF StreamSpec, BufferSpec

\* In particular, whatever packets the peer sends, a receive gets room, and memcpy
\* is only given overlapping ranges by a large backlog (Session.cpp:149-150).
COROLLARY StreamReceivesSafely == StreamSpec => ReceivesSafely
  BY BufferRefined, ReceivingIsSafe
=============================================================================
