# Verification of the IOCP chat server

TLA+ specifications of `src/`, the configurations that TLC checks them with, and
proofs that TLAPS checks. The program is a Windows chat server in C++: a network
library (`ServerCore`) whose worker threads take completions from one I/O
completion port, a server (`GameServer`) with players and rooms, and a console
client (`DummyClient`). It has no tests; comments and `src/README.md` are its only
statements of intent.

    tlc -workers 2 -config RWLockSpinOut.cfg MCRWLock.tla    # a run
    tlapm RWLockProofs.tla                                   # the proofs of a module

`PROJECT.json` lists the runs, the source lines of every definition (`map`), the
fault each property is known to catch (`mutants`), what the runs found, and the
hazards that the properties are for.

## 1. The system

| component | state | operations | correct when |
|---|---|---|---|
| `Lock` (`ServerCore/Lock.*`) | `_lockFlag` (owner id, reader count), `_writeCount` | Write/ReadLock, Write/ReadUnlock through guards | recursive reader/writer exclusion; the word agrees with the guards; no CRASH for a correct caller; waiters get in |
| `Session` (`ServerCore/Session.*`) | `_connected`, `_sendQueue`, `_sendRegistered`, four `IocpEvent`s with owner references | `Send`, `Disconnect`, Register*/Process* for connect, disconnect, receive, send | events have one user at a time; accepted messages go out once and in order; none is stranded; the session lives as long as Windows uses it, and no longer |
| `RecvBuffer`, `PacketSession::OnRecv` | `_readPos`, `_writePos`, bytes | `onWrite`, `OnRead`, `Clean`, packet assembly | cursors stay in the buffer; packets come out whole, in order, once, as soon as they are complete |
| `Room` (`GameServer/Room.*`) | `_players`, limit | `Enter`, `Leave`, `Broadcast` under the room's write lock | members hear exactly the messages of their stay, in one order; the limit holds |
| `GameSessionManager`, packet handlers | player and room tables, `Player::roomId`, `ownerSession` (weak) | six handlers, connect, disconnect | identities are unique; a player is in one room at most; the records agree with each other and with the client; every question is answered |
| `DummyClient` | `GClient.state`, `session`, `nickname`, `myId`, `currentRoomId`; the log queue | console commands, handlers of the server's packets, the console's loop | the state shown is the state the server has; a line is handled in the state it was typed for; no line vanishes |
| `IocpCore`, `Service` | completion port, set of sessions and their number | `Dispatch`, `CreateSession`, `AddSession`, `ReleaseSession`, `Start` | every completion reaches a live object; the number is that of the set |
| `Listener` | `AcceptEvent`s with their sessions | accept loop with retries | every event is registered once, whatever fails; a session is accepted on once; who connects is greeted |
| `SendBuffer*` | chunks shared by buffers, a pool | `Open`, `Close`, `Push`, `Pop` | live packets do not overlap; a chunk is reused only when no buffer refers to it; none is lost |
| `DeadLockProfiler` | lock-order graph (debug builds) | `PushLock`, `PopLock`, cycle search | reports every cycle, and nothing else |
| `Memory*`, `ObjectPool` | size-class pools | allocate, release | compiled out: `_STOMP` is always defined |

Interaction. A worker (`GameServer.cpp`) calls `IocpCore::Dispatch`, which takes a
completion and calls the owner of its event: a `Session` (or the `Listener`). A
completed receive goes through `RecvBuffer` and `OnRecv` to a packet handler,
which reads and writes the tables of `GameSessionManager`, calls `Room`, and ends
in `Session::Send` for this or for other sessions. `Send` pushes on the queue of
the target and, if no send is under way there, posts one. All shared tables are
guarded by `Lock`. Players refer to sessions weakly, so a session ends while its
player stays.

What is hard here: any worker may handle any completion, so `Send`, `ProcessSend`
and `Disconnect` of one session overlap; fields of `_sendEvent` are used outside
of the lock, protected only by `_sendRegistered`; a session's life is the count of
references in events and registries; handlers answer before they finish updating
the tables, while the client moves on without confirmation; TCP cuts packets
anywhere; connections end at any moment. `hazards` in `PROJECT.json` lists these
line by line.

## 2. The modules

    RWExclusion <- RWLock          SendPipe <- Session <- Listener (its connect)
    (abstract)     |               (abstract)     |
                exclusion assumed by              |   RecvBuffer <- RecvStream
                Session and Room                  |        (packets)
                  MessageBoard <- Room     in-order connection
                    (abstract)       \            |          /
                                      ChatServer (server + clients)
                                          |
                                      ChatClient (one of its clients, that of a user who waits)
                                          |
                                      Client (one client, statement by statement)

    SendBuffer (memory of the packets)     DeadLockProfiler (debug builds of Lock)

The proofs of RWLock, Session, Listener, Room, ChatServer, Client and DeadLockProfiler are in
the modules named after them with `Proofs`, those of the receive path (RecvBuffer, RecvStream) and
of the packets' memory (SendBuffer) in `BufferProofs`.

Each module uses what the one below it promises: `Session` and `Room` treat what
is done under a lock as exclusive (`RWLock`), `Room` and `ChatServer` take `Send`
for an in-order queue (`SendPipe`), `ChatServer` takes packets to be handled one at
a time per session (`Session`'s `EventsExclusive`) and a whole room operation as one
step (`Room` implements `MessageBoard`); `Listener` ends where a session is greeted and `Session` begins with
its connect operation in flight; `Client` takes the server for answers in order. MC modules only add symmetry sets and named constants. Defective
variants such as `FlagEmptyOwnerOnly` sit before the definition they distort; no
action uses them.

**RWExclusion** is what users of `Lock` rely on: guards taken and given back in one
step. **RWLock** is `Lock.cpp` access by access: each atomic load and
compare-exchange is one step, the plain `_writeCount` is read in one step and
stored in another, so that a lost update could happen. The caller's side is the
guards of `Lock.h`, with the nestings its table allows (W-W, W-R, R-R). The "spin
loop" of `WriteLock` is entered by `if (true)`, so after `MAX_SPIN_COUNT` failed
exchanges it returns to the caller as if it owned the lock; `WriteSpinOut` does
that, and `barges` counts it. The exclusion properties hold until the first such
return (`barges = 0`), and so does all else that `UnlessBarged` is said of: after it
`_writeCount` is changed by two threads, the word no longer agrees with the guards and the
CRASHes of the unlocks hit correct callers. That the low half of the word never carries into
the owner's is an assumption on the number of guards (`WidthAssumption`) and part of
`LockSoundUnlessBarged`. Each thread's spin counts down on its own, which is why it
is part of the state. The ten-second limits of both loops are CRASH steps that
may happen whenever a spin budget is used up.

**SendPipe** is what callers of `Session::Send` rely on: messages reach the
connection in order, none skipped, until it breaks, once. **Session** gives every
worker a program counter and return addresses; its steps are the statements that
touch state shared with other workers. `posted[op]` counts the overlapped
operations Windows holds on each event; `owner[op]` is the event's reference to
the session. A completion's result is chosen when it is dequeued. Every call can
fail in each of the two ways `HandleError` tells apart (reset: disconnect; other:
log and go on). `registry` is the session's history in `Service::_sessions` and
in the content's set.

**RecvBuffer** is cursor arithmetic: `MoveCursors(n, processLen)` is a whole
`ProcessRecv` whatever `OnRecv` answers. **RecvStream** extends it with the bytes:
the peer's packets, TCP's cuts, `OnRecv`'s loop, and what `Clean` copies. A byte is its
number in the stream, which is all the properties tell apart; `sent` says where each packet
begins and how long it is. A receive takes a step for the bytes that come in (`ProcessRecv`),
one for each packet that the loop finds (`OnRecvPacket`) and one for its end, with the cursors
(`OnRecvReturns`); meanwhile the peer may send more. `SizeAt` is what the loop reads as a header,
if the place is one. Once `memcpy` was called on overlapping ranges, which is undefined, nothing
more is claimed of the bytes: the run ends there.

**Room** has one thread per player; `Enter`, `Leave` and `Broadcast` take the lock,
and `SendTo` reaches one member after the other (in any order; the code's map goes by
id, which nobody relies on). A member has heard what was handed to its `Session::Send`, which
drops it if the session is disconnected and not yet destroyed (`Session.cpp:20`). `Expire` destroys a session; the player stays. `strict` is
the difference between `Broadcast`, which checks `ownerSession.lock()`, and the
other two, which do not. `log` is the history that says what each player should
have heard. **MessageBoard** is what the handlers rely on of a room, and how `ChatServer`
uses rooms: coming, leaving and chatting are single steps, told to everybody at once. The
refinement counts those still to be reached as told (`Reached`); a session that goes, or a
crash, takes that back for the last message.

**ChatServer** puts server and clients together: six handlers in as many steps as
they have accesses to what others see (`HandleJoinRoom`, `AnswerJoin`, `AssignRoom`
are one C++ function, whose answer is sent before `Player::roomId` is set), the
client's states, its user who types any line the state accepts at any time, and
connections that end. Two histories make the properties precise: `hasty`, the users
who typed on before an answer came, and `crashed`, which dereference stopped the
server and in whose handler.

**Listener** is how connections come about: `StartAccept` by the main thread, then
`ProcessAccept`, `ProcessConnect` and `RegisterAccept` by workers, against Windows (a
backlog, accepts that complete or fail) and clients that connect, are refused or go at
any moment. Session references are counted: a session that no set, no `AcceptEvent`,
no event of its own, no handler and no stack frame refers to is destroyed, which closes its
socket. `ReleaseSession` takes it out of the set only; the operations of its own that Windows
still has (`Session.cpp:127`, `:146`, `:170`) and the workers in its handlers keep it (`closing`) for
as long as they take (`CloseSession`, which has no fairness). `RegisterAccept` calls
itself when `AcceptEx` fails, and each frame keeps its session until all return
(`retried`). Reading the code for the model showed some more:

- `Dispatch` hands out failed completions like successful ones (`IocpCore.cpp:37-40`).
  For accepts that is harmless: the calls that follow fail on a socket without a peer,
  which `SessionsUnshared` states. For a client it is not: after a refused `ConnectEx`
  only `SO_ERROR` could tell, and when it is 0 the session believes to be connected
  (`unreported`, the exception in `KnockIsAnswered`).
- `Disconnect(L"Connect Failed")` (`Session.cpp:220`) does nothing, for `_connected` was
  just cleared: nobody learns that a connection failed.
- `MaxSessionCount` limits the accepts that are pending, not the sessions.
- `StartAccept` creates the listening socket twice; the first one is never closed.

**Client** is one `DummyClient` with its two threads, and its user. A handler is the list of
its statements that others see (`todo`), which the worker executes one by one; a line goes
from the keyboard through `PumpInput`, `HandleInputLine`, `AcquireSession` and `Send`, a
step each. `seen` is the state that the user believes in, from the answers on the screen;
each line carries it (`meant`) and its number, whose `fate` is recorded. `hasty` is a user
who types before the answer to a question is shown: about such a user `HandledAsMeant` and
`RacesOnlyAtPrompt` say nothing. `GClient.state` is read and written with relaxed order; the
log queue's mutex orders it with the lines that tell of it, and the builds are for x86, so
its accesses are steps. **ChatClient** is the client as `ChatServer` has it, with its server: the
actions of the same names, for one client, where the state is looked at and the packet sent in one
step, a packet has its whole effect in one step, and nobody sends while a nickname or a join is
unanswered. `ImplementsChatClient` says that a `Client` is one as long as its user waits and the
connection lasts (`hasty` users are `ChatServer`'s own, and there is nobody to compare with
once the session is gone). `Mode` takes the state that the handler in progress is about to set,
`Waiting` the questions and answers on their way. The other fields of `GClient` are plain, and
a read of one while it is written is a data race. `GClient.session` has one: a prompt is
shown (`ServerPacketHandler.cpp:18`) before the `weak_ptr` is assigned (`:19`), and the nickname typed for it
may be at `lock()` meanwhile (`ClientCommands.cpp:9`). `AcquireSession` lets such a line find
a session or not; a torn `weak_ptr`, which is as undefined, has no behaviour that a model could
give it. `RacesOnlyAtPrompt` says that there is no other race.

**SendBuffer** is the memory that packets are made in. `MakeSendBuffer` and
`SendBufferManager::Open` take a step per access to what is shared (`Pop`, `Push`)
and per change of a chunk; `Swap` is the assignment to `LSendBufferChunk`, whose old
chunk goes only after the new one is in place. A reference count is not stored: who
holds a chunk is read off the state (`LastReference`), and whoever drops the last
reference carries the chunk to the pool (`PushGlobal`). `Release` is a worker that
clears a session's `sendBuffers`. Sizes keep their width: `PayloadSize` and
`PacketSize` are cut as the two `uint16` of `MakeSendBuffer` are, and `Write` writes
the uncut sum.

**DeadLockProfiler** is the profiler with the threads whose guards call it. `PushLock`
is whole, as its mutex makes it: id, edge and, for a new edge, the search. `Dfs`
has nothing to do after the last edge it looks at, so the recursion is told by the calls that
still have edges ahead (`Calls`), the innermost of which goes on: `SearchStep` is one edge or one
new root, and `CheckCycle` as many steps as there are ids and edges. Only a lock without
successors is ever marked as finished (`DeadLockProfiler.cpp:81`), so an edge to a
lock found earlier on another branch counts as one back to an ancestor, against the
comment at `:99`: the order 1-2, 2-3 with 2 found first is reported as a deadlock.
`DeadlocksReported` says what is not missed, `ReportNeedsChain` when a report can be
wrong. The server has such a chain: a room sends under its lock (room, session), and
a `WSASend` that fails inside of `ProcessSend` drops chunks under the session's lock
(session, pool).

## 3. The runs

Passing runs (times with two workers):

| run | instance | checks | size |
|---|---|---|---|
| `RWLockSpinOut` | 3 threads, 2 spins, no nesting of one kind, 1 spin-out | `TypeOK`, `ExclusionUnlessBarged`, `WriteCountRaceFreeUnlessBarged`, `LockSoundUnlessBarged` | 356 k states |
| `RWLockLive` | 2 threads, 2 spins, nesting 2, no spin-out | `ImplementsExclusion`, `WaitersGetIn` | 4 k states |
| `Listener` | 2 workers, 2 accepts, 4 sockets, 2 clients, backlog 1, 1 failed accept | `TypeOK`, `AcceptsConserved`, `SessionsUnshared`, `ExhaustionHasCause`, `KnockIsAnswered` | 204 k states, 1 min |
| `SessionSafety` | 3 workers, 4 messages, 2 receives, 2 logged errors, failing DisconnectEx | `TypeOK`, `EventsExclusive`, `WireExact`, `AttendedUnlessLogged`, `RegistriesNest` | 126 k states |
| `SessionLive` | 3 workers, 3 messages, 1 receive, no logged errors | `ImplementsPipe`, `BegunIsSettled` | 74 k states, 1 min |
| `RecvFragmented` | capacity 9, receives of 3, packets of 2 to 4 bytes, 5 packets | `StreamIntact`, `ReceivesSafely` | 269 k states |
| `RoomSafety` | 3 players, limit 2, 5 messages | `TypeOK`, `HeardExactly`, `ImplementsBoard` | 224 k states |
| `SendBuffer` | 2 threads, 3 chunks of 4 bytes, 3 buffers, five payload sizes | `TypeOK`, `MemoryExclusive`, `CrashNeedsLargePacket` | 1.8 M states, 2 min |
| `DeadLockProfiler` | 3 threads, 4 locks of 3 names, nesting 3 | `TypeOK`, `DeadlocksReported`, `ReportNeedsChain` | 800 k states, 1 min |
| `ChatServer` | 2 users who type 4 and 2 lines, 3 nicknames, 2 room names, limit 2 | `TypeOK`, `IdentitiesDistinct`, `PlacesAgree`, `CrashHasCause`, `NoQuestionLost` | 1.2 M states, 1 min |
| `Client` | a user with 4 lines of 4 kinds, at most 2 of them unread | `TypeOK`, `HandledAsMeant`, `LinesAccountedFor`, `RacesOnlyAtPrompt`, `ImplementsChatClient`, `QuestionIsSettled` | 787 k states, 1 min |

Properties that belong together are checked as one, whose parts the modules name:
`LockSoundUnlessBarged` (the word agrees with the guards, no false alarm), `WireExact` (nothing empty,
nothing out of order), `AttendedUnlessLogged` (somebody sends, somebody receives),
`BegunIsSettled` (a disconnect ends, an accepted message is sent), `ReceivesSafely` (cursors,
room, what `memcpy` is given), `MemoryExclusive` (bytes, chunks), `DeadlocksReported` (cycles; what is not one),
`PlacesAgree` (one room at a time, records, hearing).

Why the bounds are enough. *Lock:* three threads are an owner, one that competes and
one that interferes with either; two spins give every loop an iteration that fails
and one that comes after it; the proofs cover all other values. *Session:* every
race here is between one worker in `ProcessSend` or `RegisterSend` and two others;
four messages let a queue fill up while a send is posted, while one fails and while
its failure is handled; the proofs cover more; two receives let one follow another. *RecvStream:* the
capacity, three receives, lets `Clean` reset, leave, and move the bytes, with and
without overlap; packets are smaller, equal and larger than one receive; the proofs cover all other values. *Room:* one
member, one that enters or leaves and one that is refused by the limit; five
messages are an enter of each, a leave and a message that must not reach the one
who left; the proofs cover all other values. *SendBuffer:* packets of two and three bytes in a chunk
of four make one that fits twice, one that fits once and a remainder that is too
small; the other payloads are one that no chunk holds, one whose header makes the
size wrap around and one that is itself cut; three chunks are one of each thread and
one that goes between them; the proofs cover all other values. *Listener:* two accepts are one that fails and one that goes
on, or two that complete for two clients; four sockets are the two of the accepts, one of a
connected session and one of a retry, so that the last ones do run out; a backlog of one makes a
second client be refused; the proofs cover all other values. *Client:* four lines are a nickname, a
join, a leave and one more, each of which may come early, twice or in place of another; two unread
lines are what it takes for one to replace the other. *DeadLockProfiler:* three names are the smallest order
with a chain, a cycle that is no pair and ids in any order; two rooms share a name;
three threads can wait in a ring. *ChatServer:* four and two lines are what the longest interesting stories take:
nickname and join twice with two ids of one hasty user so that a room is full for
the other user; nickname, join, leave, join again; or two users in two rooms, one
of whom chats.

One run ends in a violation and shows a disagreement between the code and its comments
(`findings` quotes the lines): `RecvLeftBehind`, for `OnRecv` is told the size of the last
receive, not of the unread bytes, so that a packet cut by TCP is delivered late or never
(`Session.cpp:260`).

Other defects are stated as what they need, by properties that hold:

- `ExclusionUnlessBarged` (`RWLockSpinOut`): a `WriteLock` that spins out enters beside the
  owner (`Lock.cpp:22`, a loop entered by `if (true)`), against the comment at `Lock.cpp:19`;
  until then guards exclude each other. `WriteCountRaceFreeUnlessBarged` and
  `LockSoundUnlessBarged` have the same premise, and fail in the code without it.
- `ImplementsBoard` (`RoomSafety`) and `CrashNeedsDeadMember` (proved): `Enter` and `Leave`
  dereference a member's session without a check (`Room.cpp:28`, `:52`), and do crash once a
  client has gone without leaving; nothing else crashes a room.
- `CrashHasCause` (`ChatServer`): besides that and a join of a room that does
  not exist (`ClientPacketHandler.cpp:109` dereferences the null room after
  `ROOM_NOT_FOUND` was prepared), only chat
  of a user who did not wait for an answer stops the server
  (`ClientPacketHandler.cpp:119`).
- `AttendedUnlessLogged` (`SessionSafety`): messages wait with nobody to send
  them only after a `WSASend` error that is merely logged (`Session.cpp:205`).
- `CrashNeedsLargePacket` (`SendBuffer`): only a packet larger than a chunk, such as a
  long room list, hits the assertions of `SendBuffer.cpp`.
- `ExhaustionHasCause` (`Listener`): a server that cannot create another socket crashes
  (`Service.cpp:37`, `Listener.cpp:94`); every socket is then one of a connected session, of a
  released one that an event or a handler still owns, of an accept or of a retry on some stack.
- `RacesOnlyAtPrompt` (`Client`): `GClient.session` is read and assigned at the same time by a
  user quick enough at a prompt (`ServerPacketHandler.cpp:18-19`), and nothing else is while users wait.
- `BegunIsSettled` (`SessionLive`) and `QuestionIsSettled` (`Client`) need premises that the code has
  no timeout for: Windows does not keep an operation for ever, packets are delivered.
- `LinesAccountedFor` (`Client`): a line is lost when it is typed faster than the console
  polls (`ConsoleUI.cpp:71`), or when it comes between the first prompt and the assignment of
  `GClient.session` (`ServerPacketHandler.cpp:17-19`), and never otherwise.
- `ReportNeedsChain` and `DeadlocksReported` (`DeadLockProfiler`): when the
  profiler may be wrong, in either direction.

Deadlock checking is off where a behaviour really ends: a CRASH stops the process, a
session's life is over, the stream or the budget of lines is used up.

## 4. Fairness

`RWLock`: weak fairness of `Continue` and `Release`: threads are scheduled, and a
guard's scope ends, as every guard in the sources is a local variable of a block
without waiting. No fairness for a particular thread's exchange: the lock is not
starvation free, and `WaitersGetIn` does not say so.

`Session`: workers loop for ever (`GameServer.cpp`), so each goes on (weak fairness). Nothing else
has fairness. When Windows completes an operation is the peer's affair: a peer may say nothing for
ever, which keeps a receive, or stop reading, which keeps a send, and the code has no timeout
for either. So the two parts of `BegunIsSettled` have premises of their own: an accepted
message is sent, or the session disconnects, if Windows does not keep the operation of a send
for ever (`Completes`); a disconnected session is released if no operation stays for ever once the
session is disconnected (`Cancels`), as `DisconnectEx` and what it cancels complete. What is left to
show is that no flag, queue or worker keeps what Windows gave back. `SessionLive`
assumes that `DisconnectEx` does not fail at once, after which nobody tries again, and that
errors are not of the kind that is only logged; `SessionSafety` has both.

`Listener`: each thread goes on; Windows completes a pending accept when there is a
connection; every completion is dequeued by some worker. Neither clients nor `AcceptEx`
calls that fail have any, nor the end of a session.

`Client`: both threads run. The user need not type, the server need not answer, the connection need
not end, and a packet may stay on its way for ever, as `RecvLeftBehind` shows of the client's
own receive buffer and a `WSASend` error that is only logged does of the sender's queue. `QuestionIsSettled`
speaks of behaviours where packets do not (`Delivered`: again and again nothing is on its way); there it
says that neither thread drops an answer between the socket and the screen.

`ChatServer` has no fairness: a user need not type, and `NoQuestionLost`
states as an invariant that every question is on its way, being answered, or
answered.

## 5. What is proved

`RWLockProofs` (for every finite set of threads, every spin budget, every nesting
depth below 65535, as long as all read guards together are below 65536, and every number of spin-outs):

- `TypeCorrect`: `Spec => []TypeOK`, from `TypeInv`, which adds that a thread about
  to nest a guard has room for it.
- `Invariance`: the inductive invariant `IInv == TypeInv /\ (barges = 0 => LockInv)`.
  `LockInv` says that the word has an owner exactly while that thread is in its
  write section (`OwnerInv`), that the low half is the number of read guards and
  only the owner may have any under an owner (`ReaderInv`), and that `_writeCount`
  is the owner's nesting depth up to the `++` or `--` in progress (`CountInv`). None
  of them is inductive alone: the compare-exchange of a reader is safe because the
  word names the owner, giving the word back is right because the count is the
  depth, and the count is race-free because the word excludes others.
- `Exclusion`, `CountRaceFree`, `WordAgrees`, `NoFalseAlarms` and the last two as
  `Soundness` follow from it. Each is about the time before the first spin-out. `GuardsFit`
  bounds the read guards by `WidthAssumption`.
- `Refinement`: if no writer spins out, `RWLock` implements `RWExclusion`.
- The counting lemmas (`GuardsAdd`, `GuardsDrop`) connect the number of read guards
  to the reader count through cardinalities of finite sets.

`BufferProofs`, the receive path (for every buffer size and count, size of the header, set of packet sizes and
number of packets):

- `CursorsSafe`, `RoomForReceive` and `OverlapBound`, together `ReceivingIsSafe`, from
  `CursorInv == CursorsInBuffer /\ RoomUnlessFull`, with `CleanStep` saying what `Clean` leaves of
  ordered cursors. They speak of `BufferSpec`, where `OnRecv` may answer anything.
- `PacketsKept`: `StreamSpec => []StreamIntact`, from `StreamInv`. `BytesInv` says which byte of the stream
  is at which place: from the read cursor to the end of what was received lie the last bytes that
  arrived, and what is before the loop's position has been delivered. So the loop is always at the
  first byte of a packet (`LoopAtNext`), which is why what it reads there is a header; this needs
  `SentInv`, that packets follow each other without gap and none has the first byte of another.
  `OnRecvReturnsKeeps` goes through the three ways of `Clean`.
- `BufferRefined`: `StreamSpec => BufferSpec`, so what is proved for any answer of `OnRecv` holds of
  its real ones (`StreamReceivesSafely`). It needs the invariant: the cursors
  never see more bytes dealt with than were received.

`ListenerProofs` (for every number of workers, accepts, sockets, clients, connections in the
backlog and failures): `TypeCorrect`, `EventsKept` and `NoSharing`, from `IInv`, which adds
to `TypeOK` four parts, each about what the next one needs. `EventInv`: an event that a thread
uses is taken, or still new and main's, and has no other user; what main has not registered is
new. `LocalInv`: `ProcessAccept`'s `session` is the event's, and has a peer once it is known to be
connected. `SessionInv`: the sessions of the events are distinct, and in the service's set
only between `AddSession` and the next `RegisterAccept`, which is why `_sessionCount` counts none
twice. `PeerInv`: a client is at one place at most, in the backlog or at one session.
`ExhaustionExplained` is a counting argument: `StackInv` ties the sessions that a stack of
`RegisterAccept`s keeps to its thread's event, so where no session is free (`ExhaustedInv`), every
one of them is in the service's set, released and not yet closed, at an event, or counted by `Retries`.
`SessionInv` says of the released ones what it says of those in the set: an event has one of
them only until its next `RegisterAccept`.

`SessionProofs` (for every number of workers, messages, receives and errors), in three parts, each
on top of the one before:

- `EventsHaveOneUser` and `RegistriesStayNested`, from `IInv`. A worker is within a
  label when it is there or has it on its stack. The labels that use an event form a group (send,
  receive, disconnect), and `SendInv`, `RecvInv` and `DisconnectInv` say that at most one worker is
  within a group, once, never while Windows has the event's operation, and for a send only under
  `_sendRegistered`. Each group has one way in, an exchange that one worker wins or a completion that is
  dequeued, and this is what every step preserves (one lemma per action). `StackInv` is the shape of
  the stacks, `OwnerInv` the events' references, `RegistryInv` the two registries and what nobody can
  do before `OnConnected`.
- `WireIsExact` and `NobodyWaits`, from `DInv` on top of it. The messages on
  the wire, in `sendBuffers` and in the queue are three increasing sequences, one before the other
  (`OrderInv`); who has taken the queue finds it non-empty (`QueueInv`); a connected session always has
  somebody who sends, receives or is about to disconnect it (`AttendedInv`, `LostInv`).
  `Refinement`: if no failure is merely logged (`MaxOther = 0`), `Session`
  implements `SendPipe`. Every step is a push, a transfer of the whole queue, a break or a stutter.
- `TypeCorrect`, from `BInv`, whose parts the safety above does not need: how deep the stack may be at
  each label (`DepthInv`, which bounds the recursion of calls that end in `Disconnect`), and that the
  messages pushed and those about to be (`MessageInv`, a cardinality) stay within their number.

`BufferProofs`, the memory of packets (for every number of threads, chunks, buffers and packets, every chunk size
and width): `MemoryIsExclusive`, `CrashIsLargePacket` and `TypeCorrect`. `CallInv` says what each label
of `MakeSendBuffer` and of the deleter may rely on; `OpenInv` that an open chunk has its writer;
`HolderInv` that a chunk in the pool or carried to it has no buffer and no thread, and is there
once; `KeptInv` that every chunk is somewhere; `BytesInv` that closed packets lie below `_usedSize` and
an open one starts there. The last two need `HolderInv`: `Reset` sets `_usedSize` to 0, which is safe
only for a chunk without packets. `Sizes` is the arithmetic of the two `uint16`.

`RoomProofs` (for every finite set of players, every limit and number of messages): `ExactlyHeard`,
`CrashHasDeadMember` and `TypeCorrect`. `MemberInv` ties the map of members to the history of enters and
leaves, `HeardInv` says that only players still to be reached miss a message, and only the last one,
`OrderInv` that what was heard has no repetition and no gap. `HistoryGrows` is the one fact about
the history that the three announcing actions need, in `AnnounceStep`. `Refinement`:
`Room` implements `MessageBoard`; it rests on `LockInv` alone, that nobody is left to be
reached when the lock is free. `CrashHasDeadMember` follows from `IInv`, and is what `Close` of the board says.

`ChatServerProofs` (for every finite set of users and every set of names, rooms and lines):
`IdentitiesKept`, `QuestionsKept` and `TypeCorrect`. A player that `AddPlayer` has made has no session
and belongs to one handler (`FreshInv`); from the moment the handler sets `ownerSession`, its id is
known only to that session's packets, handler and client (`KnownInv`), so two clients with one id
would be two sessions of one player. Names follow from `TableInv`. The state of a client is part of
it: who is in the lobby or in a room has an id, which is what makes the ids in its requests
those of players. `NoQuestionLost` is inductive once nobody asks before the session is there
(`AskedInv`). All steps of handlers go through `HandlerStep`: a handler takes at most the first request
of its session, and only lets queues of answers grow.

`PlacesKept` and `CrashesExplained` are of the users who wait for answers, from `PInv`
(`PlaceInvariance`), on top of it. `PlacesAgree` compares four things that are never all up to
date: where the client believes to be, what its last requests ask for, what its handler is
about to write, and what the answers on their way say. `Within` is their disjunction, `Home` the room
that counts, and `PlaceInv` says that exactly the room `Home` has the player, exactly while it is
`Within`. This is inductive only for a user with one open question (`QuestionInv`), asked in the state
that its answer expects (`StateInv`), who gets one id (`NameInv`), whose chat precedes its leaving and
whose joining follows it (`LeaveInv`), and whose last join is the one in progress (`AimInv`); `HearInv`
is the same for the chat on its way to it. `Explained` ties each crash to its cause.

`ClientProofs` (for every number of lines, typed ahead or not, and every set of texts): `TypeCorrect`,
`LinesKept`, `RacesConfined` and `LinesHandledAsMeant`, from `ClientInv == KeptInv /\ QuestionInv /\ MeantInv`.
`KeptInv` gives every number that was typed a place (keyboard, the line in hand) or a fate (`FateInv`),
and says from which statement of the handler on the session is there. `QuestionInv`, of users who wait:
at most one of line, request, answer and handler statement is about the open question, and what a handler or the log still has
to do fits the state (`HandlerState`, `LogState`), so the handler writes fields only while no line
can read them; the session is the exception, which a prompt's handler may still assign (`QuestionRaces`). `MeantInv` says what state the line being handled and the next one were typed for,
as long as no line is lost: after a leave that is handled but not yet answered, the user is ahead of the client by one step.

`Refinement` is that `Client` implements `ChatClient`. The worker's `Receive` is the whole effect of
the packet and what it then executes is not seen, for a handler sets the state at most once
(`SetsOnce`, which gives `Mode` its value: `ModeIs`). `Send` is the whole line: between the look at
`GClient.state` and the packet, no answer was due and no handler had a state to set
(`SendingMode`, from `QuestionInv`), so the state looked at is still `Mode`.

`DeadLockProfilerProofs` (for every number of threads, locks, names and guards). Two theorems are
about the search, for every finite graph: `SearchFindsCycles` (a set of ids each of which
has an edge into the set raises the alarm) and `AlarmNeedsChain`. They rest on an invariant of
the search (`SearchInv`): while there is no alarm, every edge looked at leads to an id that was
discovered later or is a leaf (`SeenForward`). When no edge is ahead, every edge has been looked at
(`SearchEnds`), and the id of the cycle that was discovered last has nowhere to go. That the search
does end is an induction over its steps, each of which looks at an edge or discovers an id
(`SearchProgress`, `WorkDone`); the library's induction theorems cannot be used, and sets of numbers
take their place: `LeastNumber` (from well-foundedness), `Counting`, and `Iterate`, which gives a
recursive function its equation. For the program, `IInv` is `TypeInv`, `ThreadsInv` (the
profiler's stack has the names of a thread's locks, and its neighbours are edges of the
history; no lock has two holders) and the two properties themselves. `TypeCorrect`, `NoCycleGoesOn`,
`ReportsNeedChain` follow at once. `DeadlocksFound` turns a ring of waiting threads into a cycle: the
name each waits for is at the top of its stack (`TopOfStack`) and on the stack of the thread that
owns it (`OwnedOnStack`), from where edges climb to that one's top (`Climbs`), unless a step is
between two locks of one name (`DeadlockIsCycle`).

Assumptions: the named ASSUMEs of the modules (positive sizes, finite sets, null values that are
none of the others, bounds on nesting and on read guards so that neither 16-bit count wraps), which TLC also
evaluates.

Every invariant, action property and refinement that a run checks is proved. Only model-checked:
liveness (`WaitersGetIn`, `BegunIsSettled`, `KnockIsAnswered`, `QuestionIsSettled`), for fairness
and ENABLED are out of the prover's reach.

## 6. What is left out, and why

- *Words, formatting, logging, packet text.* Only kinds, ids and identities matter.
- *Malformed packets* and headers of size 0: the peer is this client.
- *IocpCore's failed dequeue* without an event: the port is never closed. `Service::Broadcast`,
  `CloseService`, `Listener::CloseSocket`: never called.
- *RemovePlayer, RemoveRoom*: no caller.
- *Memory pools*: compiled out by `_STOMP`. *BufferReader/Writer, RefCounting,
  TypeCast*: unused. *SocketUtils, NetAddress*: thin wrappers. *The console's* cursor,
  colours and unfinished line: display only. *Protocol buffers*: generated and vendored, more
  than 98 % of the repository's lines; about 4400 are written by hand. *PacketGenerator*: offline.
- *The client's list of players*, which nothing reads, and in `Client` what other users cause
  to be shown, which changes no state.
- *`GetPlayerCount` for a room list* (`ClientPacketHandler.cpp:55`) reads a map's size without
  the room's lock. The number is displayed and nothing else; what a torn read would be is
  not a property of the model.
- *Readers and writers* in `DeadLockProfiler`: the profiler does not tell them apart, and
  the threads of the model exclude each other; `thread_local` data at thread exit
  (workers never return).
- The release of references by events is one step with the statement around it.

## 7. Plan

Done: lock, listener, receive path, session, room, the memory of packets, and the composition of
server and clients with proofs; the lock profiler and the client's two threads.

Proved: everything that a run checks, but liveness: types, safety, and the refinements of
the lock, the session, the receive path, the room and the client.

Left: that the rooms of `ChatServer` are boards too (it keeps no history of what was told), and
that its clients, one by one, are `ChatClient`s (the actions are the same by reading).
Not planned: the size-class table of `Memory.cpp`, which no build uses.
