------------------------------- MODULE Session -------------------------------
(***************************************************************************)
(* One Session of ServerCore/Session.cpp and the worker threads that share *)
(* it: Send, the Register* and Process* pairs around each overlapped       *)
(* operation, Disconnect, and the session's place in Service and in the    *)
(* content code's registry (GameSession::OnConnected, OnDisconnected).     *)
(*                                                                         *)
(* A worker's pc names the statement it executes next and its stack the    *)
(* statements its callers continue with.  Queue accesses are under the     *)
(* session's lock; ProcessSend alone keeps it across other steps           *)
(* (lockedBy), so a section that does not is one step.  The lock excludes  *)
(* (RWLock says when).                                                     *)
(*                                                                         *)
(* An overlapped operation is in Windows' hands from the call that posts   *)
(* it until a worker dequeues its completion; `posted' counts the          *)
(* operations in flight on each IocpEvent.  Its result is chosen when it   *)
(* is dequeued.  Message n is the nth that Send pushed.                    *)
(*                                                                         *)
(* Definitions named after another one and a fault are plausible bugs that *)
(* no action uses.                                                         *)
(***************************************************************************)
EXTENDS Naturals, Sequences, FiniteSets

CONSTANTS
    Workers,          \* threads that run IocpCore::Dispatch
    NoWorker,         \* nobody holds the session's lock
    MaxMsgs,          \* bound: messages pushed
    MaxRecvs,         \* bound: receives that complete with data
    MaxOther,         \* bound: calls that fail on a live connection with an
                      \* error HandleError only logs
    DisconnectFails   \* whether DisconnectEx may fail at once

ASSUME WorkersAssumption == IsFiniteSet(Workers) /\ NoWorker \notin Workers
ASSUME BoundAssumption == MaxMsgs \in Nat /\ MaxRecvs \in Nat /\ MaxOther \in Nat
ASSUME FailAssumption == DisconnectFails \in BOOLEAN

VARIABLES
    pc, stack,      \* each worker's next statement and return addresses
    connected,      \* _connected
    sendQueue,      \* _sendQueue
    sendRegistered, \* _sendRegistered
    lockedBy,       \* the worker inside ProcessSend's WRITE_LOCK
    sendBuffers,    \* _sendEvent.sendBuffers
    owner,          \* owner[op]: the op's IocpEvent refers to the session
    posted,         \* posted[op]: operations in flight on that IocpEvent
    registry,       \* registry[r]: the session's history in a set of sessions
    pushed,         \* messages pushed so far
    wire,           \* messages handed to WSASend successfully
    lost,           \* messages whose WSASend failed
    recvs, others,  \* how much of MaxRecvs and MaxOther is used
    crashed         \* an ASSERT_CRASH or a null dereference stopped the process

threads == <<pc, stack>>
sending == <<sendQueue, sendRegistered, lockedBy, sendBuffers>>
messages == <<pushed, wire, lost>>
budgets == <<recvs, others>>
vars == <<threads, connected, sending, owner, posted, registry, messages, budgets, crashed>>

Ops == {"connect", "recv", "send", "disconnect"}
Registries == {"service", "content"}

Init ==
    /\ pc = [w \in Workers |-> "idle"] /\ stack = [w \in Workers |-> <<>>]
    /\ connected = FALSE
    /\ sendQueue = <<>> /\ sendRegistered = FALSE /\ lockedBy = NoWorker /\ sendBuffers = <<>>
    /\ owner = [op \in Ops |-> op = "connect"]
    /\ posted = [op \in Ops |-> IF op = "connect" THEN 1 ELSE 0]
    /\ registry = [r \in Registries |-> "never"]
    /\ pushed = 0 /\ wire = <<>> /\ lost = <<>>
    /\ recvs = 0 /\ others = 0
    /\ crashed = FALSE

At(w, label) == ~crashed /\ pc[w] = label
Goto(w, label) == pc' = [pc EXCEPT ![w] = label] /\ UNCHANGED stack
Call(w, label, back) ==
    /\ pc' = [pc EXCEPT ![w] = label]
    /\ stack' = [stack EXCEPT ![w] = <<back>> \o @]
Return(w) ==
    /\ pc' = [pc EXCEPT ![w] = Head(stack[w])]
    /\ stack' = [stack EXCEPT ![w] = Tail(@)]

LockFree(w) == lockedBy \in {w, NoWorker}
Post(op) == posted' = [posted EXCEPT ![op] = @ + 1]
SetOwnerForgotten(op, held) == owner' = [owner EXCEPT ![op] = FALSE]
SetOwner(op, held) == owner' = [owner EXCEPT ![op] = held]

\* An error that HandleError only logs, free once the session is disconnected.
OtherError ==
    \/ ~connected /\ UNCHANGED others
    \/ others < MaxOther /\ others' = others + 1

-----------------------------------------------------------------------------
(* Send and RegisterSend *)

Sending == Cardinality({w \in Workers : pc[w] \in {"send", "push"}})
CanSend == pushed + Sending < MaxMsgs

\* Content code that knows the session calls Send, in another session's
\* handler or in a handler of this one.
CallSend(w) ==
    /\ At(w, "idle") \/ At(w, "onRecv")
    /\ registry["content"] # "never" /\ CanSend
    /\ Call(w, "send", pc[w])
    /\ UNCHANGED <<connected, sending, owner, posted, registry, messages, budgets, crashed>>

SendCheck(w) ==
    /\ At(w, "send")
    /\ IF connected THEN Goto(w, "push") ELSE Return(w)
    /\ UNCHANGED <<connected, sending, owner, posted, registry, messages, budgets, crashed>>

WinsSendAlways == TRUE
WinsSend == ~sendRegistered

\* Only the call that turns _sendRegistered on goes on to RegisterSend.
SendPush(w) ==
    /\ At(w, "push") /\ LockFree(w)
    /\ pushed' = pushed + 1
    /\ sendQueue' = Append(sendQueue, pushed + 1)
    /\ sendRegistered' = TRUE
    /\ IF WinsSend THEN Goto(w, "registerSend") ELSE Return(w)
    /\ UNCHANGED <<connected, lockedBy, sendBuffers, owner, posted, registry, wire, lost,
                   budgets, crashed>>

\* A disconnected session keeps _sendRegistered and sends nothing more.
RegisterSend(w) ==
    /\ At(w, "registerSend")
    /\ IF connected THEN Goto(w, "takeQueue") ELSE Return(w)
    /\ UNCHANGED <<connected, sending, owner, posted, registry, messages, budgets, crashed>>

TakeQueue(w) ==
    /\ At(w, "takeQueue") /\ LockFree(w)
    /\ SetOwner("send", TRUE)
    /\ sendBuffers' = sendBuffers \o sendQueue
    /\ sendQueue' = <<>>
    /\ Goto(w, "wsaSend")
    /\ UNCHANGED <<connected, sendRegistered, lockedBy, posted, registry, messages, budgets,
                   crashed>>

WsaSend(w) ==
    /\ At(w, "wsaSend")
    /\ wire' = wire \o sendBuffers
    /\ Post("send")
    /\ Return(w)
    /\ UNCHANGED <<connected, sending, owner, registry, pushed, lost, budgets, crashed>>

WsaSendFailsConnected(w) ==
    /\ At(w, "wsaSend")
    /\ lost' = lost \o sendBuffers
    /\ Goto(w, "sendFailed")
    /\ UNCHANGED <<connected, sending, owner, posted, registry, pushed, wire, budgets, crashed>>

\* HandleError disconnects on WSAECONNRESET and WSAECONNABORTED, and only logs
\* any other error.
WsaSendFails(w) ==
    /\ At(w, "wsaSend")
    /\ lost' = lost \o sendBuffers
    /\ \/ Call(w, "disconnect", "sendFailed") /\ UNCHANGED others
       \/ OtherError /\ Goto(w, "sendFailed")
    /\ UNCHANGED <<connected, sending, owner, posted, registry, pushed, wire, recvs, crashed>>

SendFailedRetries(w) ==
    /\ At(w, "sendFailed") /\ connected
    /\ Call(w, "registerSend", "sendFailed")
    /\ UNCHANGED <<connected, sending, owner, posted, registry, messages, budgets, crashed>>

SendFailed(w) ==
    /\ At(w, "sendFailed")
    /\ SetOwner("send", FALSE)
    /\ sendBuffers' = <<>>
    /\ sendRegistered' = FALSE
    /\ Return(w)
    /\ UNCHANGED <<connected, sendQueue, lockedBy, posted, registry, messages, budgets, crashed>>

-----------------------------------------------------------------------------
(* ProcessSend *)

ProcessSendKeepsBuffers(w) ==
    /\ At(w, "processSend")
    /\ SetOwner("send", FALSE)
    /\ Goto(w, "disconnect") \/ Goto(w, "sendNext")
    /\ UNCHANGED <<connected, sending, posted, registry, messages, budgets, crashed>>

\* The buffers are released whatever the result; 0 bytes is a failed send.
ProcessSend(w) ==
    /\ At(w, "processSend")
    /\ SetOwner("send", FALSE)
    /\ sendBuffers' = <<>>
    /\ Goto(w, "disconnect") \/ Goto(w, "sendNext")
    /\ UNCHANGED <<connected, sendQueue, sendRegistered, lockedBy, posted, registry, messages,
                   budgets, crashed>>

NothingQueuedAssumed == TRUE
NothingQueuedUnchecked == FALSE
NothingQueued == sendQueue = <<>>

\* The lock is kept across RegisterSend.
SendNext(w) ==
    /\ At(w, "sendNext") /\ LockFree(w)
    /\ IF NothingQueued
       THEN /\ sendRegistered' = FALSE
            /\ Return(w)
            /\ UNCHANGED lockedBy
       ELSE /\ lockedBy' = w
            /\ Call(w, "registerSend", "unlock")
            /\ UNCHANGED sendRegistered
    /\ UNCHANGED <<connected, sendQueue, sendBuffers, owner, posted, registry, messages, budgets,
                   crashed>>

Unlock(w) ==
    /\ At(w, "unlock")
    /\ lockedBy' = NoWorker
    /\ Return(w)
    /\ UNCHANGED <<connected, sendQueue, sendRegistered, sendBuffers, owner, posted, registry,
                   messages, budgets, crashed>>

-----------------------------------------------------------------------------
(* Disconnect and ProcessDisconnect *)

WinsDisconnectAlways == TRUE
WinsDisconnectNever == FALSE
WinsDisconnect == connected

\* The one caller that turns _connected off goes on to RegisterDisconnect.
Disconnect(w) ==
    /\ At(w, "disconnect")
    /\ connected' = FALSE
    /\ IF WinsDisconnect THEN Goto(w, "registerDisconnect") ELSE Return(w)
    /\ UNCHANGED <<sending, owner, posted, registry, messages, budgets, crashed>>

\* When DisconnectEx fails nothing else is tried.
RegisterDisconnect(w) ==
    /\ At(w, "registerDisconnect")
    /\ \/ SetOwner("disconnect", TRUE) /\ Post("disconnect")
       \/ DisconnectFails /\ UNCHANGED <<owner, posted>>
    /\ Return(w)
    /\ UNCHANGED <<connected, sending, registry, messages, budgets, crashed>>

ProcessDisconnect(w) ==
    /\ At(w, "processDisconnect")
    /\ SetOwner("disconnect", FALSE)
    /\ Goto(w, "onDisconnected")
    /\ UNCHANGED <<connected, sending, posted, registry, messages, budgets, crashed>>

OnDisconnected(w) ==
    /\ At(w, "onDisconnected")
    /\ registry' = [registry EXCEPT !["content"] = "out"]
    /\ Goto(w, "releaseSession")
    /\ UNCHANGED <<connected, sending, owner, posted, messages, budgets, crashed>>

\* ASSERT_CRASH(_sessions.erase(session) != 0)
ReleaseSession(w) ==
    /\ At(w, "releaseSession")
    /\ IF registry["service"] = "in"
       THEN /\ registry' = [registry EXCEPT !["service"] = "out"]
            /\ Return(w)
            /\ UNCHANGED crashed
       ELSE crashed' = TRUE /\ UNCHANGED <<threads, registry>>
    /\ UNCHANGED <<connected, sending, owner, posted, messages, budgets>>

-----------------------------------------------------------------------------
(* ProcessConnect *)

ProcessConnectUnregistered(w) ==
    /\ At(w, "processConnect")
    /\ SetOwner("connect", FALSE)
    /\ connected' = TRUE /\ Goto(w, "onConnected")
    /\ UNCHANGED <<sending, posted, registry, messages, budgets, crashed>>

\* A failed connection ends here: its Disconnect finds _connected off.
ProcessConnect(w) ==
    /\ At(w, "processConnect")
    /\ SetOwner("connect", FALSE)
    /\ \/ connected' = FALSE /\ Return(w)
       \/ connected' = TRUE /\ Goto(w, "addSession")
    /\ UNCHANGED <<sending, posted, registry, messages, budgets, crashed>>

AddSession(w) ==
    /\ At(w, "addSession")
    /\ registry' = [registry EXCEPT !["service"] = "in"]
    /\ Goto(w, "onConnected")
    /\ UNCHANGED <<connected, sending, owner, posted, messages, budgets, crashed>>

\* The server's sessions greet the client, the client's do not.
OnConnected(w) ==
    /\ At(w, "onConnected")
    /\ registry' = [registry EXCEPT !["content"] = "in"]
    /\ \/ Goto(w, "registerRecv")
       \/ CanSend /\ Call(w, "send", "registerRecv")
    /\ UNCHANGED <<connected, sending, owner, posted, messages, budgets, crashed>>

-----------------------------------------------------------------------------
(* RegisterRecv and ProcessRecv *)

RegisterRecv(w) ==
    /\ At(w, "registerRecv")
    /\ IF connected THEN Goto(w, "wsaRecv") ELSE Return(w)
    /\ UNCHANGED <<connected, sending, owner, posted, registry, messages, budgets, crashed>>

WsaRecv(w) ==
    /\ At(w, "wsaRecv")
    /\ SetOwner("recv", TRUE)
    /\ Post("recv")
    /\ Return(w)
    /\ UNCHANGED <<connected, sending, registry, messages, budgets, crashed>>

WsaRecvFails(w) ==
    /\ At(w, "wsaRecv")
    /\ SetOwner("recv", TRUE)
    /\ \/ Call(w, "disconnect", "recvFailed") /\ UNCHANGED others
       \/ OtherError /\ Goto(w, "recvFailed")
    /\ UNCHANGED <<connected, sending, posted, registry, messages, recvs, crashed>>

RecvFailed(w) ==
    /\ At(w, "recvFailed")
    /\ SetOwner("recv", FALSE)
    /\ Return(w)
    /\ UNCHANGED <<connected, sending, posted, registry, messages, budgets, crashed>>

\* Nothing was received, or the receive buffer cannot hold it.
ProcessRecvNothing(w) ==
    /\ At(w, "processRecv")
    /\ SetOwner("recv", FALSE)
    /\ Goto(w, "disconnect")
    /\ UNCHANGED <<connected, sending, posted, registry, messages, budgets, crashed>>

ProcessRecvEarly(w) ==
    /\ At(w, "processRecv") /\ recvs < MaxRecvs
    /\ recvs' = recvs + 1
    /\ SetOwner("recv", TRUE) /\ Post("recv")
    /\ Goto(w, "onRecv")
    /\ UNCHANGED <<connected, sending, registry, messages, others, crashed>>

ProcessRecv(w) ==
    /\ At(w, "processRecv") /\ recvs < MaxRecvs
    /\ recvs' = recvs + 1
    /\ SetOwner("recv", FALSE)
    /\ Goto(w, "onRecv")
    /\ UNCHANGED <<connected, sending, posted, registry, messages, others, crashed>>

OnRecvReturnsOnly(w) ==
    /\ At(w, "onRecv")
    /\ Return(w) \/ Goto(w, "disconnect")
    /\ UNCHANGED <<connected, sending, owner, posted, registry, messages, budgets, crashed>>

\* OnRecv's result is accepted, or does not fit the buffer.
OnRecvReturns(w) ==
    /\ At(w, "onRecv")
    /\ Goto(w, "registerRecv") \/ Goto(w, "disconnect")
    /\ UNCHANGED <<connected, sending, owner, posted, registry, messages, budgets, crashed>>

-----------------------------------------------------------------------------
(* IocpCore::Dispatch *)

Handler == [connect |-> "processConnect", recv |-> "processRecv",
            send |-> "processSend", disconnect |-> "processDisconnect"]

\* A completion is dequeued and handed to its event's owner, if it has one.
Dispatch(w, op) ==
    /\ At(w, "idle") /\ posted[op] > 0
    /\ posted' = [posted EXCEPT ![op] = @ - 1]
    /\ IF owner[op]
       THEN Call(w, Handler[op], "idle") /\ UNCHANGED crashed
       ELSE crashed' = TRUE /\ UNCHANGED threads
    /\ UNCHANGED <<connected, sending, owner, registry, messages, budgets>>

\* The rest of what a worker does for a completion or a Send.
Continue(w) ==
    \/ SendCheck(w) \/ SendPush(w) \/ RegisterSend(w) \/ TakeQueue(w)
    \/ WsaSend(w) \/ WsaSendFails(w) \/ SendFailed(w)
    \/ ProcessSend(w) \/ SendNext(w) \/ Unlock(w)
    \/ Disconnect(w) \/ RegisterDisconnect(w)
    \/ ProcessDisconnect(w) \/ OnDisconnected(w) \/ ReleaseSession(w)
    \/ ProcessConnect(w) \/ AddSession(w) \/ OnConnected(w)
    \/ RegisterRecv(w) \/ WsaRecv(w) \/ WsaRecvFails(w) \/ RecvFailed(w)
    \/ ProcessRecvNothing(w) \/ ProcessRecv(w) \/ OnRecvReturns(w)

Next == \E w \in Workers : CallSend(w) \/ Continue(w) \/ \E op \in Ops : Dispatch(w, op)

Spec == Init /\ [][Next]_vars

\* A running worker goes on.  When Windows completes an operation is the peer's
\* affair: one that does not read may keep a send from completing for ever, and
\* the code has no timeout.
Fairness == \A w \in Workers : WF_vars(Continue(w))
FairSpec == Spec /\ Fairness

-----------------------------------------------------------------------------
Labels == {"idle", "send", "push", "registerSend", "takeQueue", "wsaSend", "sendFailed",
           "sendNext", "unlock", "disconnect", "registerDisconnect", "onDisconnected",
           "releaseSession", "addSession", "onConnected", "registerRecv", "wsaRecv",
           "recvFailed", "onRecv"} \cup {Handler[op] : op \in Ops}

\* Types; a worker never has more than three callers to return to.
TypeOK ==
    /\ pc \in [Workers -> Labels]
    /\ \A w \in Workers : stack[w] \in Seq(Labels) /\ Len(stack[w]) <= 3
    /\ connected \in BOOLEAN /\ sendRegistered \in BOOLEAN /\ crashed \in BOOLEAN
    /\ sendQueue \in Seq(1 .. MaxMsgs) /\ sendBuffers \in Seq(1 .. MaxMsgs)
    /\ lockedBy \in Workers \cup {NoWorker}
    /\ owner \in [Ops -> BOOLEAN] /\ posted \in [Ops -> Nat]
    /\ registry \in [Registries -> {"never", "in", "out"}]
    /\ pushed \in 0 .. MaxMsgs /\ wire \in Seq(1 .. MaxMsgs) /\ lost \in Seq(1 .. MaxMsgs)
    /\ recvs \in 0 .. MaxRecvs /\ others \in 0 .. MaxOther

\* The worker is at, or will return to, one of the labels.
Within(w, labels) == pc[w] \in labels \/ \E i \in DOMAIN stack[w] : stack[w][i] \in labels

\* Workers between the exchange that made them the registrar, or the dequeued
\* send, and the last line that may touch _sendEvent or _sendRegistered.
SendRegistrars ==
    {w \in Workers : Within(w, {"registerSend", "takeQueue", "wsaSend", "sendFailed",
                                "processSend", "sendNext"})}

\* _sendEvent has one user at a time, be it a worker or Windows: its fields
\* (OVERLAPPED, owner, sendBuffers) are written outside of the lock.
SendEventExclusive == Cardinality(SendRegistrars) + posted["send"] <= 1

\* The same for _recvEvent and the receive buffer.
RecvEventExclusive ==
    Cardinality({w \in Workers : Within(w, {"processConnect", "addSession", "onConnected",
        "registerRecv", "wsaRecv", "recvFailed", "processRecv", "onRecv"})})
        + posted["recv"] + posted["connect"] <= 1

\* While Windows has an operation, its IocpEvent keeps the session alive, and
\* no operation is started on an OVERLAPPED that is still in use.
InFlightIsOwned == \A op \in Ops : posted[op] <= 1 /\ (posted[op] = 1 => owner[op])

\* All three: every IocpEvent and its buffer have one user, whom the session
\* outlives.
EventsExclusive == SendEventExclusive /\ RecvEventExclusive /\ InFlightIsOwned

\* RegisterSend never posts an empty WSASend: it would complete with 0 bytes,
\* and ProcessSend would take that for a failure and disconnect a good session.
NeverSendsNothing == \A w \in Workers : pc[w] = "wsaSend" => sendBuffers # <<>>

\* Messages are sent once, in the order they were pushed.
WireInOrder == \A i, j \in DOMAIN wire : i < j => wire[i] < wire[j]

\* Both: what is handed to WSASend is neither empty nor out of order.
WireExact == NeverSendsNothing /\ WireInOrder

\* A connected session with queued messages has somebody who will send them,
\* or who is about to disconnect it.
NothingStranded ==
    connected /\ sendQueue # <<>> =>
        \/ SendRegistrars # {} \/ posted["send"] = 1
        \/ \E w \in Workers : Within(w, {"disconnect"})

\* The same, as long as no WSASend failed with an error that is only logged.
NothingStrandedUnlessLogged == others = 0 => NothingStranded

\* A connected session that content knows of always has a receive in flight,
\* or a worker that will start one: the peer's leaving is noticed.
ListeningUnlessLogged ==
    others = 0 /\ connected =>
        \/ posted["recv"] = 1
        \/ \E w \in Workers : Within(w, {"addSession", "onConnected", "registerRecv", "wsaRecv",
                                         "recvFailed", "processRecv", "onRecv", "disconnect"})

\* Both: nobody waits for a session that nobody works for.
AttendedUnlessLogged == NothingStrandedUnlessLogged /\ ListeningUnlessLogged

\* A session leaves a set of sessions once and never comes back; it is in the
\* content's set only while it is in the service's.  ReleaseSession always finds
\* it there (Service.cpp:51), and IocpCore::Dispatch its owner (IocpCore.cpp:29-30).
RegistriesNest ==
    /\ [](~crashed)
    /\ [][ /\ \A r \in Registries : registry[r] = "out" => registry'[r] = "out"
           /\ registry'["content"] = "in" => registry'["service"] = "in" ]_registry

\* Windows does not keep an operation of this kind for ever, or not once the
\* session is disconnected.
Completes(op) == []<>(posted[op] = 0)
Cancels(op) == []<>(connected \/ posted[op] = 0)

\* Once a session that was in use is disconnected, it leaves both registries
\* and no event keeps it alive: it is destroyed, if Windows completes DisconnectEx
\* and what it cancels.
DisconnectedIsReleased ==
    (\A op \in Ops : Cancels(op)) =>
        ((registry["service"] = "in" /\ ~connected) ~>
            (registry = [r \in Registries |-> "out"] /\ \A op \in Ops : ~owner[op]))

\* A message that Send accepted is handed to the connection, or the session
\* is disconnected, or the peer lets a send before it wait for ever.
AcceptedIsSent ==
    Completes("send") =>
        \A m \in 1 .. MaxMsgs : pushed >= m ~> (~connected \/ \E i \in DOMAIN wire : wire[i] = m)

\* Both: whatever is begun with a session comes to an end, unless Windows keeps
\* a part of it: no worker, flag or queue does.
BegunIsSettled == DisconnectedIsReleased /\ AcceptedIsSent

\* Taken from the queue, and not yet through WSASend.
Taken == IF \E w \in Workers : pc[w] = "wsaSend" THEN sendBuffers ELSE <<>>

\* Where every failed WSASend disconnects, Send, RegisterSend and ProcessSend
\* together are a pipe that breaks at most once.
Pipe == INSTANCE SendPipe WITH
    accepted <- pushed, pending <- Taken \o sendQueue, broken <- (lost # <<>>)
ImplementsPipe == Pipe!PipeSpec
=============================================================================
