------------------------------ MODULE Listener ------------------------------
(***************************************************************************)
(* How connections come about: ServerService::Start and the Listener with  *)
(* its AcceptEvents (Listener.cpp), the sets of sessions of a Service      *)
(* (Service.cpp), the completions that IocpCore::Dispatch hands out        *)
(* whether they succeeded or not, and the client's side of it              *)
(* (ClientService::Start, Session::RegisterConnect and ProcessConnect).    *)
(*                                                                         *)
(* A thread between two of its statements is at a label.  Main runs        *)
(* StartAccept; the workers are launched once it returned.  An AcceptEx is *)
(* Windows' from RegisterAccept until a worker dequeues its completion.    *)
(* Session references are counted: a session that no set, no AcceptEvent,  *)
(* no event of its own, no handler and no stack frame refers to is         *)
(* destroyed, and its socket is free for another.  What a session does     *)
(* once it is greeted is in Session.                                       *)
(*                                                                         *)
(* Definitions named after another one and a fault are plausible bugs that *)
(* no action uses.                                                         *)
(***************************************************************************)
EXTENDS Naturals, Sequences, FiniteSets

CONSTANTS
    Workers,         \* the server's threads that run IocpCore::Dispatch
    Main,            \* the server's main thread
    MaxSessionCount, \* _maxSessionCount: how many AcceptEvents there are
    Sessions,        \* bound: sessions the server can have sockets for at a time
    NoSession,       \* an AcceptEvent's session before it is set
    Clients,         \* the client processes, each with one session
    NoClient,        \* the peer of a socket that is not connected
    BacklogSize,     \* connections Windows keeps for the listening socket
    MaxFailures      \* bound: AcceptEx calls and accepts that fail

ASSUME ThreadsAssumption == IsFiniteSet(Workers) /\ Main \notin Workers
ASSUME SessionsAssumption == IsFiniteSet(Sessions) /\ NoSession \notin Sessions
ASSUME ClientsAssumption == IsFiniteSet(Clients) /\ NoClient \notin Clients
ASSUME NumbersAssumption ==
    MaxSessionCount \in Nat \ {0} /\ BacklogSize \in Nat \ {0} /\ MaxFailures \in Nat

VARIABLES
    listening,     \* Listen was called on the listener's socket
    stopped,       \* why the server's process ended, or "no"
    pc,            \* each server thread's next statement
    event,         \* the AcceptEvent it works on, or 0
    local,         \* ProcessAccept's local variable session
    retried,       \* sessions of the RegisterAccept frames below the running one
    accept,        \* accept[e]: where e's AcceptEx is
    acceptSession, \* acceptSession[e]: acceptEvent->session
    peer,          \* the client a session's socket is connected to
    sessions, sessionCount, \* the server's _sessions and _sessionCount
    closing,       \* sessions no longer in _sessions that their events or handlers own
    backlog,       \* connections no AcceptEx took yet
    link,          \* link[c]: the TCP connection of c
    view,          \* view[c]: what c's own session knows of it
    greeted,       \* clients whose session's OnConnected ran at the server
    unreported,    \* clients whose ConnectEx failed while SO_ERROR is 0
    failures       \* how much of MaxFailures is used

threads == <<pc, event, local, retried>>
accepts == <<accept, acceptSession, peer>>
service == <<sessions, sessionCount, closing>>
clients == <<link, view, unreported>>
vars == <<listening, stopped, threads, accepts, service, backlog, clients, greeted, failures>>

Threads == Workers \cup {Main}
AcceptEvents == 1 .. MaxSessionCount

Init ==
    /\ listening = FALSE /\ stopped = "no"
    /\ pc = [t \in Threads |-> IF t = Main THEN "start" ELSE "launch"]
    /\ event = [t \in Threads |-> IF t = Main THEN 1 ELSE 0]
    /\ local = [t \in Threads |-> NoSession] /\ retried = [t \in Threads |-> {}]
    /\ accept = [e \in AcceptEvents |-> "new"]
    /\ acceptSession = [e \in AcceptEvents |-> NoSession]
    /\ peer = [s \in Sessions |-> NoClient]
    /\ sessions = {} /\ sessionCount = 0 /\ closing = {}
    /\ backlog = <<>>
    /\ link = [c \in Clients |-> "off"] /\ view = [c \in Clients |-> "waiting"]
    /\ greeted = {} /\ unreported = {} /\ failures = 0

At(t, label) == stopped = "no" /\ pc[t] = label
Goto(t, label) == pc' = [pc EXCEPT ![t] = label]
Fail == failures < MaxFailures /\ failures' = failures + 1
Stop(why) == stopped' = why

-----------------------------------------------------------------------------
(* ServerService::Start and Listener::StartAccept *)

\* Sockets are created, set up, bound and listened on; then the first
\* AcceptEvent is registered.
StartAccept ==
    /\ At(Main, "start")
    /\ listening' = TRUE
    /\ Goto(Main, "registerAccept")
    /\ UNCHANGED <<stopped, event, local, retried, accepts, service, backlog, clients, greeted,
                   failures>>

\* One of these calls fails, and main's ASSERT_CRASH ends the process.
StartFails ==
    /\ At(Main, "start")
    /\ Stop("start")
    /\ UNCHANGED <<listening, threads, accepts, service, backlog, clients, greeted, failures>>

\* GThreadManager->Launch, once all AcceptEvents are registered.
Launch(w) ==
    /\ At(w, "launch") /\ pc[Main] = "started"
    /\ Goto(w, "idle")
    /\ UNCHANGED <<listening, stopped, event, local, retried, accepts, service, backlog, clients,
                   greeted, failures>>

-----------------------------------------------------------------------------
(* Listener::RegisterAccept and ProcessAccept *)

Referenced ==
    sessions \cup closing \cup {acceptSession[e] : e \in AcceptEvents} \cup {local[t] : t \in Threads}
        \cup UNION {retried[t] : t \in Threads}
Free == Sessions \ Referenced

NewSessionOrOld(e) ==
    IF acceptSession[e] = NoSession THEN CHOOSE s \in Free : TRUE ELSE acceptSession[e]
NewSession(e) == CHOOSE s \in Free : TRUE

\* All frames of t return: the references they held are gone.  StartAccept
\* goes on with the next event.
RegisterReturns(t) ==
    /\ local' = [local EXCEPT ![t] = NoSession]
    /\ retried' = [retried EXCEPT ![t] = {}]
    /\ IF t = Main /\ event[t] < MaxSessionCount
       THEN event' = [event EXCEPT ![t] = @ + 1] /\ UNCHANGED pc
       ELSE Goto(t, IF t = Main THEN "started" ELSE "idle") /\ event' = [event EXCEPT ![t] = 0]

\* A new session for the event, and AcceptEx.
RegisterAccept(t) ==
    /\ At(t, "registerAccept") /\ Free # {}
    /\ LET s == NewSession(event[t])
       IN  /\ acceptSession' = [acceptSession EXCEPT ![event[t]] = s]
           /\ peer' = [peer EXCEPT ![s] = NoClient]
    /\ accept' = [accept EXCEPT ![event[t]] = "pending"]
    /\ RegisterReturns(t)
    /\ UNCHANGED <<listening, stopped, service, backlog, clients, greeted, failures>>

AcceptExFailsQuietly(t) ==
    /\ At(t, "registerAccept") /\ Free # {} /\ Fail
    /\ LET s == NewSession(event[t])
       IN  /\ acceptSession' = [acceptSession EXCEPT ![event[t]] = s]
           /\ peer' = [peer EXCEPT ![s] = NoClient]
    /\ RegisterReturns(t)
    /\ UNCHANGED <<listening, stopped, accept, service, backlog, clients, greeted>>

\* AcceptEx fails: RegisterAccept calls itself, and this frame keeps its session.
AcceptExFails(t) ==
    /\ At(t, "registerAccept") /\ Free # {} /\ Fail
    /\ LET s == NewSession(event[t])
       IN  /\ acceptSession' = [acceptSession EXCEPT ![event[t]] = s]
           /\ peer' = [peer EXCEPT ![s] = NoClient]
           /\ retried' = [retried EXCEPT ![t] = @ \cup {s}]
    /\ UNCHANGED <<listening, stopped, pc, event, local, accept, service, backlog, clients, greeted>>

\* CreateSession cannot register the session and returns null, which
\* RegisterAccept dereferences.
NoMoreSessions(t) ==
    /\ At(t, "registerAccept") /\ Free = {}
    /\ Stop("noSession")
    /\ UNCHANGED <<listening, threads, accepts, service, backlog, clients, greeted, failures>>

\* IocpCore::Dispatch, for a completion that may be that of a failed AcceptEx.
Dispatch(w, e) ==
    /\ At(w, "idle") /\ accept[e] = "done"
    /\ accept' = [accept EXCEPT ![e] = "taken"]
    /\ event' = [event EXCEPT ![w] = e]
    /\ local' = [local EXCEPT ![w] = acceptSession[e]]
    /\ Goto(w, "processAccept")
    /\ UNCHANGED <<listening, stopped, retried, acceptSession, peer, service, backlog, clients,
                   greeted, failures>>

\* The calls on the accepted socket may fail once its client has gone.
MayFail(s) == peer[s] \notin {c \in Clients : link[c] = "established"}

ProcessAcceptUnchecked(w) ==
    /\ At(w, "processAccept")
    /\ Goto(w, "processConnect")
    /\ UNCHANGED <<listening, stopped, event, local, retried, accepts, service, backlog, clients,
                   greeted, failures>>

ProcessAcceptGivesUp(w) ==
    /\ At(w, "processAccept")
    /\ \/ /\ MayFail(local[w]) /\ Goto(w, "idle")
          /\ local' = [local EXCEPT ![w] = NoSession] /\ event' = [event EXCEPT ![w] = 0]
       \/ peer[local[w]] # NoClient /\ Goto(w, "processConnect") /\ UNCHANGED <<event, local>>
    /\ UNCHANGED <<listening, stopped, retried, accepts, service, backlog, clients, greeted,
                   failures>>

\* SO_UPDATE_ACCEPT_CONTEXT and getpeername: one of them fails on a socket
\* that is not connected, and the event is registered again.
ProcessAccept(w) ==
    /\ At(w, "processAccept")
    /\ \/ MayFail(local[w]) /\ Goto(w, "registerAccept")
       \/ peer[local[w]] # NoClient /\ Goto(w, "processConnect")
    /\ UNCHANGED <<listening, stopped, event, local, retried, accepts, service, backlog, clients,
                   greeted, failures>>

\* session->ProcessConnect: unless SO_ERROR is set, AddSession and OnConnected,
\* which sends the prompt.  Either way the event is registered again.
ProcessConnect(w) ==
    /\ At(w, "processConnect")
    /\ \/ MayFail(local[w]) /\ UNCHANGED <<service, greeted>>
       \/ /\ sessions' = sessions \cup {local[w]} /\ sessionCount' = sessionCount + 1
          /\ greeted' = greeted \cup {peer[local[w]]} /\ UNCHANGED closing
    /\ Goto(w, "registerAccept")
    /\ UNCHANGED <<listening, stopped, event, local, retried, accepts, backlog, clients, failures>>

ReleaseSessionKeeps(s) ==
    /\ stopped = "no" /\ s \in sessions /\ sessionCount > 0
    /\ sessionCount' = sessionCount - 1
    /\ closing' = closing \cup {s} /\ peer' = [peer EXCEPT ![s] = NoClient]
    /\ UNCHANGED <<listening, stopped, threads, accept, acceptSession, sessions, backlog, clients, greeted,
                   failures>>

\* ProcessDisconnect, at the end of a greeted session's life: DisconnectEx has
\* disconnected its socket.  The worker that runs it, the session's receive and
\* send on their way and other workers' handlers still own the session.
ReleaseSession(s) ==
    /\ stopped = "no" /\ s \in sessions
    /\ sessions' = sessions \ {s} /\ sessionCount' = sessionCount - 1
    /\ closing' = closing \cup {s} /\ peer' = [peer EXCEPT ![s] = NoClient]
    /\ UNCHANGED <<listening, stopped, threads, accept, acceptSession, backlog, clients, greeted, failures>>

\* Its last event has completed and the last handler returned: ~Session closes
\* the socket, as soon as no frame of the listener has the session either.
CloseSession(s) ==
    /\ stopped = "no" /\ s \in closing
    /\ closing' = closing \ {s}
    /\ UNCHANGED <<listening, stopped, threads, accepts, sessions, sessionCount, backlog, clients,
                   greeted, failures>>

-----------------------------------------------------------------------------
(* Windows *)

\* A pending AcceptEx takes the oldest connection, be its client there or not.
AcceptCompletes(e) ==
    /\ stopped = "no" /\ accept[e] = "pending" /\ backlog # <<>>
    /\ accept' = [accept EXCEPT ![e] = "done"]
    /\ peer' = [peer EXCEPT ![acceptSession[e]] = Head(backlog)]
    /\ backlog' = Tail(backlog)
    /\ UNCHANGED <<listening, stopped, threads, acceptSession, service, clients, greeted, failures>>

\* An AcceptEx that fails has a completion, too.
AcceptFails(e) ==
    /\ stopped = "no" /\ accept[e] = "pending" /\ Fail
    /\ accept' = [accept EXCEPT ![e] = "done"]
    /\ UNCHANGED <<listening, stopped, threads, acceptSession, peer, service, backlog, clients,
                   greeted>>

\* The handshake is done by Windows, before any accept.
Handshake(c) ==
    /\ link[c] = "connecting" /\ listening /\ stopped = "no" /\ Len(backlog) < BacklogSize
    /\ link' = [link EXCEPT ![c] = "established"]
    /\ backlog' = Append(backlog, c)
    /\ UNCHANGED <<listening, stopped, threads, accepts, service, view, unreported, greeted,
                   failures>>

Refuse(c) ==
    /\ link[c] = "connecting"
    /\ ~listening \/ stopped # "no" \/ Len(backlog) >= BacklogSize
    /\ link' = [link EXCEPT ![c] = "refused"]
    /\ UNCHANGED <<listening, stopped, threads, accepts, service, backlog, view, unreported,
                   greeted, failures>>

-----------------------------------------------------------------------------
(* The client *)

server == <<listening, stopped, threads, accepts, service, backlog, greeted, failures>>

\* What RegisterConnect leaves: a ConnectEx on its way, or, as it returned
\* false, a process that main's ASSERT_CRASH ends.
RegisterConnect == {"connecting", "gone"}

\* ClientService::Start.
Connect(c) ==
    /\ link[c] = "off"
    /\ \E outcome \in RegisterConnect : link' = [link EXCEPT ![c] = outcome]
    /\ UNCHANGED <<server, view, unreported>>

ClientProcessConnectUnchecked(c) ==
    /\ link[c] \in {"established", "refused"} /\ view[c] = "waiting"
    /\ view' = [view EXCEPT ![c] = "connected"]
    /\ UNCHANGED <<server, link, unreported>>

\* Dispatch calls ProcessConnect for a failed ConnectEx as well, so the session
\* only learns of a refusal if SO_ERROR has it.  Then nothing is told to anyone,
\* for Disconnect finds _connected off.
ClientProcessConnect(c) ==
    /\ link[c] \in {"established", "refused"} /\ view[c] = "waiting"
    /\ \/ link[c] = "refused"
          /\ view' = [view EXCEPT ![c] = "failed"] /\ UNCHANGED unreported
       \/ /\ view' = [view EXCEPT ![c] = "connected"]
          /\ unreported' = IF link[c] = "refused" THEN unreported \cup {c} ELSE unreported
    /\ UNCHANGED <<server, link>>

\* The client's process is ended.
Leave(c) ==
    /\ link[c] \in {"connecting", "established", "refused"}
    /\ link' = [link EXCEPT ![c] = "gone"]
    /\ UNCHANGED <<server, view, unreported>>

-----------------------------------------------------------------------------
Continue(t) ==
    RegisterAccept(t) \/ AcceptExFails(t) \/ NoMoreSessions(t) \/ ProcessAccept(t) \/ ProcessConnect(t)

Next ==
    \/ StartAccept \/ StartFails
    \/ \E w \in Workers : Launch(w) \/ \E e \in AcceptEvents : Dispatch(w, e)
    \/ \E t \in Threads : Continue(t)
    \/ \E s \in Sessions : ReleaseSession(s) \/ CloseSession(s)
    \/ \E e \in AcceptEvents : AcceptCompletes(e) \/ AcceptFails(e)
    \/ \E c \in Clients :
          Connect(c) \/ Handshake(c) \/ Refuse(c) \/ ClientProcessConnect(c) \/ Leave(c)

\* Threads go on; Windows completes what it can, and its completions are dequeued.
Fairness ==
    /\ \A t \in Threads : WF_vars(Continue(t))
    /\ \A w \in Workers : WF_vars(Launch(w))
    /\ WF_vars(\E e \in AcceptEvents : AcceptCompletes(e))
    /\ \A e \in AcceptEvents : WF_vars(\E w \in Workers : Dispatch(w, e))

Spec == Init /\ [][Next]_vars /\ Fairness

-----------------------------------------------------------------------------
Busy == {"registerAccept", "processAccept", "processConnect"}

\* Types; _sessionCount is the size of _sessions.
TypeOK ==
    /\ listening \in BOOLEAN /\ stopped \in {"no", "start", "noSession"}
    /\ pc \in [Threads -> Busy \cup {"start", "started", "launch", "idle"}]
    /\ event \in [Threads -> AcceptEvents \cup {0}]
    /\ local \in [Threads -> Sessions \cup {NoSession}]
    /\ retried \in [Threads -> SUBSET Sessions]
    /\ accept \in [AcceptEvents -> {"new", "pending", "done", "taken"}]
    /\ acceptSession \in [AcceptEvents -> Sessions \cup {NoSession}]
    /\ peer \in [Sessions -> Clients \cup {NoClient}]
    /\ sessions \subseteq Sessions /\ sessionCount = Cardinality(sessions)
    /\ closing \subseteq Sessions
    /\ backlog \in Seq(Clients) /\ Len(backlog) <= BacklogSize
    /\ link \in [Clients -> {"off", "connecting", "established", "refused", "gone"}]
    /\ view \in [Clients -> {"waiting", "connected", "failed"}]
    /\ greeted \subseteq Clients /\ unreported \subseteq Clients
    /\ failures \in 0 .. MaxFailures

UsersOf(e) == {t \in Threads : pc[t] \in Busy /\ event[t] = e}

\* No AcceptEvent is ever dropped or used twice: from its registration on it is
\* Windows' or it is one thread's, whatever fails in between (Listener.cpp:98,
\* :107, :114).
AcceptsConserved ==
    \A e \in AcceptEvents :
        IF accept[e] \in {"pending", "done"} THEN UsersOf(e) = {}
        ELSE IF accept[e] = "taken" THEN \E t \in Threads : UsersOf(e) = {t}
        ELSE UsersOf(e) \subseteq {Main}

\* A session is one AcceptEvent's or one client's: Windows never accepts on a
\* session in use, and the server greets nobody who is not there and no client
\* twice, though a failed accept looks to Dispatch like any other.
SessionsUnshared ==
    /\ \A e, f \in AcceptEvents : e # f => acceptSession[e] = NoSession \/ acceptSession[e] # acceptSession[f]
    /\ \A e \in AcceptEvents : accept[e] \in {"pending", "done"} => acceptSession[e] \notin sessions \cup closing
    /\ \A s \in sessions : peer[s] # NoClient
    /\ \A s, r \in sessions : s # r => peer[s] # peer[r]

Retries == Cardinality({p \in Threads \X Sessions : p[2] \in retried[p[1]]})

\* The server runs out of sockets only when those of the connected sessions, of
\* the released ones that an event or a handler still owns, one for each
\* AcceptEvent and one for each retry on a thread's stack are all it can have:
\* failed accepts and clients that left early keep none (Listener.cpp:88, :105).
ExhaustionHasCause ==
    stopped = "noSession" =>
        sessionCount + Cardinality(closing) + MaxSessionCount + Retries >= Cardinality(Sessions)

\* A client whose connection is made, or whose session says so, is greeted by
\* the server, however many accepts fail before; unless it goes, the server
\* stops, or its ConnectEx failed without telling.
KnockIsAnswered ==
    \A c \in Clients :
        (link[c] = "established" \/ view[c] = "connected") ~>
            (c \in greeted \/ link[c] = "gone" \/ stopped # "no" \/ c \in unreported)
=============================================================================
