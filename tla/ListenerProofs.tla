--------------------------- MODULE ListenerProofs ---------------------------
(***************************************************************************)
(* Proofs about Listener for every number of workers, accepts, sessions,   *)
(* clients and failures: no AcceptEvent is lost or used twice, no session  *)
(* has two users, and only known references use up the sockets.            *)
(***************************************************************************)
EXTENDS Listener, FiniteSetTheorems, TLAPS

Uses(t, e) == pc[t] \in Busy /\ event[t] = e

\* Who has an AcceptEvent, and that while main registers them, those from the
\* current one on are new.
EventInv ==
    /\ \A e \in AcceptEvents, t \in Threads : Uses(t, e) =>
          /\ accept[e] = "taken" \/ (accept[e] = "new" /\ t = Main)
          /\ \A u \in Threads : Uses(u, e) => u = t
    /\ \A e \in AcceptEvents : accept[e] = "taken" => \E t \in Threads : Uses(t, e)
    /\ pc[Main] \in {"start", "registerAccept", "started"}
    /\ pc[Main] # "started" =>
          /\ event[Main] \in AcceptEvents
          /\ \A e \in AcceptEvents : e >= event[Main] => accept[e] = "new"
    /\ \A w \in Workers :
          pc[w] \notin {"start", "started"} /\ (pc[w] \in Busy => event[w] \in AcceptEvents)

\* ProcessAccept's local session is the event's, and has a peer once it is
\* known to be connected.
LocalInv ==
    \A t \in Threads : pc[t] \in {"processAccept", "processConnect"} =>
        /\ local[t] = acceptSession[event[t]] /\ local[t] \in Sessions
        /\ pc[t] = "processConnect" => peer[local[t]] # NoClient

\* Only between AddSession and the next RegisterAccept is an event's session
\* one of the service's, or one it has released already.
SessionInv ==
    /\ \A e \in AcceptEvents : accept[e] # "new" => acceptSession[e] \in Sessions
    /\ \A e, f \in AcceptEvents :
          e # f => acceptSession[e] = NoSession \/ acceptSession[e] # acceptSession[f]
    /\ \A e \in AcceptEvents : acceptSession[e] \in sessions \cup closing =>
          accept[e] = "taken" /\ \E t \in Threads : pc[t] = "registerAccept" /\ event[t] = e
    /\ \A s \in sessions : peer[s] # NoClient

\* A client is at one place at most: in the backlog or a session's peer.
PeerInv ==
    /\ \A c \in Clients : link[c] \in {"off", "connecting", "refused"} =>
          (\A i \in 1 .. Len(backlog) : backlog[i] # c) /\ \A s \in Sessions : peer[s] # c
    /\ \A i, j \in 1 .. Len(backlog) : i # j => backlog[i] # backlog[j]
    /\ \A i \in 1 .. Len(backlog), s \in Sessions : peer[s] # backlog[i]
    /\ \A s, r \in Sessions : s # r => peer[s] = NoClient \/ peer[s] # peer[r]

IInv == TypeOK /\ EventInv /\ LocalInv /\ SessionInv /\ PeerInv

USE ThreadsAssumption, SessionsAssumption, ClientsAssumption, NumbersAssumption

LEMMA InitInv == Init => IInv
<1> SUFFICES ASSUME Init PROVE IInv
  OBVIOUS
<1>1. TypeOK
  <2>1. listening \in BOOLEAN
    BY Zenon DEF Init
  <2>2. sessions \subseteq Sessions /\ sessionCount = Cardinality(sessions) /\ closing \subseteq Sessions
    BY FS_EmptySet DEF Init
  <2>3. backlog \in Seq(Clients) /\ Len(backlog) <= BacklogSize
    BY DEF Init
  <2> QED
    BY <2>1, <2>2, <2>3 DEF Init, TypeOK, Threads, AcceptEvents, Busy
<1>2. EventInv
  BY DEF Init, EventInv, Uses, Threads, AcceptEvents, Busy
<1>3. LocalInv /\ SessionInv /\ PeerInv
  BY DEF Init, LocalInv, SessionInv, PeerInv, Threads, AcceptEvents
<1> QED
  BY <1>1, <1>2, <1>3 DEF IInv

-----------------------------------------------------------------------------
LEMMA EventsConserved == TypeOK /\ EventInv => AcceptsConserved
<1> SUFFICES ASSUME TypeOK, EventInv, NEW e \in AcceptEvents
             PROVE  /\ accept[e] \in {"pending", "done"} => UsersOf(e) = {}
                    /\ accept[e] = "taken" => \E t \in Threads : UsersOf(e) = {t}
                    /\ accept[e] = "new" => UsersOf(e) \subseteq {Main}
  BY DEF TypeOK, AcceptsConserved
<1> QED
  BY DEF EventInv, Uses, UsersOf

(* What a step that leaves some variables alone preserves *)

LEMMA EventFrame == EventInv /\ UNCHANGED <<pc, event, accept>> => EventInv'
  BY DEF EventInv, Uses

LEMMA LocalFrame ==
    LocalInv /\ UNCHANGED <<pc, event, local, acceptSession, peer>> => LocalInv'
  BY DEF LocalInv

LEMMA SessionFrame ==
    SessionInv /\ UNCHANGED <<pc, event, accept, acceptSession, sessions, closing, peer>> => SessionInv'
  BY DEF SessionInv

LEMMA PeerFrame == PeerInv /\ UNCHANGED <<link, backlog, peer>> => PeerInv'
  BY DEF PeerInv

-----------------------------------------------------------------------------
(* The server starts *)

LEMMA StartStep == IInv /\ (StartAccept \/ StartFails \/ \E w \in Workers : Launch(w)) => IInv'
<1>1. ASSUME IInv, StartAccept PROVE IInv'
  <2>1. TypeOK'
    BY <1>1 DEF IInv, TypeOK, StartAccept, At, Goto, accepts, service, clients, Busy, Threads
  <2>2. EventInv'
    <3>1. /\ pc[Main] = "start" /\ pc' = [pc EXCEPT ![Main] = "registerAccept"]
          /\ UNCHANGED <<event, accept>>
      BY <1>1 DEF StartAccept, At, Goto, accepts
    <3> QED
      BY <1>1, <3>1 DEF IInv, TypeOK, EventInv, Uses, Busy, Threads, AcceptEvents
  <2>3. LocalInv' /\ SessionInv' /\ PeerInv'
    BY <1>1 DEF IInv, TypeOK, LocalInv, SessionInv, PeerInv, StartAccept, At, Goto, accepts, service, clients, Threads
  <2> QED
    BY <2>1, <2>2, <2>3 DEF IInv
<1>2. ASSUME IInv, StartFails PROVE IInv'
  <2>1. TypeOK'
    BY <1>2 DEF IInv, TypeOK, StartFails, Stop, threads, accepts, service, clients
  <2> QED
    BY <1>2, <2>1, EventFrame, LocalFrame, SessionFrame, PeerFrame
       DEF IInv, StartFails, threads, accepts, service, clients
<1>3. ASSUME IInv, NEW w \in Workers, Launch(w) PROVE IInv'
  <2>1. TypeOK'
    BY <1>3 DEF IInv, TypeOK, Launch, At, Goto, accepts, service, clients, Busy, Threads
  <2>2. EventInv'
    BY <1>3 DEF IInv, TypeOK, EventInv, Uses, Launch, At, Goto, accepts, Busy, Threads
  <2>3. LocalInv' /\ SessionInv' /\ PeerInv'
    BY <1>3 DEF IInv, TypeOK, LocalInv, SessionInv, PeerInv, Launch, At, Goto, accepts, service, clients, Threads
  <2> QED
    BY <2>1, <2>2, <2>3 DEF IInv
<1> QED
  BY <1>1, <1>2, <1>3
-----------------------------------------------------------------------------
(* The listener *)

LEMMA FreshSession ==
    ASSUME IInv, Free # {}, NEW e
    PROVE  /\ NewSession(e) \in Sessions /\ NewSession(e) # NoSession
           /\ NewSession(e) \notin sessions \cup closing
           /\ \A f \in AcceptEvents : acceptSession[f] # NewSession(e)
           /\ \A u \in Threads : local[u] # NewSession(e)
<1>1. NewSession(e) \in Free
  BY DEF NewSession
<1> QED
  BY <1>1 DEF Free, Referenced

LEMMA RegisterAcceptStep ==
    ASSUME IInv, NEW t \in Threads, RegisterAccept(t)
    PROVE  IInv'
<1> DEFINE s == NewSession(event[t])
           e == event[t]
<1>1. /\ s \in Sessions /\ s # NoSession /\ s \notin sessions \cup closing
      /\ \A f \in AcceptEvents : acceptSession[f] # s
      /\ \A u \in Threads : local[u] # s
  BY FreshSession DEF RegisterAccept
<1> HIDE DEF s
<1>2. /\ pc[t] = "registerAccept" /\ e \in AcceptEvents
      /\ acceptSession' = [acceptSession EXCEPT ![e] = s]
      /\ peer' = [peer EXCEPT ![s] = NoClient]
      /\ accept' = [accept EXCEPT ![e] = "pending"]
      /\ local' = [local EXCEPT ![t] = NoSession]
      /\ retried' = [retried EXCEPT ![t] = {}]
      /\ UNCHANGED <<listening, stopped, service, backlog, clients, greeted, failures>>
  BY DEF RegisterAccept, RegisterReturns, At, IInv, TypeOK, EventInv, Threads, Busy, s
<1>3. \/ /\ t = Main /\ e < MaxSessionCount
         /\ event' = [event EXCEPT ![t] = @ + 1] /\ pc' = pc
      \/ /\ pc' = [pc EXCEPT ![t] = IF t = Main THEN "started" ELSE "idle"]
         /\ event' = [event EXCEPT ![t] = 0]
  BY DEF RegisterAccept, RegisterReturns, Goto
<1>4. TypeOK'
  <2>1. pc' \in [Threads -> Busy \cup {"start", "started", "launch", "idle"}]
    BY <1>3 DEF IInv, TypeOK
  <2>2. event' \in [Threads -> AcceptEvents \cup {0}]
    <3>1. e \in 1 .. MaxSessionCount /\ (e < MaxSessionCount => e + 1 \in AcceptEvents)
      BY <1>2 DEF AcceptEvents
    <3> HIDE DEF e
    <3>2. event \in [Threads -> AcceptEvents \cup {0}]
      BY DEF IInv, TypeOK
    <3>3. CASE event' = [event EXCEPT ![t] = e + 1] /\ e < MaxSessionCount
      BY <3>1, <3>2, <3>3
    <3>4. CASE event' = [event EXCEPT ![t] = 0]
      BY <3>2, <3>4
    <3> QED
      BY <1>3, <3>3, <3>4 DEF e
  <2> QED
    BY <1>1, <1>2, <2>1, <2>2 DEF IInv, TypeOK, service, clients
<1>5. EventInv'
  <2>1. CASE pc' = pc /\ t = Main /\ e < MaxSessionCount /\ event' = [event EXCEPT ![t] = @ + 1]
    BY <1>2, <2>1 DEF IInv, TypeOK, EventInv, Uses, Threads, Busy, AcceptEvents
  <2>2. CASE /\ pc' = [pc EXCEPT ![t] = IF t = Main THEN "started" ELSE "idle"]
             /\ event' = [event EXCEPT ![t] = 0]
    BY <1>2, <2>2 DEF IInv, TypeOK, EventInv, Uses, Threads, Busy, AcceptEvents
  <2> QED
    BY <1>3, <2>1, <2>2
<1>6. \A u \in Threads : u # t => pc'[u] = pc[u] /\ event'[u] = event[u]
  BY <1>3 DEF IInv, TypeOK
<1>7. pc'[t] \notin {"processAccept", "processConnect"}
  BY <1>2, <1>3 DEF IInv, TypeOK
<1>8. \A u \in Threads : pc[u] \in Busy /\ u # t => event[u] # e
  BY <1>2 DEF IInv, EventInv, Uses, Busy
<1>9. LocalInv'
  BY <1>1, <1>2, <1>6, <1>7, <1>8 DEF IInv, TypeOK, LocalInv, Busy
<1>10. SessionInv'
  BY <1>1, <1>2, <1>6, <1>8 DEF IInv, TypeOK, SessionInv, service, Busy
<1>11. PeerInv'
  BY <1>1, <1>2 DEF IInv, TypeOK, PeerInv, clients
<1> QED
  BY <1>4, <1>5, <1>9, <1>10, <1>11 DEF IInv

LEMMA AcceptExFailsStep ==
    ASSUME IInv, NEW t \in Threads, AcceptExFails(t)
    PROVE  IInv'
<1> DEFINE s == NewSession(event[t])
           e == event[t]
<1>1. /\ s \in Sessions /\ s # NoSession /\ s \notin sessions \cup closing
      /\ \A f \in AcceptEvents : acceptSession[f] # s
      /\ \A u \in Threads : local[u] # s
  BY FreshSession DEF AcceptExFails
<1> HIDE DEF s
<1>2. /\ pc[t] = "registerAccept" /\ e \in AcceptEvents
      /\ acceptSession' = [acceptSession EXCEPT ![e] = s]
      /\ peer' = [peer EXCEPT ![s] = NoClient]
      /\ retried' = [retried EXCEPT ![t] = @ \cup {s}]
      /\ failures < MaxFailures /\ failures' = failures + 1
      /\ UNCHANGED <<listening, stopped, pc, event, local, accept, service, backlog, clients, greeted>>
  BY DEF AcceptExFails, Fail, At, IInv, TypeOK, EventInv, Threads, Busy, s
<1>3. TypeOK'
  BY <1>1, <1>2 DEF IInv, TypeOK, service, clients
<1>4. EventInv'
  BY <1>2, EventFrame DEF IInv
<1>5. \A u \in Threads : pc[u] \in Busy /\ u # t => event[u] # e
  BY <1>2 DEF IInv, EventInv, Uses, Busy
<1>6. LocalInv'
  BY <1>1, <1>2, <1>5 DEF IInv, TypeOK, LocalInv, Busy
<1>7. SessionInv'
  BY <1>1, <1>2, <1>5 DEF IInv, TypeOK, SessionInv, service, Busy
<1>8. PeerInv'
  BY <1>1, <1>2 DEF IInv, TypeOK, PeerInv, clients
<1> QED
  BY <1>3, <1>4, <1>6, <1>7, <1>8 DEF IInv

LEMMA NoMoreSessionsStep ==
    ASSUME IInv, NEW t \in Threads, NoMoreSessions(t)
    PROVE  IInv'
<1>1. TypeOK'
  BY DEF IInv, TypeOK, NoMoreSessions, Stop, threads, accepts, service, clients
<1> QED
  BY <1>1, EventFrame, LocalFrame, SessionFrame, PeerFrame
     DEF IInv, NoMoreSessions, threads, accepts, service, clients

LEMMA DispatchStep ==
    ASSUME IInv, NEW w \in Workers, NEW e \in AcceptEvents, Dispatch(w, e)
    PROVE  IInv'
<1>1. /\ w \in Threads /\ w # Main /\ pc[w] = "idle" /\ accept[e] = "done"
      /\ accept' = [accept EXCEPT ![e] = "taken"] /\ event' = [event EXCEPT ![w] = e]
      /\ local' = [local EXCEPT ![w] = acceptSession[e]]
      /\ pc' = [pc EXCEPT ![w] = "processAccept"]
      /\ UNCHANGED <<listening, stopped, retried, acceptSession, peer, service, backlog, clients,
                     greeted, failures>>
  BY DEF Dispatch, At, Goto, Threads
<1>2. TypeOK'
  BY <1>1 DEF IInv, TypeOK, service, clients, Busy
<1>3. EventInv'
  BY <1>1 DEF IInv, TypeOK, EventInv, Uses, Threads, Busy, AcceptEvents
<1>4. LocalInv'
  BY <1>1 DEF IInv, TypeOK, LocalInv, SessionInv
<1>5. SessionInv'
  BY <1>1 DEF IInv, TypeOK, SessionInv, service
<1>6. PeerInv'
  BY <1>1, PeerFrame DEF IInv, clients
<1> QED
  BY <1>2, <1>3, <1>4, <1>5, <1>6 DEF IInv

LEMMA ProcessAcceptStep ==
    ASSUME IInv, NEW t \in Threads, ProcessAccept(t)
    PROVE  IInv'
<1>1. /\ pc[t] = "processAccept"
      /\ \/ pc' = [pc EXCEPT ![t] = "registerAccept"]
         \/ pc' = [pc EXCEPT ![t] = "processConnect"] /\ peer[local[t]] # NoClient
      /\ UNCHANGED <<listening, stopped, event, local, retried, accepts, service, backlog, clients,
                     greeted, failures>>
  BY DEF ProcessAccept, At, Goto
<1>2. TypeOK'
  BY <1>1 DEF IInv, TypeOK, accepts, service, clients, Busy
<1>3. EventInv'
  BY <1>1 DEF IInv, TypeOK, EventInv, Uses, Threads, Busy, accepts
<1>4. LocalInv'
  BY <1>1 DEF IInv, TypeOK, LocalInv, accepts
<1>5. SessionInv'
  BY <1>1 DEF IInv, TypeOK, SessionInv, service, accepts
<1>6. PeerInv'
  BY <1>1, PeerFrame DEF IInv, clients, accepts
<1> QED
  BY <1>2, <1>3, <1>4, <1>5, <1>6 DEF IInv

\* The session that AddSession gets is new to the service, or _sessionCount
\* would count it twice.
LEMMA ProcessConnectStep ==
    ASSUME IInv, NEW t \in Threads, ProcessConnect(t)
    PROVE  IInv'
<1> DEFINE s == local[t]
           e == event[t]
<1>1. /\ pc[t] = "processConnect" /\ pc' = [pc EXCEPT ![t] = "registerAccept"]
      /\ \/ UNCHANGED <<service, greeted>>
         \/ /\ sessions' = sessions \cup {s} /\ sessionCount' = sessionCount + 1
            /\ greeted' = greeted \cup {peer[s]} /\ UNCHANGED closing
      /\ UNCHANGED <<listening, stopped, event, local, retried, accepts, backlog, clients, failures>>
  BY DEF ProcessConnect, At, Goto
<1>2. /\ e \in AcceptEvents /\ accept[e] = "taken"
      /\ s = acceptSession[e] /\ s \in Sessions /\ peer[s] # NoClient
  BY <1>1 DEF IInv, TypeOK, EventInv, LocalInv, Uses, Threads, Busy
<1>3. s \notin sessions
  <2> SUFFICES ASSUME s \in sessions PROVE FALSE
    OBVIOUS
  <2>1. PICK u \in Threads : pc[u] = "registerAccept" /\ event[u] = e
    BY <1>2 DEF IInv, SessionInv
  <2>2. u = t
    BY <1>1, <1>2, <2>1 DEF IInv, EventInv, Uses, Busy
  <2> QED
    BY <1>1, <2>1, <2>2
<1>4. sessions' \subseteq Sessions /\ sessionCount' = Cardinality(sessions')
  <2>1. IsFiniteSet(sessions)
    BY FS_Subset DEF IInv, TypeOK
  <2> QED
    BY <1>1, <1>2, <1>3, <2>1, FS_AddElement DEF IInv, TypeOK, service
<1>5. greeted' \subseteq Clients
  BY <1>1, <1>2 DEF IInv, TypeOK
<1>6. TypeOK'
  BY <1>1, <1>4, <1>5 DEF IInv, TypeOK, accepts, service, clients, Busy
<1>7. EventInv'
  BY <1>1 DEF IInv, TypeOK, EventInv, Uses, Threads, Busy, accepts
<1>8. LocalInv'
  BY <1>1 DEF IInv, TypeOK, LocalInv, accepts
<1>9. SessionInv'
  <2>1. sessions' \subseteq sessions \cup {s} /\ closing' = closing
    BY <1>1 DEF service
  <2> HIDE DEF s
  <2> QED
    BY <1>1, <1>2, <2>1 DEF IInv, TypeOK, SessionInv, accepts
<1>10. PeerInv'
  BY <1>1, PeerFrame DEF IInv, clients, accepts
<1> QED
  BY <1>6, <1>7, <1>8, <1>9, <1>10 DEF IInv

LEMMA ReleaseSessionStep ==
    ASSUME IInv, NEW s \in Sessions, ReleaseSession(s)
    PROVE  IInv'
<1>1. /\ s \in sessions /\ sessions' = sessions \ {s} /\ sessionCount' = sessionCount - 1
      /\ closing' = closing \cup {s} /\ peer' = [peer EXCEPT ![s] = NoClient]
      /\ UNCHANGED <<listening, stopped, threads, accept, acceptSession, backlog, clients, greeted,
                     failures>>
  BY DEF ReleaseSession
<1>2. sessions' \subseteq Sessions /\ sessionCount' = Cardinality(sessions')
  <2>1. IsFiniteSet(sessions)
    BY FS_Subset DEF IInv, TypeOK
  <2> QED
    BY <1>1, <2>1, FS_RemoveElement DEF IInv, TypeOK
<1>3. TypeOK'
  BY <1>1, <1>2 DEF IInv, TypeOK, threads, clients
<1>4. EventInv'
  BY <1>1, EventFrame DEF IInv, threads
<1>5. \A t \in Threads : pc[t] = "processConnect" => local[t] # s
  <2> SUFFICES ASSUME NEW t \in Threads, pc[t] = "processConnect", local[t] = s PROVE FALSE
    OBVIOUS
  <2>1. event[t] \in AcceptEvents /\ acceptSession[event[t]] = s
    BY DEF IInv, TypeOK, EventInv, LocalInv, Threads, Busy
  <2>2. PICK u \in Threads : pc[u] = "registerAccept" /\ event[u] = event[t]
    BY <1>1, <2>1 DEF IInv, SessionInv
  <2> QED
    BY <2>1, <2>2 DEF IInv, EventInv, Uses, Busy
<1>6. LocalInv'
  BY <1>1, <1>5 DEF IInv, TypeOK, LocalInv, threads
<1>7. SessionInv'
  BY <1>1 DEF IInv, TypeOK, SessionInv, threads
<1>8. PeerInv'
  BY <1>1 DEF IInv, TypeOK, PeerInv, clients
<1> QED
  BY <1>3, <1>4, <1>6, <1>7, <1>8 DEF IInv

LEMMA CloseSessionStep ==
    ASSUME IInv, NEW s \in Sessions, CloseSession(s)
    PROVE  IInv'
<1>1. /\ closing' = closing \ {s}
      /\ UNCHANGED <<listening, stopped, threads, accepts, sessions, sessionCount, backlog, clients,
                     greeted, failures>>
  BY DEF CloseSession
<1>2. TypeOK'
  BY <1>1 DEF IInv, TypeOK, threads, accepts, clients
<1>3. SessionInv'
  BY <1>1 DEF IInv, SessionInv, threads, accepts
<1> QED
  BY <1>1, <1>2, <1>3, EventFrame, LocalFrame, PeerFrame DEF IInv, threads, accepts, clients

-----------------------------------------------------------------------------
(* Windows and the clients *)

\* The connection moves from the backlog's head to a session that is nobody's.
LEMMA AcceptCompletesStep ==
    ASSUME IInv, NEW e \in AcceptEvents, AcceptCompletes(e)
    PROVE  IInv'
<1> DEFINE s == acceptSession[e]
           c == Head(backlog)
<1>1. /\ accept[e] = "pending" /\ backlog # <<>>
      /\ accept' = [accept EXCEPT ![e] = "done"]
      /\ peer' = [peer EXCEPT ![s] = c] /\ backlog' = Tail(backlog)
      /\ UNCHANGED <<listening, stopped, threads, acceptSession, service, clients, greeted, failures>>
  BY DEF AcceptCompletes
<1>2. s \in Sessions /\ s \notin sessions
  BY <1>1 DEF IInv, SessionInv
<1>3. /\ backlog \in Seq(Clients) /\ Len(backlog) \in Nat \ {0} /\ c = backlog[1] /\ c \in Clients
      /\ Len(backlog') = Len(backlog) - 1 /\ backlog' \in Seq(Clients)
      /\ \A i \in 1 .. Len(backlog') : i + 1 \in 1 .. Len(backlog) /\ i + 1 # 1 /\ backlog'[i] = backlog[i + 1]
  BY <1>1 DEF IInv, TypeOK
<1>4. TypeOK'
  BY <1>1, <1>2, <1>3 DEF IInv, TypeOK, threads, service, clients
<1>5. EventInv'
  BY <1>1 DEF IInv, TypeOK, EventInv, Uses, threads
<1>6. LocalInv'
  <2>1. \A t \in Threads : pc[t] \in {"processAccept", "processConnect"} => local[t] # s
    BY <1>1, <1>2 DEF IInv, TypeOK, EventInv, LocalInv, SessionInv, Uses, Threads, Busy
  <2> HIDE DEF s, c
  <2> QED
    BY <1>1, <1>2, <2>1 DEF IInv, TypeOK, LocalInv, threads
<1>7. SessionInv'
  BY <1>1, <1>2, <1>3 DEF IInv, TypeOK, SessionInv, threads, service
<1>8. PeerInv'
  <2> HIDE DEF s, c
  <2>1. \A d \in Clients : link'[d] \in {"off", "connecting", "refused"} =>
            (\A i \in 1 .. Len(backlog') : backlog'[i] # d) /\ \A r \in Sessions : peer'[r] # d
    BY <1>1, <1>2, <1>3 DEF IInv, TypeOK, PeerInv, clients
  <2>2. \A i, j \in 1 .. Len(backlog') : i # j => backlog'[i] # backlog'[j]
    BY <1>3 DEF IInv, PeerInv
  <2>3. \A i \in 1 .. Len(backlog'), r \in Sessions : peer'[r] # backlog'[i]
    BY <1>1, <1>2, <1>3 DEF IInv, TypeOK, PeerInv
  <2>4. \A q, r \in Sessions : q # r => peer'[q] = NoClient \/ peer'[q] # peer'[r]
    BY <1>1, <1>2, <1>3 DEF IInv, TypeOK, PeerInv
  <2> QED
    BY <2>1, <2>2, <2>3, <2>4 DEF PeerInv
<1> QED
  BY <1>4, <1>5, <1>6, <1>7, <1>8 DEF IInv

LEMMA AcceptFailsStep ==
    ASSUME IInv, NEW e \in AcceptEvents, AcceptFails(e)
    PROVE  IInv'
<1>1. /\ accept[e] = "pending" /\ accept' = [accept EXCEPT ![e] = "done"]
      /\ failures < MaxFailures /\ failures' = failures + 1
      /\ UNCHANGED <<listening, stopped, threads, acceptSession, peer, service, backlog, clients,
                     greeted>>
  BY DEF AcceptFails, Fail
<1>2. TypeOK'
  BY <1>1 DEF IInv, TypeOK, threads, service, clients
<1>3. EventInv' /\ SessionInv'
  BY <1>1 DEF IInv, TypeOK, EventInv, SessionInv, Uses, threads, service
<1> QED
  BY <1>1, <1>2, <1>3, LocalFrame, PeerFrame DEF IInv, threads, clients

LEMMA HandshakeStep ==
    ASSUME IInv, NEW c \in Clients, Handshake(c)
    PROVE  IInv'
<1>1. /\ link[c] = "connecting" /\ Len(backlog) < BacklogSize
      /\ link' = [link EXCEPT ![c] = "established"] /\ backlog' = Append(backlog, c)
      /\ UNCHANGED <<listening, stopped, threads, accepts, service, view, unreported, greeted,
                     failures>>
  BY DEF Handshake
<1>2. /\ backlog' \in Seq(Clients) /\ Len(backlog') = Len(backlog) + 1 /\ Len(backlog) \in Nat
      /\ \A i \in 1 .. Len(backlog') : backlog'[i] = IF i = Len(backlog) + 1 THEN c ELSE backlog[i]
  BY <1>1 DEF IInv, TypeOK
<1>3. TypeOK'
  BY <1>1, <1>2 DEF IInv, TypeOK, threads, accepts, service
<1>4. EventInv' /\ LocalInv' /\ SessionInv'
  BY <1>1, EventFrame, LocalFrame, SessionFrame DEF IInv, threads, accepts, service
<1>5. PeerInv'
  BY <1>1, <1>2 DEF IInv, TypeOK, PeerInv, accepts
<1> QED
  BY <1>3, <1>4, <1>5 DEF IInv

\* Only a client that is at no place yet can be refused, connect or be told.
LEMMA ClientStep ==
    ASSUME IInv, NEW c \in Clients,
           Refuse(c) \/ Connect(c) \/ ClientProcessConnect(c) \/ Leave(c)
    PROVE  IInv'
<1>1. UNCHANGED server
  BY DEF Refuse, Connect, ClientProcessConnect, Leave, server
<1>2. \/ UNCHANGED link
      \/ \E l \in {"connecting", "refused", "gone"} :
            /\ link' = [link EXCEPT ![c] = l]
            /\ l = "gone" \/ link[c] \in {"off", "connecting"}
  BY DEF Refuse, Connect, RegisterConnect, ClientProcessConnect, Leave
<1>3. view' \in [Clients -> {"waiting", "connected", "failed"}] /\ unreported' \subseteq Clients
  BY DEF IInv, TypeOK, Refuse, Connect, ClientProcessConnect, Leave
<1>4. TypeOK'
  BY <1>1, <1>2, <1>3 DEF IInv, TypeOK, server, threads, accepts, service
<1>5. EventInv' /\ LocalInv' /\ SessionInv'
  BY <1>1, EventFrame, LocalFrame, SessionFrame DEF IInv, server, threads, accepts, service
<1>6. PeerInv'
  BY <1>1, <1>2 DEF IInv, TypeOK, PeerInv, server, accepts
<1> QED
  BY <1>4, <1>5, <1>6 DEF IInv

-----------------------------------------------------------------------------
(* The theorems *)

LEMMA StutterStep == IInv /\ UNCHANGED vars => IInv'
<1> SUFFICES ASSUME IInv, UNCHANGED vars PROVE IInv'
  OBVIOUS
<1>1. TypeOK'
  BY DEF IInv, TypeOK, vars, threads, accepts, service, clients
<1> QED
  BY <1>1, EventFrame, LocalFrame, SessionFrame, PeerFrame
     DEF IInv, vars, threads, accepts, service, clients

LEMMA NextStep == IInv /\ [Next]_vars => IInv'
<1> SUFFICES ASSUME IInv, Next PROVE IInv'
  BY StutterStep
<1>1. CASE StartAccept \/ StartFails \/ \E w \in Workers : Launch(w)
  BY <1>1, StartStep
<1>2. CASE \E w \in Workers, e \in AcceptEvents : Dispatch(w, e)
  BY <1>2, DispatchStep
<1>3. CASE \E t \in Threads : Continue(t)
  BY <1>3, RegisterAcceptStep, AcceptExFailsStep, NoMoreSessionsStep, ProcessAcceptStep,
     ProcessConnectStep DEF Continue
<1>4. CASE \E s \in Sessions : ReleaseSession(s) \/ CloseSession(s)
  BY <1>4, ReleaseSessionStep, CloseSessionStep
<1>5. CASE \E e \in AcceptEvents : AcceptCompletes(e) \/ AcceptFails(e)
  BY <1>5, AcceptCompletesStep, AcceptFailsStep
<1>6. CASE \E c \in Clients :
              Connect(c) \/ Handshake(c) \/ Refuse(c) \/ ClientProcessConnect(c) \/ Leave(c)
  BY <1>6, HandshakeStep, ClientStep
<1> QED
  BY <1>1, <1>2, <1>3, <1>4, <1>5, <1>6 DEF Next

\* IInv holds in every state, for every number of everything.
THEOREM Invariance == Spec => []IInv
  BY InitInv, NextStep, PTL DEF Spec

\* Types; _sessionCount is the size of _sessions: AddSession never gets a session
\* that is there, and ReleaseSession only one that is.
THEOREM TypeCorrect == Spec => []TypeOK
<1>1. IInv => TypeOK
  BY DEF IInv
<1> QED
  BY <1>1, Invariance, PTL

\* No AcceptEvent is lost or used twice (Listener.cpp:98, :107, :114).
THEOREM EventsKept == Spec => []AcceptsConserved
<1>1. IInv => AcceptsConserved
  BY EventsConserved DEF IInv
<1> QED
  BY <1>1, Invariance, PTL

\* No session has two users: Windows accepts on none in use, and no client is
\* greeted twice or by two sessions (IocpCore.cpp:40).
THEOREM NoSharing == Spec => []SessionsUnshared
<1>1. IInv => SessionsUnshared
  BY DEF IInv, TypeOK, SessionInv, PeerInv, SessionsUnshared
<1> QED
  BY <1>1, Invariance, PTL

-----------------------------------------------------------------------------
(* What keeps sessions alive *)

\* The references of a thread's stack: only a thread in RegisterAccept has
\* frames below it, and once there are any, the event's session is that of the
\* last one; before, ProcessAccept's session is the event's.
StackInv ==
    \A t \in Threads :
        /\ pc[t] \notin Busy => local[t] = NoSession
        /\ pc[t] # "registerAccept" => retried[t] = {}
        /\ pc[t] \in Busy => IF retried[t] = {} THEN local[t] \in {NoSession, acceptSession[event[t]]}
                             ELSE acceptSession[event[t]] \in retried[t]

ExhaustedInv == stopped = "noSession" => Free = {}

HeldInv == IInv /\ StackInv /\ ExhaustedInv

\* A step that leaves the stacks, the events and the sets alone.
LEMMA HeldFrame ==
    /\ StackInv /\ ExhaustedInv
    /\ UNCHANGED <<stopped, pc, event, local, retried, acceptSession, sessions, closing>>
    => (StackInv /\ ExhaustedInv)'
  BY DEF StackInv, ExhaustedInv, Free, Referenced

\* While the server runs, ExhaustedInv says nothing.
LEMMA RunningFrame == stopped' = "no" => ExhaustedInv'
  BY DEF ExhaustedInv

\* No two threads are in RegisterAccept or ProcessAccept for one event.
LEMMA OneUser ==
    ASSUME IInv, NEW t \in Threads, pc[t] \in Busy
    PROVE  event[t] \in AcceptEvents /\ \A u \in Threads : pc[u] \in Busy /\ u # t => event[u] # event[t]
<1>1. event[t] \in AcceptEvents
  BY DEF IInv, TypeOK, EventInv, Threads, Busy
<1>2. Uses(t, event[t])
  BY DEF Uses
<1> QED
  BY <1>1, <1>2 DEF IInv, EventInv, Uses

LEMMA InitHeld == Init => HeldInv
  BY InitInv DEF HeldInv, Init, StackInv, ExhaustedInv, Threads, Busy

LEMMA HeldWorkerStep ==
    ASSUME HeldInv, StartAccept \/ StartFails \/ \E w \in Workers : Launch(w) \/ \E e \in AcceptEvents : Dispatch(w, e)
    PROVE  (StackInv /\ ExhaustedInv)'
<1> USE DEF HeldInv
<1>1. CASE StartAccept
  <2>1. /\ stopped' = "no" /\ pc[Main] = "start" /\ pc' = [pc EXCEPT ![Main] = "registerAccept"]
        /\ UNCHANGED <<event, local, retried, acceptSession>>
    BY <1>1 DEF StartAccept, At, Goto, accepts
  <2> QED
    BY <2>1, RunningFrame DEF IInv, TypeOK, StackInv, Busy, Threads
<1>2. CASE StartFails
  BY <1>2 DEF StartFails, Stop, threads, accepts, StackInv, ExhaustedInv
<1>3. ASSUME NEW w \in Workers, Launch(w) PROVE (StackInv /\ ExhaustedInv)'
  <2>1. /\ stopped' = "no" /\ pc[w] = "launch" /\ pc' = [pc EXCEPT ![w] = "idle"]
        /\ UNCHANGED <<event, local, retried, acceptSession>>
    BY <1>3 DEF Launch, At, Goto, accepts
  <2> QED
    BY <2>1, RunningFrame DEF IInv, TypeOK, StackInv, Busy, Threads
<1>4. ASSUME NEW w \in Workers, NEW e \in AcceptEvents, Dispatch(w, e) PROVE (StackInv /\ ExhaustedInv)'
  <2>1. /\ stopped' = "no" /\ pc[w] = "idle" /\ pc' = [pc EXCEPT ![w] = "processAccept"]
        /\ event' = [event EXCEPT ![w] = e] /\ local' = [local EXCEPT ![w] = acceptSession[e]]
        /\ UNCHANGED <<retried, acceptSession>>
    BY <1>4 DEF Dispatch, At, Goto
  <2> QED
    BY <2>1, RunningFrame DEF IInv, TypeOK, StackInv, Busy, Threads
<1> QED
  BY <1>1, <1>2, <1>3, <1>4

LEMMA HeldRegisterStep ==
    ASSUME HeldInv, NEW t \in Threads, RegisterAccept(t) \/ AcceptExFails(t)
    PROVE  (StackInv /\ ExhaustedInv)'
<1> DEFINE s == NewSession(event[t])
           e == event[t]
<1> HIDE DEF s
<1>1. /\ stopped' = "no" /\ pc[t] = "registerAccept"
      /\ acceptSession' = [acceptSession EXCEPT ![e] = s]
  BY DEF RegisterAccept, AcceptExFails, At, s
<1>2. e \in AcceptEvents /\ \A u \in Threads : pc[u] \in Busy /\ u # t => event[u] # e
  BY <1>1, OneUser DEF Busy, HeldInv
<1>3. ExhaustedInv'
  BY <1>1, RunningFrame
<1>4. CASE RegisterAccept(t)
  <2>1. /\ local' = [local EXCEPT ![t] = NoSession] /\ retried' = [retried EXCEPT ![t] = {}]
        /\ \A u \in Threads : u # t => pc'[u] = pc[u] /\ event'[u] = event[u]
    BY <1>4 DEF RegisterAccept, RegisterReturns, Goto, HeldInv, IInv, TypeOK
  <2>2. ASSUME NEW u \in Threads
        PROVE  /\ pc'[u] \notin Busy => local'[u] = NoSession
               /\ pc'[u] # "registerAccept" => retried'[u] = {}
               /\ pc'[u] \in Busy =>
                     IF retried'[u] = {} THEN local'[u] \in {NoSession, acceptSession'[event'[u]]}
                     ELSE acceptSession'[event'[u]] \in retried'[u]
    <3>1. CASE u = t
      BY <2>1, <3>1 DEF HeldInv, IInv, TypeOK
    <3>2. CASE u # t
      BY <1>1, <1>2, <2>1, <3>2 DEF HeldInv, IInv, TypeOK, StackInv
    <3> QED
      BY <3>1, <3>2
  <2> QED
    BY <1>3, <2>2 DEF StackInv
<1>5. CASE AcceptExFails(t)
  <2>1. /\ retried' = [retried EXCEPT ![t] = @ \cup {s}] /\ UNCHANGED <<pc, event, local>>
    BY <1>5 DEF AcceptExFails, s
  <2>2. ASSUME NEW u \in Threads
        PROVE  /\ pc'[u] \notin Busy => local'[u] = NoSession
               /\ pc'[u] # "registerAccept" => retried'[u] = {}
               /\ pc'[u] \in Busy =>
                     IF retried'[u] = {} THEN local'[u] \in {NoSession, acceptSession'[event'[u]]}
                     ELSE acceptSession'[event'[u]] \in retried'[u]
    <3>1. CASE u = t
      BY <1>1, <1>2, <2>1, <3>1 DEF HeldInv, IInv, TypeOK, Busy
    <3>2. CASE u # t
      BY <1>1, <1>2, <2>1, <3>2 DEF HeldInv, IInv, TypeOK, StackInv
    <3> QED
      BY <3>1, <3>2
  <2> QED
    BY <1>3, <2>2 DEF StackInv
<1> QED
  BY <1>4, <1>5

LEMMA HeldProcessStep ==
    ASSUME HeldInv, NEW t \in Threads, ProcessAccept(t) \/ ProcessConnect(t)
    PROVE  (StackInv /\ ExhaustedInv)'
<1>1. /\ stopped' = "no" /\ pc[t] \in {"processAccept", "processConnect"}
      /\ \E label \in {"registerAccept", "processConnect"} : pc' = [pc EXCEPT ![t] = label]
      /\ UNCHANGED <<event, local, retried, acceptSession>>
  BY DEF ProcessAccept, ProcessConnect, At, Goto, accepts
<1>2. PICK label \in {"registerAccept", "processConnect"} : pc' = [pc EXCEPT ![t] = label]
  BY <1>1
<1> QED
  BY <1>1, <1>2, RunningFrame DEF HeldInv, IInv, TypeOK, StackInv, Busy

LEMMA HeldNext == HeldInv /\ [Next]_vars => HeldInv'
<1> SUFFICES ASSUME HeldInv, [Next]_vars PROVE HeldInv'
  OBVIOUS
<1>1. IInv'
  BY NextStep DEF HeldInv
<1>2. (StackInv /\ ExhaustedInv)'
  <2>1. CASE UNCHANGED vars
    BY <2>1, HeldFrame DEF HeldInv, vars, threads, accepts, service
  <2>2. CASE StartAccept \/ StartFails \/ \E w \in Workers : Launch(w) \/ \E e \in AcceptEvents : Dispatch(w, e)
    BY <2>2, HeldWorkerStep
  <2>3. CASE \E t \in Threads : RegisterAccept(t) \/ AcceptExFails(t)
    BY <2>3, HeldRegisterStep
  <2>4. ASSUME NEW t \in Threads, NoMoreSessions(t) PROVE (StackInv /\ ExhaustedInv)'
    BY <2>4 DEF HeldInv, NoMoreSessions, threads, accepts, service, StackInv, ExhaustedInv, Free, Referenced
  <2>5. CASE \E t \in Threads : ProcessAccept(t) \/ ProcessConnect(t)
    BY <2>5, HeldProcessStep
  <2>6. ASSUME NEW s \in Sessions, ReleaseSession(s) \/ CloseSession(s) PROVE (StackInv /\ ExhaustedInv)'
    BY <2>6, RunningFrame DEF HeldInv, ReleaseSession, CloseSession, threads, accepts, StackInv
  <2>7. CASE \E e \in AcceptEvents : AcceptCompletes(e) \/ AcceptFails(e)
    BY <2>7, HeldFrame DEF HeldInv, AcceptCompletes, AcceptFails, threads, service
  <2>8. CASE \E c \in Clients :
                Connect(c) \/ Handshake(c) \/ Refuse(c) \/ ClientProcessConnect(c) \/ Leave(c)
    BY <2>8, HeldFrame DEF HeldInv, Connect, Handshake, Refuse, ClientProcessConnect, Leave,
       server, threads, accepts, service
  <2> QED
    BY <2>1, <2>2, <2>3, <2>4, <2>5, <2>6, <2>7, <2>8 DEF Next, Continue
<1> QED
  BY <1>1, <1>2 DEF HeldInv

\* A set whose elements all come from those of a finite set has no more of them.
LEMMA ImageBound ==
    ASSUME NEW S, IsFiniteSet(S), NEW f, f = [x \in S |-> f[x]], NEW T, T = {f[x] : x \in S}
    PROVE  IsFiniteSet(T) /\ Cardinality(T) <= Cardinality(S)
<1>1. f \in [S -> T] /\ \A y \in T : \E x \in S : f[x] = y
  OBVIOUS
<1> QED
  BY <1>1, FS_Surjection DEF Surjection

LEMMA UnionBound ==
    ASSUME NEW S, NEW T, IsFiniteSet(S), IsFiniteSet(T)
    PROVE  IsFiniteSet(S \cup T) /\ Cardinality(S \cup T) <= Cardinality(S) + Cardinality(T)
<1>1. IsFiniteSet(S \cup T) /\ Cardinality(S \cup T) = Cardinality(S) + Cardinality(T) - Cardinality(S \cap T)
  BY FS_Union
<1>2. IsFiniteSet(S \cap T)
  BY FS_Intersection
<1>3. Cardinality(S) \in Nat /\ Cardinality(T) \in Nat /\ Cardinality(S \cap T) \in Nat
  BY <1>2, FS_CardinalityType
<1> QED
  BY <1>1, <1>3

\* Every session is the service's, a released one, one frame's of a retry, or the one that stands
\* for an event: the event's, or if there are retries of it, ProcessAccept's.
LEMMA ExhaustionCounted == HeldInv => ExhaustionHasCause
<1> SUFFICES ASSUME HeldInv, stopped = "noSession"
             PROVE  sessionCount + Cardinality(closing) + MaxSessionCount + Retries >= Cardinality(Sessions)
  BY DEF ExhaustionHasCause
<1> DEFINE Frames == {p \in Threads \X Sessions : p[2] \in retried[p[1]]}
           RetriedOn(e) == {t \in Threads : pc[t] \in Busy /\ event[t] = e /\ retried[t] # {}}
           Standing == [e \in AcceptEvents |->
                          IF RetriedOn(e) = {} THEN acceptSession[e] ELSE local[CHOOSE t \in RetriedOn(e) : TRUE]]
           OfFrame == [p \in Frames |-> p[2]]
           Owned == sessions \cup closing
           A == {Standing[e] : e \in AcceptEvents}
           B == {OfFrame[p] : p \in Frames}
<1>1. Sessions \subseteq (Owned \cup A) \cup B
  <2> SUFFICES ASSUME NEW s \in Sessions, s \notin Owned, s \notin B PROVE s \in A
    OBVIOUS
  <2>1. \A t \in Threads : s \notin retried[t]
    <3> SUFFICES ASSUME NEW t \in Threads, s \in retried[t] PROVE FALSE
      OBVIOUS
    <3>1. <<t, s>> \in Frames /\ OfFrame[<<t, s>>] = s
      OBVIOUS
    <3> QED
      BY <3>1
  <2>2. s # NoSession
    BY SessionsAssumption
  <2>3. \/ \E e \in AcceptEvents : s = acceptSession[e]
        \/ \E t \in Threads : s = local[t]
    BY <2>1 DEF HeldInv, ExhaustedInv, Free, Referenced
  <2>4. ASSUME NEW e \in AcceptEvents, s = acceptSession[e] PROVE s \in A
    <3>1. RetriedOn(e) = {}
      BY <2>1, <2>4 DEF HeldInv, StackInv
    <3> QED
      BY <2>4, <3>1
  <2>5. ASSUME NEW t \in Threads, s = local[t] PROVE s \in A
    <3>1. pc[t] \in Busy
      BY <2>2, <2>5 DEF HeldInv, StackInv
    <3>2. event[t] \in AcceptEvents /\ \A u \in Threads : pc[u] \in Busy /\ u # t => event[u] # event[t]
      BY <3>1, OneUser DEF HeldInv
    <3>3. CASE retried[t] = {}
      BY <2>2, <2>4, <2>5, <3>1, <3>2, <3>3 DEF HeldInv, StackInv
    <3>4. CASE retried[t] # {}
      <4>1. RetriedOn(event[t]) = {t}
        BY <3>1, <3>2, <3>4
      <4>2. Standing[event[t]] = local[t]
        BY <3>2, <4>1
      <4> QED
        BY <2>5, <3>2, <4>2
    <3> QED
      BY <3>3, <3>4
  <2> QED
    BY <2>3, <2>4, <2>5
<1>2. IsFiniteSet(AcceptEvents) /\ Cardinality(AcceptEvents) = MaxSessionCount
  BY FS_Interval, NumbersAssumption DEF AcceptEvents
<1>3. IsFiniteSet(A) /\ Cardinality(A) <= MaxSessionCount
  <2> HIDE DEF Standing
  <2>1. Standing = [e \in AcceptEvents |-> Standing[e]]
    BY DEF Standing
  <2> QED
    BY <1>2, <2>1, ImageBound
<1>4. IsFiniteSet(Frames)
  <2>1. IsFiniteSet(Threads)
    BY FS_AddElement, ThreadsAssumption DEF Threads
  <2>2. IsFiniteSet(Threads \X Sessions)
    BY <2>1, FS_Product, SessionsAssumption
  <2> QED
    BY <2>2, FS_Subset
<1>5. Retries = Cardinality(Frames)
  BY DEF Retries
<1> HIDE DEF Frames, Standing
<1>6. IsFiniteSet(B) /\ Cardinality(B) <= Cardinality(Frames)
  <2> HIDE DEF OfFrame
  <2>1. OfFrame = [p \in Frames |-> OfFrame[p]]
    BY DEF OfFrame
  <2> QED
    BY <1>4, <2>1, ImageBound
<1>7. /\ IsFiniteSet(sessions) /\ sessionCount = Cardinality(sessions) /\ IsFiniteSet(closing)
      /\ IsFiniteSet(Owned) /\ Cardinality(Owned) <= Cardinality(sessions) + Cardinality(closing)
  <2>1. IsFiniteSet(sessions) /\ sessionCount = Cardinality(sessions) /\ IsFiniteSet(closing)
    BY FS_Subset, SessionsAssumption DEF HeldInv, IInv, TypeOK
  <2> QED
    BY <2>1, UnionBound
<1> HIDE DEF A, B, Owned
<1>8. /\ IsFiniteSet(Owned \cup A)
      /\ Cardinality(Owned \cup A) <= Cardinality(Owned) + Cardinality(A)
  BY <1>3, <1>7, UnionBound
<1>9. /\ IsFiniteSet((Owned \cup A) \cup B)
      /\ Cardinality((Owned \cup A) \cup B) <= Cardinality(Owned \cup A) + Cardinality(B)
  BY <1>6, <1>8, UnionBound
<1>10. Cardinality(Sessions) <= Cardinality((Owned \cup A) \cup B)
  BY <1>1, <1>9, FS_Subset
<1>11. /\ Cardinality(Sessions) \in Nat /\ Cardinality(sessions) \in Nat /\ Cardinality(closing) \in Nat
       /\ Cardinality(Owned) \in Nat /\ Cardinality(A) \in Nat /\ Cardinality(B) \in Nat
       /\ Cardinality(Owned \cup A) \in Nat /\ Cardinality((Owned \cup A) \cup B) \in Nat
       /\ Cardinality(Frames) \in Nat
  BY <1>3, <1>4, <1>6, <1>7, <1>8, <1>9, FS_CardinalityType, SessionsAssumption
<1> QED
  BY <1>3, <1>5, <1>6, <1>7, <1>8, <1>9, <1>10, <1>11, NumbersAssumption

\* The server runs out of sockets (Service.cpp:37, Listener.cpp:94) only when
\* every one is a connected session's, a released one's that its events or handlers
\* still own, an accept's or a retry's, for every number of them: an accept that
\* failed leaves no session behind once its frames return.
THEOREM ExhaustionExplained == Spec => []ExhaustionHasCause
<1>1. Spec => []HeldInv
  BY InitHeld, HeldNext, PTL DEF Spec
<1> QED
  BY <1>1, ExhaustionCounted, PTL
=============================================================================
