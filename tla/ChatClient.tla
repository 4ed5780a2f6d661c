----------------------------- MODULE ChatClient -----------------------------
(***************************************************************************)
(* A DummyClient as ChatServer takes it, whose user waits for answers: the *)
(* state is looked at and the packet sent in one step (ClientApp.cpp,      *)
(* ClientCommands.cpp), a packet has its whole effect in one step          *)
(* (ServerPacketHandler.cpp), and nothing is sent while an answer is due.  *)
(***************************************************************************)
EXTENDS Sequences

CONSTANT Answers(_) \* what the server may answer to a packet

VARIABLES
    mode,    \* GClient.state
    leaving, \* net::LeaveRoom has sent, and not yet set the state
    waiting, \* for the answer to a nickname or a join
    toServer, toClient \* packets on their way

chat == <<mode, leaving, waiting, toServer, toClient>>

ChatInit ==
    /\ mode = "Connecting" /\ leaving = FALSE /\ waiting = FALSE
    /\ toServer = <<>> /\ toClient = <<"prompt">>

\* The packets that a line makes the client send in a state.
Requests ==
    [Connecting |-> {}, WaitingNickname |-> {"setNickname"},
     Lobby |-> {"requestRoomList", "createRoom", "joinRoom"},
     InRoom |-> {"chatRoom", "leaveRoom"}]

Line ==
    /\ ~leaving /\ ~waiting
    /\ \E packet \in Requests[mode] :
          /\ toServer' = Append(toServer, packet)
          /\ waiting' = (packet \in {"setNickname", "joinRoom"})
          /\ leaving' = (packet = "leaveRoom")
    /\ UNCHANGED <<mode, toClient>>

BackToLobby ==
    /\ leaving
    /\ mode' = "Lobby" /\ leaving' = FALSE
    /\ UNCHANGED <<waiting, toServer, toClient>>

\* The state that a packet puts the client in.
NextMode(packet) ==
    CASE packet \in {"prompt", "nameTaken"} -> "WaitingNickname"
      [] packet = "nameFree" -> "Lobby"
      [] packet = "enterOk" -> "InRoom"
      [] OTHER -> mode

Receive ==
    /\ toClient # <<>>
    /\ toClient' = Tail(toClient)
    /\ mode' = NextMode(Head(toClient))
    /\ waiting' = (waiting /\ Head(toClient) \notin {"nameTaken", "nameFree", "enterOk", "enterFails"})
    /\ UNCHANGED <<leaving, toServer>>

Serve ==
    /\ toServer # <<>>
    /\ toServer' = Tail(toServer)
    /\ \E answers \in Answers(Head(toServer)) : toClient' = toClient \o answers
    /\ UNCHANGED <<mode, leaving, waiting>>

ChatNext == Line \/ BackToLobby \/ Receive \/ Serve
=============================================================================
