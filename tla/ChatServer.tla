----------------------------- MODULE ChatServer -----------------------------
(***************************************************************************)
(* The chat program end to end: the packet handlers of                     *)
(* GameServer/ClientPacketHandler.cpp over the tables of                   *)
(* GameSessionManager.cpp, and the DummyClients with their users           *)
(* (ClientApp.cpp, ClientCommands.cpp, ServerPacketHandler.cpp).           *)
(*                                                                         *)
(* A session's packets arrive in order and are handled one at a time       *)
(* (Session, RecvStream), packets to a client arrive in order (SendPipe),  *)
(* and what a Room does under its lock is one step (Room has the loop).    *)
(* A handler is as many steps as it has accesses to what other handlers or *)
(* clients see.  Player ids and room ids are places in two sequences.      *)
(*                                                                         *)
(* Left out: the text of names and chat, player counts in room lists, and  *)
(* the client's list of the players around, which nothing reads.           *)
(* Definitions named after another one and a fault are plausible bugs that *)
(* no action uses.                                                         *)
(***************************************************************************)
EXTENDS Integers, Sequences, FiniteSets, SequencesExt

CONSTANTS
    Users,          \* each runs one client, with one session
    NoUser,         \* a player's ownerSession before it is set
    Names,          \* nicknames users choose
    RoomNames,      \* names of rooms users create
    OldRooms,       \* names of rooms created earlier by users long gone
    MaxPlayerCount, \* _maxPlayerCount
    MaxLines        \* bound: MaxLines[u], lines u types

ASSUME UsersAssumption == IsFiniteSet(Users) /\ NoUser \notin Users
ASSUME RoomsAssumption ==
    OldRooms \in Seq(RoomNames) /\ IsInjective(OldRooms) /\ MaxPlayerCount \in Nat \ {0}
ASSUME LinesAssumption == MaxLines \in [Users -> Nat]

VARIABLES
    players,  \* _playerIdToPlayer, in the order of _playerId; the name is in
              \* _playerNameToId from the same moment on
    rooms,    \* the names in _roomIdToRoom, in the order of _roomId
    members,  \* members[r]: the ids in room r's _players
    live,     \* live[u]: "no", "yes" or "gone", u's GameSession
    handler,  \* where u's packet handler is, and its local variables
    crashed,  \* the null dereference that stopped the server, and by whose handler
    c2s, s2c, \* packets on their way
    state, myId, \* GClient.state and GClient.myId of u's client
    leaving,  \* u's UI thread is between Send and SetState in net::LeaveRoom
    asked,    \* u's user waits for the answer to a nickname or a join
    aim,      \* the room of u's last join
    hasty,    \* users that typed on while they waited
    typed     \* lines u typed so far

tables == <<players, rooms, members>>
server == <<tables, live, handler, crashed>>
user == <<leaving, asked, aim, hasty, typed>>
client == <<state, myId, user>>
vars == <<server, c2s, s2c, client>>

Idle == [at |-> "idle"]

Init ==
    /\ players = <<>>
    /\ rooms = OldRooms /\ members = [r \in DOMAIN OldRooms |-> {}]
    /\ live = [u \in Users |-> "no"]
    /\ handler = [u \in Users |-> Idle] /\ crashed = {}
    /\ c2s = [u \in Users |-> <<>>] /\ s2c = [u \in Users |-> <<>>]
    /\ state = [u \in Users |-> "Connecting"] /\ myId = [u \in Users |-> 0]
    /\ leaving = [u \in Users |-> FALSE] /\ asked = [u \in Users |-> FALSE]
    /\ aim = [u \in Users |-> 0] /\ hasty = {} /\ typed = [u \in Users |-> 0]

-----------------------------------------------------------------------------
(* Sessions *)

\* session->Send from u's own handler.
Send(u, packets) == s2c' = [s2c EXCEPT ![u] = @ \o packets]

OnConnected(u) ==
    /\ crashed = {} /\ live[u] = "no"
    /\ live' = [live EXCEPT ![u] = "yes"]
    /\ Send(u, <<[kind |-> "prompt"]>>)
    /\ UNCHANGED <<tables, handler, crashed, c2s, client>>

\* The connection ends, and the session with it.  No table hears of it: the
\* player keeps its name and its room.
Quit(u) ==
    /\ crashed = {} /\ live[u] = "yes" /\ handler[u] = Idle
    /\ live' = [live EXCEPT ![u] = "gone"]
    /\ c2s' = [c2s EXCEPT ![u] = <<>>] /\ s2c' = [s2c EXCEPT ![u] = <<>>]
    /\ UNCHANGED <<tables, handler, crashed, client>>

-----------------------------------------------------------------------------
(* Packet handlers *)

HandlerFreeAlways(u) == TRUE
HandlerFree(u) == handler[u] = Idle

\* u's handler takes a packet of that kind.
Takes(u, kind) ==
    /\ crashed = {} /\ live[u] = "yes" /\ HandlerFree(u)
    /\ c2s[u] # <<>> /\ Head(c2s[u]).kind = kind
    /\ c2s' = [c2s EXCEPT ![u] = Tail(@)]

\* u's handler goes on from there.
At(u, label) == crashed = {} /\ handler[u].at = label
Goto(u, where) == handler' = [handler EXCEPT ![u] = where]

Crash(u, where) == crashed' = {[by |-> u, in |-> where]} /\ UNCHANGED <<players, members, handler, s2c>>

GetPlayer(id) == players[id]
RoomExists(r) == r \in DOMAIN rooms

\* The room of player id.  It does not exist while the player's roomId is 0 or -1.
GetRoomFromPlayerId(id) == GetPlayer(id).roomId

NameTakenNever(name) == FALSE
NameTaken(name) == \E id \in DOMAIN players : players[id].name = name

\* AddPlayer; roomId starts as 0.
HandleSetNickname(u) ==
    /\ Takes(u, "setNickname")
    /\ LET name == Head(c2s[u]).name
       IN  IF NameTaken(name)
           THEN Goto(u, [at |-> "nameTaken"]) /\ UNCHANGED players
           ELSE /\ players' = Append(players, [name |-> name, session |-> NoUser, roomId |-> 0])
                /\ Goto(u, [at |-> "nameFree", id |-> Len(players) + 1])
    /\ UNCHANGED <<rooms, members, live, crashed, s2c, client>>

AnswerNameTaken(u) ==
    /\ At(u, "nameTaken")
    /\ Send(u, <<[kind |-> "nameTaken"], [kind |-> "prompt"]>>)
    /\ Goto(u, Idle)
    /\ UNCHANGED <<tables, live, crashed, c2s, client>>

AnswerNameFreeEarlyId(u) ==
    /\ At(u, "nameFree")
    /\ players' = [players EXCEPT ![handler[u].id].session = u]
    /\ Send(u, <<[kind |-> "nameFree", id |-> 1]>>)
    /\ Goto(u, Idle)
    /\ UNCHANGED <<rooms, members, live, crashed, c2s, client>>

AnswerNameFree(u) ==
    /\ At(u, "nameFree")
    /\ players' = [players EXCEPT ![handler[u].id].session = u]
    /\ Send(u, <<[kind |-> "nameFree", id |-> handler[u].id]>>)
    /\ Goto(u, Idle)
    /\ UNCHANGED <<rooms, members, live, crashed, c2s, client>>

\* The client only shows the answers to these two.
HandleRequestRoomList(u) ==
    /\ Takes(u, "requestRoomList")
    /\ Send(u, <<[kind |-> "roomList"]>>)
    /\ UNCHANGED <<server, client>>

RoomNameTaken(name) == name \in Range(rooms)

HandleCreateRoom(u) ==
    /\ Takes(u, "createRoom")
    /\ LET name == Head(c2s[u]).name
       IN  IF RoomNameTaken(name)
           THEN UNCHANGED <<rooms, members>>
           ELSE rooms' = Append(rooms, name) /\ members' = Append(members, {})
    /\ Send(u, <<[kind |-> "createRoom"]>>)
    /\ UNCHANGED <<players, live, handler, crashed, client>>

\* ownerSession.lock() of a member.
Lost(ids) == {id \in ids : GetPlayer(id).session = NoUser \/ live[GetPlayer(id).session] # "yes"}

\* Every member's session is sent the packet, once for each of its players.
Tell(ids, packet) ==
    s2c' = [u \in Users |->
              LET mine == {id \in ids \ Lost(ids) : players[id].session = u}
              IN  s2c[u] \o [n \in 1 .. Cardinality(mine) |-> packet]]

Full(r) == Cardinality(members[r]) >= MaxPlayerCount

\* GetRoom, GetPlayer and Room::Enter, which crashes on a member without session.
HandleJoinRoom(u) ==
    /\ Takes(u, "joinRoom")
    /\ LET r == Head(c2s[u]).room
           id == Head(c2s[u]).id
           answer(error) == Goto(u, [at |-> "joined", id |-> id, room |-> r, error |-> error])
       IN  IF ~RoomExists(r)
           THEN answer("roomNotFound") /\ UNCHANGED <<members, crashed, s2c>>
           ELSE IF Full(r)
           THEN answer("roomFull") /\ UNCHANGED <<members, crashed, s2c>>
           ELSE IF Lost(members[r] \cup {id}) # {}
           THEN Crash(u, "Room::Enter")
           ELSE /\ members' = [members EXCEPT ![r] = @ \cup {id}]
                /\ Tell(members'[r], [kind |-> "roomEvent"])
                /\ answer("ok")
                /\ UNCHANGED crashed
    /\ UNCHANGED <<players, rooms, live, client>>

AnswerJoinUnlessFull(u) ==
    /\ At(u, "joined")
    /\ IF handler[u].error = "roomFull"
       THEN UNCHANGED s2c
       ELSE Send(u, <<[kind |-> "enterRoom", error |-> handler[u].error]>>)
    /\ Goto(u, [handler[u] EXCEPT !.at = "answered"])
    /\ UNCHANGED <<tables, live, crashed, c2s, client>>

AnswerJoin(u) ==
    /\ At(u, "joined")
    /\ Send(u, <<[kind |-> "enterRoom", error |-> handler[u].error]>>)
    /\ Goto(u, [handler[u] EXCEPT !.at = "answered"])
    /\ UNCHANGED <<tables, live, crashed, c2s, client>>

AssignRoomOnce(u) ==
    /\ At(u, "answered")
    /\ IF handler[u].error = "roomNotFound"
       THEN Crash(u, "Handle_C_JOIN_ROOM")
       ELSE /\ players' = [players EXCEPT ![handler[u].id].roomId =
                              IF @ = 0 THEN handler[u].room ELSE @]
            /\ Goto(u, Idle)
            /\ UNCHANGED <<members, crashed, s2c>>
    /\ UNCHANGED <<rooms, live, c2s, client>>

\* player->roomId = room->GetId(), whatever the answer was.
AssignRoom(u) ==
    /\ At(u, "answered")
    /\ IF handler[u].error = "roomNotFound"
       THEN Crash(u, "Handle_C_JOIN_ROOM")
       ELSE /\ players' = [players EXCEPT ![handler[u].id].roomId = handler[u].room]
            /\ Goto(u, Idle)
            /\ UNCHANGED <<members, crashed, s2c>>
    /\ UNCHANGED <<rooms, live, c2s, client>>

HandleChatRoomToAll(u) ==
    /\ Takes(u, "chatRoom")
    /\ LET r == GetRoomFromPlayerId(Head(c2s[u]).id)
       IN  IF ~RoomExists(r)
           THEN Crash(u, "Handle_C_CHAT_ROOM")
           ELSE /\ Tell(DOMAIN players, [kind |-> "chatRoom", room |-> r])
                /\ UNCHANGED <<players, members, handler, crashed>>
    /\ UNCHANGED <<rooms, live, client>>

\* This handler does not check that the player has a room.
HandleChatRoom(u) ==
    /\ Takes(u, "chatRoom")
    /\ LET r == GetRoomFromPlayerId(Head(c2s[u]).id)
       IN  IF ~RoomExists(r)
           THEN Crash(u, "Handle_C_CHAT_ROOM")
           ELSE /\ Tell(members[r], [kind |-> "chatRoom", room |-> r])
                /\ UNCHANGED <<players, members, handler, crashed>>
    /\ UNCHANGED <<rooms, live, client>>

HandleLeaveRoomKeeps(u) ==
    /\ Takes(u, "leaveRoom")
    /\ Goto(u, [at |-> "left", id |-> Head(c2s[u]).id])
    /\ UNCHANGED <<tables, crashed, s2c, live, client>>

\* Room::Leave tells the members that are left and the player who leaves.
HandleLeaveRoom(u) ==
    /\ Takes(u, "leaveRoom")
    /\ LET id == Head(c2s[u]).id
           r == GetRoomFromPlayerId(id)
       IN  IF ~RoomExists(r)
           THEN UNCHANGED <<members, handler, crashed, s2c>>
           ELSE IF Lost(members[r] \ {id}) # {}
           THEN Crash(u, "Room::Leave")
           ELSE /\ members' = [members EXCEPT ![r] = @ \ {id}]
                /\ Tell(members'[r] \cup {id}, [kind |-> "roomEvent"])
                /\ Goto(u, [at |-> "left", id |-> id])
                /\ UNCHANGED crashed
    /\ UNCHANGED <<players, rooms, live, client>>

ForgetRoom(u) ==
    /\ At(u, "left")
    /\ players' = [players EXCEPT ![handler[u].id].roomId = -1]
    /\ Goto(u, Idle)
    /\ UNCHANGED <<rooms, members, live, crashed, c2s, s2c, client>>

Handle(u) ==
    \/ HandleSetNickname(u) \/ AnswerNameTaken(u) \/ AnswerNameFree(u)
    \/ HandleRequestRoomList(u) \/ HandleCreateRoom(u)
    \/ HandleJoinRoom(u) \/ AnswerJoin(u) \/ AssignRoom(u)
    \/ HandleChatRoom(u) \/ HandleLeaveRoom(u) \/ ForgetRoom(u)

-----------------------------------------------------------------------------
(* The client and its user *)

\* A line typed in that state makes the client send the packet.  The check of
\* the state and the Send are one step: while a user waits for answers before
\* typing on, no packet on its way changes the state.
Types(u, where, packet) ==
    /\ crashed = {} /\ live[u] = "yes" /\ state[u] = where
    /\ ~leaving[u] /\ typed[u] < MaxLines[u]
    /\ typed' = [typed EXCEPT ![u] = @ + 1]
    /\ hasty' = IF asked[u] THEN hasty \cup {u} ELSE hasty
    /\ c2s' = [c2s EXCEPT ![u] = Append(@, packet)]
    /\ UNCHANGED <<server, s2c, state, myId>>

SetNickname(u) ==
    /\ \E n \in Names : Types(u, "WaitingNickname", [kind |-> "setNickname", name |-> n])
    /\ asked' = [asked EXCEPT ![u] = TRUE]
    /\ UNCHANGED <<leaving, aim>>

RequestRoomList(u) ==
    /\ Types(u, "Lobby", [kind |-> "requestRoomList"])
    /\ UNCHANGED <<leaving, asked, aim>>

CreateRoom(u) ==
    /\ \E n \in RoomNames : Types(u, "Lobby", [kind |-> "createRoom", name |-> n])
    /\ UNCHANGED <<leaving, asked, aim>>

\* The id may be that of no room.
EnterRoomById(u) ==
    \E r \in 1 .. Len(rooms) + 1 :
        /\ Types(u, "Lobby", [kind |-> "joinRoom", id |-> myId[u], room |-> r])
        /\ asked' = [asked EXCEPT ![u] = TRUE]
        /\ aim' = [aim EXCEPT ![u] = r]
        /\ UNCHANGED leaving

ChatToRoom(u) ==
    /\ Types(u, "InRoom", [kind |-> "chatRoom", id |-> myId[u]])
    /\ UNCHANGED <<leaving, asked, aim>>

LeaveRoom(u) ==
    /\ Types(u, "InRoom", [kind |-> "leaveRoom", id |-> myId[u]])
    /\ leaving' = [leaving EXCEPT ![u] = TRUE]
    /\ UNCHANGED <<asked, aim>>

\* The client does not wait for the server to confirm.
BackToLobby(u) ==
    /\ leaving[u]
    /\ state' = [state EXCEPT ![u] = "Lobby"]
    /\ leaving' = [leaving EXCEPT ![u] = FALSE]
    /\ UNCHANGED <<server, c2s, s2c, myId, asked, aim, hasty, typed>>

\* The state a packet puts the client in.
NextState(u, packet) ==
    CASE packet.kind \in {"prompt", "nameTaken"} -> "WaitingNickname"
      [] packet.kind = "nameFree" -> "Lobby"
      [] packet.kind = "enterRoom" /\ packet.error = "ok" -> "InRoom"
      [] OTHER -> state[u]

\* The client's worker thread handles the next packet.
Receive(u) ==
    /\ s2c[u] # <<>>
    /\ LET packet == Head(s2c[u])
       IN  /\ state' = [state EXCEPT ![u] = NextState(u, packet)]
           /\ myId' = [myId EXCEPT ![u] = IF packet.kind = "nameFree" THEN packet.id ELSE @]
           /\ asked' = [asked EXCEPT ![u] =
                           @ /\ packet.kind \notin {"nameTaken", "nameFree", "enterRoom"}]
    /\ s2c' = [s2c EXCEPT ![u] = Tail(@)]
    /\ UNCHANGED <<server, c2s, leaving, aim, hasty, typed>>

Line(u) ==
    \/ SetNickname(u) \/ RequestRoomList(u) \/ CreateRoom(u)
    \/ EnterRoomById(u) \/ ChatToRoom(u) \/ LeaveRoom(u)

Next ==
    \E u \in Users :
        OnConnected(u) \/ Quit(u) \/ Handle(u) \/ Line(u) \/ BackToLobby(u) \/ Receive(u)

Spec == Init /\ [][Next]_vars

-----------------------------------------------------------------------------
RoomsOf(id) == {r \in DOMAIN members : id \in members[r]}

\* Types; every id on its way to the server is that of a player, whose session
\* is the sender's once the client knows it.
TypeOK ==
    /\ players \in Seq([name : Names, session : Users \cup {NoUser}, roomId : Int])
    /\ rooms \in Seq(RoomNames) /\ DOMAIN members = DOMAIN rooms
    /\ \A r \in DOMAIN members : members[r] \subseteq DOMAIN players
    /\ live \in [Users -> {"no", "yes", "gone"}]
    /\ state \in [Users -> {"Connecting", "WaitingNickname", "Lobby", "InRoom"}]
    /\ \A u \in Users : state[u] \in {"Lobby", "InRoom"} => players[myId[u]].session = u
    /\ leaving \in [Users -> BOOLEAN] /\ asked \in [Users -> BOOLEAN]
    /\ hasty \subseteq Users /\ \A u \in Users : typed[u] \in 0 .. MaxLines[u]

\* No two clients ever hold the same id or the same nickname (README.md:22), and
\* no two rooms have one name.
IdentitiesDistinct ==
    /\ \A u, v \in Users : u # v /\ myId[u] # 0 /\ myId[v] # 0 =>
          myId[u] # myId[v] /\ players[myId[u]].name # players[myId[v]].name
    /\ IsInjective(rooms)

\* A player is in one room at most, unless its user is hasty.
OneRoomAtATime ==
    \A id \in DOMAIN players : players[id].session \notin hasty => Cardinality(RoomsOf(id)) <= 1

\* The server runs and has handled all that u sent.
Served(u) ==
    crashed = {} /\ live[u] = "yes" /\ ~leaving[u] /\ c2s[u] = <<>> /\ handler[u] = Idle

\* Client and server agree on where a user is who waits for answers: what the
\* client's state machine assumes (without confirmation, ClientCommands.cpp:78)
\* and what the server's two records of it (Player::roomId and Room::_players) say.
RecordsAgree ==
    \A u \in Users \ hasty : Served(u) =>
        /\ state[u] = "InRoom" => RoomsOf(myId[u]) = {aim[u]} /\ players[myId[u]].roomId = aim[u]
        /\ state[u] = "Lobby" /\ ~asked[u] => RoomsOf(myId[u]) = {}

\* The client of a user who waits for answers never shows, in a room, the chat
\* of another room: S_CHAT_ROOM's room id is not looked at
\* (ServerPacketHandler.cpp:123-128).
HearsOnlyItsRoom ==
    \A u \in Users \ hasty : \A n \in DOMAIN s2c[u] :
        state[u] = "InRoom" /\ s2c[u][n].kind = "chatRoom" => s2c[u][n].room = aim[u]

\* All three: where a user is, what it hears and what the server holds to be its
\* place are the same room.
PlacesAgree == OneRoomAtATime /\ RecordsAgree /\ HearsOnlyItsRoom

\* Nothing stops the server but, where somebody enters or leaves a room, a member
\* whose session is gone, a join of a room that was not found, and a chat line of a
\* hasty user: the dereferences of a null room or session in Room.cpp:28 and :52,
\* ClientPacketHandler.cpp:109 and :119.
CrashHasCause ==
    \A c \in crashed :
        \/ c.in \in {"Room::Enter", "Room::Leave"} /\ \E r \in DOMAIN members : Lost(members[r]) # {}
        \/ /\ c.in = "Handle_C_JOIN_ROOM"
           /\ handler[c.by].at = "answered" /\ handler[c.by].error = "roomNotFound"
        \/ c.in = "Handle_C_CHAT_ROOM" /\ c.by \in hasty

\* While the server runs, every nickname or join that a user waits for is on its
\* way, in a handler, or answered by a packet on its way back: none is dropped.
NoQuestionLost ==
    \A u \in Users : asked[u] /\ live[u] = "yes" /\ crashed = {} =>
        \/ \E n \in DOMAIN c2s[u] : c2s[u][n].kind \in {"setNickname", "joinRoom"}
        \/ handler[u].at \in {"nameTaken", "nameFree", "joined"}
        \/ \E n \in DOMAIN s2c[u] : s2c[u][n].kind \in {"nameTaken", "nameFree", "enterRoom"}
=============================================================================
