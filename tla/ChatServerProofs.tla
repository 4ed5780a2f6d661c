-------------------------- MODULE ChatServerProofs --------------------------
(***************************************************************************)
(* Proofs about ChatServer, for every finite set of users and every set of *)
(* names, rooms and lines: identities are never shared, no question of a   *)
(* user is lost while the server runs, client and server agree on the room *)
(* of a user who waits for answers, and a crash has one of three causes.   *)
(***************************************************************************)
EXTENDS ChatServer, FiniteSetTheorems, SequenceTheorems, TLAPS

Player == [name : Names, session : Users \cup {NoUser}, roomId : Int]
Errors == {"ok", "roomNotFound", "roomFull"}

Request ==
    [kind : {"requestRoomList"}] \cup [kind : {"setNickname"}, name : Names]
      \cup [kind : {"createRoom"}, name : RoomNames]
      \cup [kind : {"joinRoom"}, id : Int, room : Int]
      \cup [kind : {"chatRoom", "leaveRoom"}, id : Int]

Answer ==
    [kind : {"prompt", "nameTaken", "roomList", "createRoom", "roomEvent"}]
      \cup [kind : {"nameFree"}, id : Int] \cup [kind : {"enterRoom"}, error : Errors]
      \cup [kind : {"chatRoom"}, room : Int]

Place ==
    [at : {"idle", "nameTaken"}] \cup [at : {"nameFree", "left"}, id : Int]
      \cup [at : {"joined", "answered"}, id : Int, room : Int, error : Errors]

ServerTypes ==
    /\ players \in Seq(Player)
    /\ rooms \in Seq(RoomNames)
    /\ members \in Seq(SUBSET Int) /\ Len(members) = Len(rooms)
    /\ handler \in [Users -> Place]

QueueTypes ==
    /\ c2s \in [Users -> Seq(Request)]
    /\ s2c \in [Users -> Seq(Answer)]

ClientTypes ==
    /\ live \in [Users -> {"no", "yes", "gone"}]
    /\ state \in [Users -> {"Connecting", "WaitingNickname", "Lobby", "InRoom"}]
    /\ myId \in [Users -> Int]
    /\ leaving \in [Users -> BOOLEAN] /\ asked \in [Users -> BOOLEAN]
    /\ hasty \subseteq Users /\ typed \in [Users -> Nat]
    /\ \A u \in Users : typed[u] <= MaxLines[u]

TypeInv == ServerTypes /\ QueueTypes /\ ClientTypes

\* The tables: names are given once, and members are players.
TableInv ==
    /\ \A i, j \in DOMAIN players : players[i].name = players[j].name => i = j
    /\ IsInjective(rooms)
    /\ \A r \in DOMAIN members : members[r] \subseteq DOMAIN players

Owns(u, id) == id \in DOMAIN players /\ players[id].session = u

\* A player that AddPlayer has made has no session yet, and one handler.
FreshInv ==
    /\ \A u \in Users : handler[u].at = "nameFree" => Owns(NoUser, handler[u].id)
    /\ \A u, v \in Users : handler[u].at = "nameFree" /\ handler[v].at = "nameFree" /\ u # v
                              => handler[u].id # handler[v].id

\* An id is known, on its way and at work only where its session is.
RequestKnown(u, packet) ==
    packet.kind \in {"joinRoom", "chatRoom", "leaveRoom"} => Owns(u, packet.id) /\ myId[u] # 0
AnswerKnown(u, packet) ==
    /\ packet.kind = "nameFree" => Owns(u, packet.id)
    /\ packet.kind = "enterRoom" => myId[u] # 0
PlaceKnown(u) ==
    handler[u].at \in {"joined", "answered", "left"} => Owns(u, handler[u].id) /\ myId[u] # 0
ClientKnown(u) ==
    /\ myId[u] # 0 => Owns(u, myId[u])
    /\ state[u] \in {"Lobby", "InRoom"} \/ leaving[u] => myId[u] # 0

KnownInv == \A u \in Users :
    /\ ClientKnown(u) /\ PlaceKnown(u)
    /\ \A n \in DOMAIN c2s[u] : RequestKnown(u, c2s[u][n])
    /\ \A n \in DOMAIN s2c[u] : AnswerKnown(u, s2c[u][n])

\* Nobody asks before the session is there.
AskedInv == \A u \in Users : live[u] = "no" => ~asked[u]

IInv == TypeInv /\ TableInv /\ FreshInv /\ KnownInv /\ AskedInv /\ NoQuestionLost

-----------------------------------------------------------------------------
(* Queues *)

\* What a packet is, by its kind.
LEMMA RequestFields ==
    ASSUME NEW p \in Request
    PROVE  /\ p.kind = "setNickname" => p.name \in Names
           /\ p.kind = "createRoom" => p.name \in RoomNames
           /\ p.kind = "joinRoom" => p.id \in Int /\ p.room \in Int
           /\ p.kind \in {"chatRoom", "leaveRoom"} => p.id \in Int
BY DEF Request

LEMMA AnswerFields ==
    ASSUME NEW p \in Answer
    PROVE  /\ p.kind = "nameFree" => p.id \in Int
           /\ p.kind = "chatRoom" => p.room \in Int
BY DEF Answer

LEMMA PlaceFields ==
    ASSUME NEW h \in Place
    PROVE  /\ h.at \in {"nameFree", "left"} => h.id \in Int
           /\ h.at \in {"joined", "answered"} =>
                  h.id \in Int /\ h.room \in Int /\ h.error \in Errors
                  /\ [h EXCEPT !.at = "answered"] \in Place
                  /\ [h EXCEPT !.at = "answered"].at = "answered"
                  /\ [h EXCEPT !.at = "answered"].id = h.id
BY DEF Place

LEMMA Records ==
    /\ [at |-> "idle"] \in Place /\ [at |-> "nameTaken"] \in Place
    /\ \A id \in Int : [at |-> "nameFree", id |-> id] \in Place /\ [at |-> "left", id |-> id] \in Place
    /\ \A id, r \in Int, e \in Errors : [at |-> "joined", id |-> id, room |-> r, error |-> e] \in Place
    /\ \A k \in {"prompt", "nameTaken", "roomList", "createRoom", "roomEvent"} : [kind |-> k] \in Answer
    /\ \A id \in Int : [kind |-> "nameFree", id |-> id] \in Answer
    /\ \A e \in Errors : [kind |-> "enterRoom", error |-> e] \in Answer
    /\ \A r \in Int : [kind |-> "chatRoom", room |-> r] \in Answer
BY DEF Place, Answer

\* s grows to t by packets of E.
Grows(s, t, E) ==
    /\ DOMAIN s \subseteq DOMAIN t
    /\ \A n \in DOMAIN s : t[n] = s[n]
    /\ \A n \in DOMAIN t : n \in DOMAIN s \/ t[n] \in E

LEMMA GrowsConcat ==
    ASSUME NEW S, NEW s \in Seq(S), NEW q \in Seq(S), NEW E, \A n \in DOMAIN q : q[n] \in E
    PROVE  s \o q \in Seq(S) /\ Grows(s, s \o q, E)
<1>1. PICK t : t = s \o q
  OBVIOUS
<1>2. /\ t \in Seq(S) /\ Len(s) \in Nat /\ Len(q) \in Nat /\ Len(t) = Len(s) + Len(q)
      /\ DOMAIN s = 1 .. Len(s) /\ DOMAIN q = 1 .. Len(q) /\ DOMAIN t = 1 .. Len(t)
      /\ \A i \in 1 .. Len(s) + Len(q) : t[i] = IF i <= Len(s) THEN s[i] ELSE q[i - Len(s)]
  BY <1>1, ConcatProperties
<1>3. DOMAIN s \subseteq DOMAIN t /\ \A n \in DOMAIN s : t[n] = s[n]
  BY <1>2
<1>4. ASSUME NEW n \in DOMAIN t, n \notin DOMAIN s
      PROVE  t[n] \in E
  <2>1. n \in 1 .. Len(s) + Len(q) /\ ~(n <= Len(s)) /\ n - Len(s) \in DOMAIN q
    BY <1>2, <1>4
  <2> QED
    BY <1>2, <2>1
<1> QED
  BY <1>1, <1>2, <1>3, <1>4 DEF Grows

\* A handler takes the first request of its session.
LEMMA TakesFirst ==
    ASSUME TypeInv, NEW u \in Users, NEW k, Takes(u, k)
    PROVE  /\ crashed = {} /\ live[u] = "yes" /\ handler[u] = Idle
           /\ 1 \in DOMAIN c2s[u] /\ Head(c2s[u]) = c2s[u][1]
           /\ Head(c2s[u]) \in Request /\ Head(c2s[u]).kind = k
           /\ c2s' \in [Users -> Seq(Request)]
           /\ \A v \in Users \ {u} : c2s'[v] = c2s[v]
           /\ \A n \in DOMAIN c2s'[u] : n + 1 \in DOMAIN c2s[u] /\ c2s'[u][n] = c2s[u][n + 1]
           /\ \A n \in DOMAIN c2s[u] : n = 1 \/ \E m \in DOMAIN c2s'[u] : c2s'[u][m] = c2s[u][n]
<1>1. /\ crashed = {} /\ live[u] = "yes" /\ handler[u] = Idle /\ c2s[u] # <<>>
      /\ Head(c2s[u]).kind = k /\ c2s' = [c2s EXCEPT ![u] = Tail(c2s[u])]
  BY DEF Takes, HandlerFree
<1>2. c2s \in [Users -> Seq(Request)] /\ c2s[u] \in Seq(Request)
  BY DEF TypeInv, QueueTypes
<1>3. PICK s \in Seq(Request) : s = c2s[u] /\ s # <<>>
  BY <1>1, <1>2
<1>4. PICK t : t = Tail(s)
  OBVIOUS
<1>5. /\ Head(s) \in Request /\ t \in Seq(Request) /\ Len(t) = Len(s) - 1
      /\ \A i \in 1 .. Len(t) : t[i] = s[i + 1]
      /\ Len(s) \in Nat \ {0} /\ DOMAIN s = 1 .. Len(s) /\ DOMAIN t = 1 .. Len(t) /\ Head(s) = s[1]
  BY <1>3, <1>4, HeadTailProperties, EmptySeq
<1>6. c2s' \in [Users -> Seq(Request)] /\ c2s'[u] = t /\ \A v \in Users \ {u} : c2s'[v] = c2s[v]
  BY <1>1, <1>2, <1>3, <1>4, <1>5
<1>7. \A n \in DOMAIN t : n + 1 \in DOMAIN s /\ t[n] = s[n + 1]
  BY <1>5
<1>8. ASSUME NEW n \in DOMAIN s, n # 1
      PROVE  \E m \in DOMAIN t : t[m] = s[n]
  <2>1. n - 1 \in DOMAIN t /\ (n - 1) + 1 = n
    BY <1>5, <1>8
  <2> QED
    BY <1>5, <2>1
<1> QED
  BY <1>1, <1>3, <1>5, <1>6, <1>7, <1>8

\* Send appends to the queue of one session.
LEMMA SendGrows ==
    ASSUME TypeInv, NEW u \in Users, NEW q \in Seq(Answer), Send(u, q),
           NEW E, \A n \in DOMAIN q : q[n] \in E
    PROVE  /\ s2c' \in [Users -> Seq(Answer)]
           /\ \A v \in Users \ {u} : s2c'[v] = s2c[v]
           /\ s2c'[u] = s2c[u] \o q
           /\ \A v \in Users : Grows(s2c[v], s2c'[v], E)
<1>1. s2c' = [s2c EXCEPT ![u] = s2c[u] \o q]
  BY DEF Send
<1>2. s2c \in [Users -> Seq(Answer)] /\ s2c[u] \in Seq(Answer)
  BY DEF TypeInv, QueueTypes
<1>3. s2c[u] \o q \in Seq(Answer) /\ Grows(s2c[u], s2c[u] \o q, E)
  BY <1>2, GrowsConcat
<1>4. \A v \in Users \ {u} : s2c'[v] = s2c[v] /\ Grows(s2c[v], s2c[v], E)
  BY <1>1, <1>2 DEF Grows
<1>5. s2c' \in [Users -> Seq(Answer)] /\ s2c'[u] = s2c[u] \o q
  BY <1>1, <1>2, <1>3
<1> QED
  BY <1>3, <1>4, <1>5

\* Tell appends the packet, any number of times, to every queue.
LEMMA TellGrows ==
    ASSUME TypeInv, NEW ids, ids \subseteq DOMAIN players, NEW p \in Answer, Tell(ids, p)
    PROVE  /\ s2c' \in [Users -> Seq(Answer)]
           /\ \A v \in Users : Grows(s2c[v], s2c'[v], {p})
<1> DEFINE mine(v) == {id \in ids \ Lost(ids) : players[id].session = v}
           more(v) == [n \in 1 .. Cardinality(mine(v)) |-> p]
<1>1. s2c' = [v \in Users |-> s2c[v] \o more(v)]
  BY DEF Tell
<1>2. ASSUME NEW v \in Users
      PROVE  more(v) \in Seq(Answer) /\ \A n \in DOMAIN more(v) : more(v)[n] \in {p}
  <2>1. DOMAIN players = 1 .. Len(players) /\ Len(players) \in Nat
    BY DEF TypeInv, ServerTypes
  <2>2. IsFiniteSet(DOMAIN players) /\ mine(v) \subseteq DOMAIN players
    BY <2>1, FS_Interval
  <2>3. Cardinality(mine(v)) \in Nat
    BY <2>2, FS_Subset, FS_CardinalityType
  <2>4. PICK c \in Nat : c = Cardinality(mine(v))
    BY <2>3
  <2>5. [n \in 1 .. c |-> p] \in Seq(Answer)
    OBVIOUS
  <2> QED
    BY <2>4, <2>5
<1>3. ASSUME NEW v \in Users
      PROVE  s2c[v] \o more(v) \in Seq(Answer) /\ Grows(s2c[v], s2c[v] \o more(v), {p})
  <2>1. s2c[v] \in Seq(Answer)
    BY DEF TypeInv, QueueTypes
  <2> QED
    BY <1>2, <2>1, GrowsConcat
<1> HIDE DEF more
<1> QED
  BY <1>1, <1>3
-----------------------------------------------------------------------------
(* What all steps of handlers have in common *)

\* u's question is on its way, in its handler, or its answer is on its way.
Pending(u) ==
    \/ \E n \in DOMAIN c2s[u] : c2s[u][n].kind \in {"setNickname", "joinRoom"}
    \/ handler[u].at \in {"nameTaken", "nameFree", "joined"}
    \/ \E n \in DOMAIN s2c[u] : s2c[u][n].kind \in {"nameTaken", "nameFree", "enterRoom"}

LEMMA PendingGrows ==
    ASSUME NEW v \in Users, c2s'[v] = c2s[v], handler'[v] = handler[v],
           Grows(s2c[v], s2c'[v], Answer), Pending(v)
    PROVE  Pending(v)'
BY DEF Pending, Grows

\* A step of u's handler that takes at most a request of u, and sends only what
\* its receivers may know.
LEMMA HandlerStep ==
    ASSUME IInv, NEW u \in Users, UNCHANGED <<live, client>>, crashed = {},
           ServerTypes', QueueTypes', TableInv', FreshInv',
           \A v \in Users : \A id : Owns(v, id) => Owns(v, id)',
           \A v \in Users \ {u} : handler'[v] = handler[v] /\ c2s'[v] = c2s[v],
           PlaceKnown(u)',
           \A n \in DOMAIN c2s'[u] : \E m \in DOMAIN c2s[u] : c2s'[u][n] = c2s[u][m],
           \A v \in Users : Grows(s2c[v], s2c'[v], Answer),
           \A v \in Users : \A n \in DOMAIN s2c'[v] \ DOMAIN s2c[v] : AnswerKnown(v, s2c[v][n])',
           Pending(u) /\ crashed' = {} => Pending(u)'
    PROVE  IInv'
<1>1. /\ state' = state /\ myId' = myId /\ leaving' = leaving /\ asked' = asked
      /\ hasty' = hasty /\ typed' = typed /\ live' = live
  BY DEF client, user
<1>2. TypeInv'
  BY <1>1 DEF IInv, TypeInv, ClientTypes
<1>3. ASSUME NEW v \in Users, NEW p, RequestKnown(v, p)
      PROVE  RequestKnown(v, p)'
  BY <1>1, <1>3 DEF RequestKnown
<1>4. ASSUME NEW v \in Users, NEW p, AnswerKnown(v, p)
      PROVE  AnswerKnown(v, p)'
  BY <1>1, <1>4 DEF AnswerKnown
<1>5. KnownInv'
  <2>1. ASSUME NEW v \in Users
        PROVE  /\ ClientKnown(v)' /\ PlaceKnown(v)'
               /\ \A n \in DOMAIN c2s'[v] : RequestKnown(v, c2s[v][n])'
               /\ \A n \in DOMAIN s2c'[v] : AnswerKnown(v, s2c[v][n])'
    <3>1. /\ ClientKnown(v) /\ PlaceKnown(v)
          /\ \A n \in DOMAIN c2s[v] : RequestKnown(v, c2s[v][n])
          /\ \A n \in DOMAIN s2c[v] : AnswerKnown(v, s2c[v][n])
      BY DEF IInv, KnownInv
    <3>2. ClientKnown(v)'
      BY <1>1, <3>1 DEF ClientKnown
    <3>3. PlaceKnown(v)'
      BY <1>1, <3>1 DEF PlaceKnown
    <3>4. \A n \in DOMAIN c2s'[v] : \E m \in DOMAIN c2s[v] : c2s'[v][n] = c2s[v][m]
      OBVIOUS
    <3>5. \A n \in DOMAIN c2s'[v] : RequestKnown(v, c2s[v][n])'
      BY <1>3, <3>1, <3>4
    <3>6. ASSUME NEW n \in DOMAIN s2c'[v]
          PROVE  AnswerKnown(v, s2c[v][n])'
      <4>1. CASE n \in DOMAIN s2c[v]
        BY <1>4, <3>1, <4>1 DEF Grows
      <4>2. CASE n \notin DOMAIN s2c[v]
        BY <4>2
      <4> QED
        BY <4>1, <4>2
    <3> QED
      BY <3>2, <3>3, <3>5, <3>6
  <2> QED
    BY <2>1 DEF KnownInv
<1>6. AskedInv'
  BY <1>1 DEF IInv, AskedInv
<1>7. NoQuestionLost'
  <2>1. ASSUME NEW v \in Users, asked'[v], live'[v] = "yes", crashed' = {}
        PROVE  Pending(v)'
    <3>1. Pending(v)
      BY <1>1, <2>1 DEF IInv, NoQuestionLost, Pending
    <3> QED
      BY <2>1, <3>1, PendingGrows
  <2> QED
    BY <2>1 DEF NoQuestionLost, Pending
<1> QED
  BY <1>2, <1>5, <1>6, <1>7 DEF IInv

\* Such a step leaves the players alone, and makes none.
LEMMA QuietHandlerStep ==
    ASSUME IInv, NEW u \in Users, UNCHANGED <<live, client>>, crashed = {},
           players' = players, TableInv',
           rooms' \in Seq(RoomNames), members' \in Seq(SUBSET Int), Len(members') = Len(rooms'),
           NEW h \in Place, h.at # "nameFree", handler' = [handler EXCEPT ![u] = h],
           h.at \in {"joined", "answered", "left"} => Owns(u, h.id) /\ myId[u] # 0,
           QueueTypes', \A v \in Users \ {u} : c2s'[v] = c2s[v],
           \A n \in DOMAIN c2s'[u] : \E m \in DOMAIN c2s[u] : c2s'[u][n] = c2s[u][m],
           \A v \in Users : Grows(s2c[v], s2c'[v], Answer),
           \A v \in Users : \A n \in DOMAIN s2c'[v] \ DOMAIN s2c[v] : AnswerKnown(v, s2c'[v][n]),
           Pending(u) /\ crashed' = {} => Pending(u)'
    PROVE  IInv'
<1>1. handler \in [Users -> Place] /\ players \in Seq(Player)
  BY DEF IInv, TypeInv, ServerTypes
<1>2. handler' \in [Users -> Place] /\ handler'[u] = h /\ \A v \in Users \ {u} : handler'[v] = handler[v]
  BY <1>1
<1>3. ServerTypes'
  BY <1>1, <1>2 DEF ServerTypes
<1>4. FreshInv'
  BY <1>2 DEF IInv, FreshInv, Owns
<1>5. myId' = myId
  BY DEF client
<1>6. PlaceKnown(u)'
  BY <1>2, <1>5 DEF PlaceKnown, Owns
<1>7. \A v \in Users : \A n \in DOMAIN s2c'[v] \ DOMAIN s2c[v] : AnswerKnown(v, s2c[v][n])'
  BY <1>5 DEF AnswerKnown, Owns
<1>8. \A v \in Users : \A id : Owns(v, id) => Owns(v, id)'
  BY DEF Owns
<1> QED
  BY <1>2, <1>3, <1>4, <1>6, <1>7, <1>8, HandlerStep

LEMMA SameGrows == ASSUME NEW s, NEW E PROVE Grows(s, s, E)
BY DEF Grows

-----------------------------------------------------------------------------
(* The steps of handlers *)

LEMMA SetNicknameStep ==
    ASSUME IInv, NEW u \in Users, HandleSetNickname(u)
    PROVE  IInv'
<1>1. Takes(u, "setNickname") /\ UNCHANGED <<rooms, members, live, crashed, s2c, client>>
  BY DEF HandleSetNickname
<1>2. TypeInv
  BY DEF IInv
<1>3. /\ crashed = {} /\ 1 \in DOMAIN c2s[u] /\ Head(c2s[u]) \in Request
      /\ Head(c2s[u]).kind = "setNickname" /\ Head(c2s[u]) = c2s[u][1]
      /\ c2s' \in [Users -> Seq(Request)] /\ \A v \in Users \ {u} : c2s'[v] = c2s[v]
      /\ \A n \in DOMAIN c2s'[u] : \E m \in DOMAIN c2s[u] : c2s'[u][n] = c2s[u][m]
  BY <1>1, <1>2, TakesFirst
<1>4. PICK name \in Names : name = Head(c2s[u]).name
  BY <1>3, RequestFields
<1>5. QueueTypes' /\ \A v \in Users : Grows(s2c[v], s2c'[v], Answer) /\ s2c'[v] = s2c[v]
  BY <1>1, <1>2, <1>3, SameGrows DEF TypeInv, QueueTypes
<1>6. CASE NameTaken(name)
  <2>1. PICK h \in Place : h = [at |-> "nameTaken"]
    BY Records, Zenon
  <2>2. handler' = [handler EXCEPT ![u] = h] /\ players' = players
    BY <1>4, <1>6, <2>1 DEF HandleSetNickname, Goto
  <2>3. handler'[u] = h
    BY <1>2, <2>2 DEF TypeInv, ServerTypes
  <2>4. Pending(u)'
    BY <2>1, <2>3 DEF Pending
  <2>5. TableInv'
    BY <1>1, <2>2 DEF IInv, TableInv
  <2> QED
    BY <1>1, <1>2, <1>3, <1>5, <2>1, <2>2, <2>4, <2>5, QuietHandlerStep DEF TypeInv, ServerTypes
<1>7. CASE ~NameTaken(name)
  <2>1. PICK k \in Nat : k = Len(players) /\ DOMAIN players = 1 .. k
    BY <1>2 DEF TypeInv, ServerTypes
  <2>2. PICK h : h = [at |-> "nameFree", id |-> k + 1]
    OBVIOUS
  <2>3. PICK p : p = [name |-> name, session |-> NoUser, roomId |-> 0]
    OBVIOUS
  <2>12. h \in Place /\ p \in Player
    <3>1. k + 1 \in Int
      OBVIOUS
    <3>2. h \in Place
      BY <2>2, <3>1, Records, Zenon
    <3>3. p \in Player
      BY <2>3 DEF Player
    <3> QED
      BY <3>2, <3>3
  <2>4. handler' = [handler EXCEPT ![u] = h] /\ players' = Append(players, p)
    BY <1>4, <1>7, <2>1, <2>2, <2>3 DEF HandleSetNickname, Goto
  <2>5. handler' \in [Users -> Place] /\ handler'[u] = h /\ \A v \in Users \ {u} : handler'[v] = handler[v]
    BY <1>2, <2>4, <2>12 DEF TypeInv, ServerTypes
  <2>6. /\ players' \in Seq(Player) /\ DOMAIN players' = 1 .. k + 1 /\ players'[k + 1] = p
        /\ \A i \in 1 .. k : players'[i] = players[i]
    BY <1>2, <2>1, <2>4, <2>12, AppendProperties DEF TypeInv, ServerTypes
  <2>7. ServerTypes'
    BY <1>1, <1>2, <2>5, <2>6 DEF TypeInv, ServerTypes
  <2>8. \A v, id : Owns(v, id) => id \in 1 .. k /\ Owns(v, id)'
    BY <2>1, <2>6 DEF Owns
  <2>9. TableInv'
    <3>1. \A i \in 1 .. k : players[i].name # name
      BY <1>7, <2>1 DEF NameTaken
    <3>2. \A i, j \in 1 .. k + 1 : players'[i].name = players'[j].name => i = j
      <4>1. \A i, j \in 1 .. k : players'[i].name = players'[j].name => i = j
        BY <2>1, <2>6 DEF IInv, TableInv
      <4>2. \A i \in 1 .. k : players'[i].name # players'[k + 1].name
        BY <2>3, <2>6, <3>1
      <4>3. \A i \in 1 .. k + 1 : i = k + 1 \/ i \in 1 .. k
        OBVIOUS
      <4> QED
        BY <4>1, <4>2, <4>3
    <3>3. DOMAIN players \subseteq DOMAIN players'
      BY <2>1, <2>6
    <3> QED
      BY <1>1, <2>6, <3>2, <3>3 DEF IInv, TableInv
  <2>10. FreshInv'
    <3>1. h.at = "nameFree" /\ h.id = k + 1 /\ Owns(NoUser, k + 1)'
      BY <2>2, <2>3, <2>6 DEF Owns
    <3>2. \A v \in Users \ {u} : handler[v].at = "nameFree" => handler[v].id \in 1 .. k
      BY <2>8 DEF IInv, FreshInv
    <3>3. k + 1 \notin 1 .. k
      OBVIOUS
    <3> QED
      BY <2>5, <2>8, <3>1, <3>2, <3>3 DEF IInv, FreshInv
  <2>11. PlaceKnown(u)' /\ Pending(u)'
    BY <2>2, <2>5 DEF PlaceKnown, Pending
  <2> QED
    BY <1>1, <1>3, <1>5, <2>5, <2>7, <2>8, <2>9, <2>10, <2>11, HandlerStep
<1> QED
  BY <1>6, <1>7

\* Sending to u alone: new packets are the ones sent, all of them arrive.
LEMMA SendKnown ==
    ASSUME TypeInv, NEW u \in Users, NEW q \in Seq(Answer), Send(u, q),
           \A m \in DOMAIN q : AnswerKnown(u, q[m])
    PROVE  /\ s2c' \in [Users -> Seq(Answer)]
           /\ \A v \in Users : Grows(s2c[v], s2c'[v], Answer)
           /\ \A v \in Users : \A n \in DOMAIN s2c'[v] \ DOMAIN s2c[v] : AnswerKnown(v, s2c'[v][n])
           /\ \A m \in DOMAIN q : \E n \in DOMAIN s2c'[u] : s2c'[u][n] = q[m]
<1>1. PICK E : E = {q[m] : m \in DOMAIN q}
  OBVIOUS
<1>2. E \subseteq Answer /\ \A m \in DOMAIN q : q[m] \in E
  BY <1>1
<1>3. /\ s2c' \in [Users -> Seq(Answer)] /\ s2c'[u] = s2c[u] \o q
      /\ \A v \in Users \ {u} : s2c'[v] = s2c[v]
      /\ \A v \in Users : Grows(s2c[v], s2c'[v], E)
  BY <1>2, SendGrows
<1>4. \A v \in Users : Grows(s2c[v], s2c'[v], Answer)
  BY <1>2, <1>3 DEF Grows
<1>5. \A p \in E : AnswerKnown(u, p)
  BY <1>1
<1>6. \A v \in Users : \A n \in DOMAIN s2c'[v] \ DOMAIN s2c[v] : AnswerKnown(v, s2c'[v][n])
  BY <1>3, <1>5 DEF Grows
<1>7. ASSUME NEW m \in DOMAIN q
      PROVE  \E n \in DOMAIN s2c'[u] : s2c'[u][n] = q[m]
  <2>1. PICK s \in Seq(Answer) : s = s2c[u]
    BY DEF TypeInv, QueueTypes
  <2>2. PICK t : t = s \o q
    OBVIOUS
  <2>3. /\ Len(s) \in Nat /\ Len(q) \in Nat /\ DOMAIN q = 1 .. Len(q)
        /\ t \in Seq(Answer) /\ DOMAIN t = 1 .. Len(s) + Len(q)
        /\ \A i \in 1 .. Len(s) + Len(q) : t[i] = IF i <= Len(s) THEN s[i] ELSE q[i - Len(s)]
    BY <2>2, ConcatProperties
  <2>4. Len(s) + m \in DOMAIN t /\ ~(Len(s) + m <= Len(s)) /\ (Len(s) + m) - Len(s) = m
    BY <2>3
  <2>5. t[Len(s) + m] = q[m]
    BY <2>3, <2>4
  <2> QED
    BY <1>3, <2>1, <2>2, <2>4, <2>5
<1> QED
  BY <1>3, <1>4, <1>6, <1>7

\* A handler's step that sends to u, and leaves the tables alone.
LEMMA AnswerStep ==
    ASSUME IInv, NEW u \in Users, UNCHANGED <<tables, live, crashed, client>>, crashed = {},
           NEW h \in Place, h.at # "nameFree", handler' = [handler EXCEPT ![u] = h],
           h.at \in {"joined", "answered", "left"} => Owns(u, h.id) /\ myId[u] # 0,
           c2s' \in [Users -> Seq(Request)], \A v \in Users \ {u} : c2s'[v] = c2s[v],
           \A n \in DOMAIN c2s'[u] : \E m \in DOMAIN c2s[u] : c2s'[u][n] = c2s[u][m],
           NEW q \in Seq(Answer), Send(u, q), \A m \in DOMAIN q : AnswerKnown(u, q[m]),
           Pending(u) => Pending(u)'
    PROVE  IInv'
<1>1. TypeInv /\ players' = players /\ rooms' = rooms /\ members' = members
  BY DEF IInv, tables
<1>2. /\ s2c' \in [Users -> Seq(Answer)]
      /\ \A v \in Users : Grows(s2c[v], s2c'[v], Answer)
      /\ \A v \in Users : \A n \in DOMAIN s2c'[v] \ DOMAIN s2c[v] : AnswerKnown(v, s2c'[v][n])
  BY <1>1, SendKnown
<1>3. QueueTypes'
  BY <1>2 DEF QueueTypes
<1>4. TableInv'
  BY <1>1 DEF IInv, TableInv
<1>5. rooms' \in Seq(RoomNames) /\ members' \in Seq(SUBSET Int) /\ Len(members') = Len(rooms')
  BY <1>1 DEF TypeInv, ServerTypes
<1> QED
  BY <1>1, <1>2, <1>3, <1>4, <1>5, QuietHandlerStep

LEMMA IdlePlace == Idle \in Place /\ Idle.at = "idle"
BY Records DEF Idle

LEMMA AnswerNameTakenStep ==
    ASSUME IInv, NEW u \in Users, AnswerNameTaken(u)
    PROVE  IInv'
<1>1. PICK q : q = <<[kind |-> "nameTaken"], [kind |-> "prompt"]>>
  OBVIOUS
<1>2. PICK h \in Place : h = Idle /\ h.at = "idle"
  BY IdlePlace
<1>3. /\ crashed = {} /\ Send(u, q) /\ handler' = [handler EXCEPT ![u] = h] /\ c2s' = c2s
      /\ UNCHANGED <<tables, live, crashed, client>>
  BY <1>1, <1>2 DEF AnswerNameTaken, At, Goto
<1>4. q \in Seq(Answer) /\ 1 \in DOMAIN q /\ q[1].kind = "nameTaken"
  BY <1>1, Records
<1>5. \A m \in DOMAIN q : AnswerKnown(u, q[m])
  <2>1. \A m \in DOMAIN q : q[m].kind \in {"nameTaken", "prompt"}
    BY <1>1
  <2> QED
    BY <2>1 DEF AnswerKnown
<1>6. Pending(u)'
  BY <1>3, <1>4, <1>5, SendKnown DEF Pending, IInv
<1>7. c2s' \in [Users -> Seq(Request)]
  BY <1>3 DEF IInv, TypeInv, QueueTypes
<1> QED
  BY <1>2, <1>3, <1>4, <1>5, <1>6, <1>7, AnswerStep

LEMMA RequestRoomListStep ==
    ASSUME IInv, NEW u \in Users, HandleRequestRoomList(u)
    PROVE  IInv'
<1>1. PICK q : q = <<[kind |-> "roomList"]>>
  OBVIOUS
<1>2. /\ Takes(u, "requestRoomList") /\ Send(u, q) /\ handler' = handler
      /\ UNCHANGED <<tables, live, crashed, client>>
  BY <1>1 DEF HandleRequestRoomList, server
<1>3. TypeInv
  BY DEF IInv
<1>4. /\ crashed = {} /\ handler[u] = Idle /\ c2s' \in [Users -> Seq(Request)]
      /\ Head(c2s[u]).kind = "requestRoomList" /\ Head(c2s[u]) = c2s[u][1]
      /\ \A v \in Users \ {u} : c2s'[v] = c2s[v]
      /\ \A n \in DOMAIN c2s'[u] : \E m \in DOMAIN c2s[u] : c2s'[u][n] = c2s[u][m]
      /\ \A n \in DOMAIN c2s[u] : n = 1 \/ \E m \in DOMAIN c2s'[u] : c2s'[u][m] = c2s[u][n]
  BY <1>2, <1>3, TakesFirst
<1>5. PICK h \in Place : h = Idle /\ h.at = "idle"
  BY IdlePlace
<1>6. handler' = [handler EXCEPT ![u] = h]
  BY <1>2, <1>3, <1>4, <1>5 DEF TypeInv, ServerTypes
<1>7. q \in Seq(Answer) /\ \A m \in DOMAIN q : q[m].kind = "roomList"
  BY <1>1, Records
<1>8. \A m \in DOMAIN q : AnswerKnown(u, q[m])
  BY <1>7 DEF AnswerKnown
<1>9. \A v \in Users : Grows(s2c[v], s2c'[v], Answer)
  BY <1>2, <1>3, <1>7, <1>8, SendKnown
<1>10. Pending(u) => Pending(u)'
  BY <1>2, <1>4, <1>9 DEF Pending, Grows
<1> QED
  BY <1>2, <1>4, <1>5, <1>6, <1>7, <1>8, <1>10, AnswerStep

LEMMA AnswerJoinStep ==
    ASSUME IInv, NEW u \in Users, AnswerJoin(u)
    PROVE  IInv'
<1>1. PICK q : q = <<[kind |-> "enterRoom", error |-> handler[u].error]>>
  OBVIOUS
<1>2. PICK h : h = [handler[u] EXCEPT !.at = "answered"]
  OBVIOUS
<1>3. /\ crashed = {} /\ handler[u].at = "joined" /\ Send(u, q) /\ c2s' = c2s
      /\ handler' = [handler EXCEPT ![u] = h] /\ UNCHANGED <<tables, live, crashed, client>>
  BY <1>1, <1>2 DEF AnswerJoin, At, Goto
<1>4. handler[u] \in Place
  BY DEF IInv, TypeInv, ServerTypes
<1>5. h \in Place /\ h.at = "answered" /\ h.id = handler[u].id /\ handler[u].error \in Errors
  BY <1>2, <1>3, <1>4, PlaceFields
<1>6. Owns(u, h.id) /\ myId[u] # 0
  BY <1>3, <1>5 DEF IInv, KnownInv, PlaceKnown
<1>7. q \in Seq(Answer) /\ 1 \in DOMAIN q /\ \A m \in DOMAIN q : q[m].kind = "enterRoom"
  BY <1>1, <1>5, Records
<1>8. \A m \in DOMAIN q : AnswerKnown(u, q[m])
  BY <1>6, <1>7 DEF AnswerKnown
<1>9. Pending(u)'
  BY <1>3, <1>7, <1>8, SendKnown DEF Pending, IInv
<1>10. c2s' \in [Users -> Seq(Request)]
  BY <1>3 DEF IInv, TypeInv, QueueTypes
<1> QED
  BY <1>3, <1>5, <1>6, <1>7, <1>8, <1>9, <1>10, AnswerStep

LEMMA CreateRoomStep ==
    ASSUME IInv, NEW u \in Users, HandleCreateRoom(u)
    PROVE  IInv'
<1>1. PICK q : q = <<[kind |-> "createRoom"]>>
  OBVIOUS
<1>2. /\ Takes(u, "createRoom") /\ Send(u, q)
      /\ UNCHANGED <<players, live, handler, crashed, client>>
  BY <1>1 DEF HandleCreateRoom
<1>3. TypeInv /\ rooms \in Seq(RoomNames) /\ members \in Seq(SUBSET Int) /\ Len(members) = Len(rooms)
  BY DEF IInv, TypeInv, ServerTypes
<1>4. /\ crashed = {} /\ handler[u] = Idle /\ c2s' \in [Users -> Seq(Request)]
      /\ Head(c2s[u]).kind = "createRoom" /\ Head(c2s[u]) = c2s[u][1] /\ Head(c2s[u]) \in Request
      /\ \A v \in Users \ {u} : c2s'[v] = c2s[v]
      /\ \A n \in DOMAIN c2s'[u] : \E m \in DOMAIN c2s[u] : c2s'[u][n] = c2s[u][m]
      /\ \A n \in DOMAIN c2s[u] : n = 1 \/ \E m \in DOMAIN c2s'[u] : c2s'[u][m] = c2s[u][n]
  BY <1>2, <1>3, TakesFirst
<1>5. PICK h \in Place : h = Idle /\ h.at = "idle"
  BY IdlePlace
<1>6. handler' = [handler EXCEPT ![u] = h]
  BY <1>2, <1>3, <1>4, <1>5 DEF TypeInv, ServerTypes
<1>7. q \in Seq(Answer) /\ \A m \in DOMAIN q : q[m].kind = "createRoom"
  BY <1>1, Records
<1>8. \A m \in DOMAIN q : AnswerKnown(u, q[m])
  BY <1>7 DEF AnswerKnown
<1>9. /\ s2c' \in [Users -> Seq(Answer)]
      /\ \A v \in Users : Grows(s2c[v], s2c'[v], Answer)
      /\ \A v \in Users : \A n \in DOMAIN s2c'[v] \ DOMAIN s2c[v] : AnswerKnown(v, s2c'[v][n])
  BY <1>2, <1>3, <1>7, <1>8, SendKnown
<1>10. Pending(u) => Pending(u)'
  BY <1>2, <1>4, <1>9 DEF Pending, Grows
<1>11. QueueTypes'
  BY <1>4, <1>9 DEF QueueTypes
<1>12. PICK name \in RoomNames : name = Head(c2s[u]).name
  BY <1>4, RequestFields
<1>13. /\ rooms' \in Seq(RoomNames) /\ members' \in Seq(SUBSET Int) /\ Len(members') = Len(rooms')
       /\ IsInjective(rooms') /\ \A r \in DOMAIN members' : members'[r] \subseteq DOMAIN players
  <2>1. CASE RoomNameTaken(name)
    <3>1. rooms' = rooms /\ members' = members
      BY <1>12, <2>1 DEF HandleCreateRoom
    <3> QED
      BY <1>3, <3>1 DEF IInv, TableInv
  <2>2. CASE ~RoomNameTaken(name)
    <3>1. rooms' = Append(rooms, name) /\ members' = Append(members, {})
      BY <1>12, <2>2 DEF HandleCreateRoom
    <3>2. PICK k \in Nat : k = Len(rooms) /\ DOMAIN rooms = 1 .. k /\ DOMAIN members = 1 .. k
      BY <1>3
    <3>3. /\ rooms' \in Seq(RoomNames) /\ Len(rooms') = k + 1 /\ DOMAIN rooms' = 1 .. k + 1
          /\ rooms'[k + 1] = name /\ \A r \in 1 .. k : rooms'[r] = rooms[r]
      BY <1>3, <3>1, <3>2, AppendProperties
    <3>4. /\ members' \in Seq(SUBSET Int) /\ Len(members') = k + 1 /\ DOMAIN members' = 1 .. k + 1
          /\ members'[k + 1] = {} /\ \A r \in 1 .. k : members'[r] = members[r]
      <4>1. {} \in SUBSET Int
        OBVIOUS
      <4> QED
        BY <1>3, <3>1, <3>2, <4>1, AppendProperties
    <3>5. \A r \in 1 .. k + 1 : r = k + 1 \/ r \in 1 .. k
      OBVIOUS
    <3>6. IsInjective(rooms')
      <4>1. \A r \in 1 .. k : rooms[r] # name
        BY <2>2, <3>2 DEF RoomNameTaken, Range
      <4>2. \A r, s \in 1 .. k : rooms[r] = rooms[s] => r = s
        BY <3>2 DEF IInv, TableInv, IsInjective
      <4>3. \A r, s \in 1 .. k + 1 : rooms'[r] = rooms'[s] => r = s
        BY <3>3, <3>5, <4>1, <4>2
      <4> QED
        BY <3>3, <4>3 DEF IsInjective
    <3>7. \A r \in 1 .. k + 1 : members'[r] \subseteq DOMAIN players
      BY <3>2, <3>4, <3>5 DEF IInv, TableInv
    <3> QED
      BY <3>3, <3>4, <3>6, <3>7
  <2> QED
    BY <2>1, <2>2
<1>14. TableInv'
  BY <1>2, <1>13 DEF IInv, TableInv
<1> QED
  BY <1>2, <1>4, <1>5, <1>6, <1>9, <1>10, <1>11, <1>13, <1>14, QuietHandlerStep

\* A null dereference: nothing is answered any more.
LEMMA CrashStep ==
    ASSUME IInv, NEW u \in Users, UNCHANGED <<rooms, live, client>>, crashed = {},
           NEW where, Crash(u, where),
           c2s' \in [Users -> Seq(Request)], \A v \in Users \ {u} : c2s'[v] = c2s[v],
           \A n \in DOMAIN c2s'[u] : \E m \in DOMAIN c2s[u] : c2s'[u][n] = c2s[u][m]
    PROVE  IInv'
<1>1. /\ crashed' # {} /\ players' = players /\ members' = members
      /\ handler' = handler /\ s2c' = s2c
  BY DEF Crash
<1>2. ServerTypes' /\ QueueTypes' /\ TableInv' /\ FreshInv'
  BY <1>1 DEF IInv, TypeInv, ServerTypes, QueueTypes, TableInv, FreshInv, Owns
<1>3. myId' = myId
  BY DEF client
<1>4. PlaceKnown(u)'
  BY <1>1, <1>3 DEF IInv, KnownInv, PlaceKnown, Owns
<1>5. \A v \in Users : \A id : Owns(v, id) => Owns(v, id)'
  BY <1>1 DEF Owns
<1>6. \A v \in Users : Grows(s2c[v], s2c'[v], Answer) /\ s2c'[v] = s2c[v]
  BY <1>1, SameGrows
<1> QED
  BY <1>1, <1>2, <1>4, <1>5, <1>6, HandlerStep

\* A record of a player's room is a record of no identity.
LEMMA RoomIdStep ==
    ASSUME IInv, NEW u \in Users, UNCHANGED <<rooms, members, live, crashed, c2s, s2c, client>>,
           crashed = {}, handler[u].at \in {"answered", "left"}, NEW r \in Int,
           players' = [players EXCEPT ![handler[u].id].roomId = r], Goto(u, Idle)
    PROVE  IInv'
<1>1. PICK id : id = handler[u].id
  OBVIOUS
<1>2. TypeInv /\ id \in DOMAIN players
  BY <1>1 DEF IInv, KnownInv, PlaceKnown, Owns
<1>3. PICK k \in Nat : k = Len(players) /\ DOMAIN players = 1 .. k
  <2>1. players \in Seq(Player)
    BY <1>2 DEF TypeInv, ServerTypes
  <2> QED
    BY <2>1
<1>4. PICK p : p = [players[id] EXCEPT !.roomId = r]
  OBVIOUS
<1>5. p \in Player /\ p.name = players[id].name /\ p.session = players[id].session
  <2>1. players[id] \in Player
    BY <1>2 DEF TypeInv, ServerTypes
  <2> QED
    BY <1>4, <2>1 DEF Player
<1>6. /\ players' \in Seq(Player) /\ DOMAIN players' = 1 .. k
      /\ \A i \in 1 .. k : players'[i] = IF i = id THEN p ELSE players[i]
  <2>1. players' = [players EXCEPT ![id] = p]
    BY <1>1, <1>4
  <2>2. PICK s \in Seq(Player) : s = players /\ id \in 1 .. Len(s)
    BY <1>2, <1>3 DEF TypeInv, ServerTypes
  <2>3. PICK t : t = [s EXCEPT ![id] = p]
    OBVIOUS
  <2>4. t \in Seq(Player) /\ Len(t) = k /\ \A j \in 1 .. k : t[j] = IF j = id THEN p ELSE s[j]
    BY <1>3, <1>5, <2>2, <2>3, ExceptSeq
  <2>5. DOMAIN t = 1 .. k
    BY <2>4
  <2> QED
    BY <2>1, <2>2, <2>3, <2>4, <2>5
<1>7. \A i \in 1 .. k : players'[i].name = players[i].name /\ players'[i].session = players[i].session
  BY <1>5, <1>6
<1>8. \A v, i : Owns(v, i)' <=> Owns(v, i)
  BY <1>3, <1>6, <1>7 DEF Owns
<1>9. /\ handler' \in [Users -> Place] /\ handler'[u].at = "idle"
      /\ \A v \in Users \ {u} : handler'[v] = handler[v]
  BY <1>2, IdlePlace DEF Goto, TypeInv, ServerTypes
<1>10. ServerTypes' /\ QueueTypes'
  BY <1>2, <1>6, <1>9 DEF TypeInv, ServerTypes, QueueTypes
<1>11. TableInv'
  BY <1>3, <1>6, <1>7 DEF IInv, TableInv
<1>12. FreshInv'
  BY <1>8, <1>9 DEF IInv, FreshInv
<1>13. PlaceKnown(u)'
  BY <1>9 DEF PlaceKnown
<1>14. \A v \in Users : Grows(s2c[v], s2c'[v], Answer) /\ s2c'[v] = s2c[v]
  BY SameGrows
<1>15. Pending(u) => Pending(u)'
  BY DEF Pending
<1> QED
  BY <1>8, <1>9, <1>10, <1>11, <1>12, <1>13, <1>14, <1>15, HandlerStep

LEMMA AssignRoomStep ==
    ASSUME IInv, NEW u \in Users, AssignRoom(u)
    PROVE  IInv'
<1>1. crashed = {} /\ handler[u].at = "answered" /\ UNCHANGED <<rooms, live, c2s, client>>
  BY DEF AssignRoom, At
<1>2. handler[u] \in Place /\ c2s' \in [Users -> Seq(Request)] /\ \A v \in Users : c2s'[v] = c2s[v]
  BY <1>1 DEF IInv, TypeInv, ServerTypes, QueueTypes
<1>3. CASE handler[u].error = "roomNotFound"
  <2>1. Crash(u, "Handle_C_JOIN_ROOM")
    BY <1>3 DEF AssignRoom
  <2> QED
    BY <1>1, <1>2, <2>1, CrashStep
<1>4. CASE handler[u].error # "roomNotFound"
  <2>1. /\ players' = [players EXCEPT ![handler[u].id].roomId = handler[u].room]
        /\ Goto(u, Idle) /\ UNCHANGED <<members, crashed, s2c>>
    BY <1>4 DEF AssignRoom
  <2>2. handler[u].room \in Int
    BY <1>1, <1>2, PlaceFields
  <2> QED
    BY <1>1, <2>1, <2>2, RoomIdStep
<1> QED
  BY <1>3, <1>4

LEMMA ForgetRoomStep ==
    ASSUME IInv, NEW u \in Users, ForgetRoom(u)
    PROVE  IInv'
<1>1. /\ UNCHANGED <<rooms, members, live, crashed, c2s, s2c, client>>
      /\ crashed = {} /\ handler[u].at = "left" /\ Goto(u, Idle)
      /\ players' = [players EXCEPT ![handler[u].id].roomId = -1]
  BY DEF ForgetRoom, At
<1>2. -1 \in Int
  OBVIOUS
<1> QED
  BY <1>1, <1>2, RoomIdStep

\* The player that u's handler made becomes u's: nobody else had it.
LEMMA AnswerNameFreeStep ==
    ASSUME IInv, NEW u \in Users, AnswerNameFree(u)
    PROVE  IInv'
<1>1. PICK id : id = handler[u].id
  OBVIOUS
<1>2. PICK q : q = <<[kind |-> "nameFree", id |-> id]>>
  OBVIOUS
<1>3. PICK p : p = [players[id] EXCEPT !.session = u]
  OBVIOUS
<1>4. /\ crashed = {} /\ handler[u].at = "nameFree" /\ Send(u, q) /\ Goto(u, Idle)
      /\ players' = [players EXCEPT ![id] = p]
      /\ UNCHANGED <<rooms, members, live, crashed, c2s, client>>
  BY <1>1, <1>2, <1>3 DEF AnswerNameFree, At
<1>5. TypeInv /\ Owns(NoUser, id)
  BY <1>1, <1>4 DEF IInv, FreshInv
<1>6. PICK k \in Nat : k = Len(players) /\ DOMAIN players = 1 .. k
  BY <1>5 DEF TypeInv, ServerTypes
<1>7. id \in 1 .. k /\ players[id].session = NoUser
  BY <1>5, <1>6 DEF Owns
<1>8. p \in Player /\ p.name = players[id].name /\ p.session = u
  <2>1. players[id] \in Player
    BY <1>5, <1>6, <1>7 DEF TypeInv, ServerTypes
  <2> QED
    BY <1>3, <2>1 DEF Player
<1>9. /\ players' \in Seq(Player) /\ DOMAIN players' = 1 .. k
      /\ \A i \in 1 .. k : players'[i] = IF i = id THEN p ELSE players[i]
  <2>1. PICK s \in Seq(Player) : s = players /\ id \in 1 .. Len(s)
    BY <1>5, <1>6, <1>7 DEF TypeInv, ServerTypes
  <2>2. PICK t : t = [s EXCEPT ![id] = p]
    OBVIOUS
  <2>3. t \in Seq(Player) /\ Len(t) = k /\ \A j \in 1 .. k : t[j] = IF j = id THEN p ELSE s[j]
    BY <1>6, <1>8, <2>1, <2>2, ExceptSeq
  <2>4. DOMAIN t = 1 .. k
    BY <2>3
  <2> QED
    BY <1>4, <2>1, <2>2, <2>3, <2>4
<1>10. NoUser # u /\ \A v \in Users : v # NoUser
  BY UsersAssumption
<1>11. /\ \A v \in Users : \A i : Owns(v, i) => Owns(v, i)'
       /\ Owns(u, id)'
       /\ \A i : Owns(NoUser, i) /\ i # id => Owns(NoUser, i)'
  BY <1>6, <1>7, <1>8, <1>9, <1>10 DEF Owns
<1>12. /\ handler' \in [Users -> Place] /\ handler'[u].at = "idle"
       /\ \A v \in Users \ {u} : handler'[v] = handler[v]
  BY <1>4, <1>5, IdlePlace DEF Goto, TypeInv, ServerTypes
<1>13. id \in Int
  BY <1>7
<1>14. q \in Seq(Answer) /\ 1 \in DOMAIN q /\ q[1].kind = "nameFree"
       /\ \A m \in DOMAIN q : q[m] = q[1] /\ q[1].id = id
  <2>1. PICK a : a = [kind |-> "nameFree", id |-> id]
    OBVIOUS
  <2>2. a \in Answer /\ a.kind = "nameFree" /\ a.id = id
    BY <1>13, <2>1, Records
  <2> QED
    BY <1>2, <2>1, <2>2
<1>15. PICK E : E = {q[1]}
  OBVIOUS
<1>16. /\ s2c' \in [Users -> Seq(Answer)] /\ \A v \in Users \ {u} : s2c'[v] = s2c[v]
       /\ s2c'[u] = s2c[u] \o q /\ \A v \in Users : Grows(s2c[v], s2c'[v], E)
  <2>1. \A m \in DOMAIN q : q[m] \in E
    BY <1>14, <1>15
  <2> QED
    BY <1>4, <1>5, <1>14, <2>1, SendGrows
<1>17. \A v \in Users : Grows(s2c[v], s2c'[v], Answer)
  <2>1. E \subseteq Answer
    BY <1>14, <1>15
  <2> QED
    BY <1>16, <2>1 DEF Grows
<1>18. AnswerKnown(u, q[1])'
  BY <1>11, <1>14 DEF AnswerKnown
<1>19. \A v \in Users : \A n \in DOMAIN s2c'[v] \ DOMAIN s2c[v] : AnswerKnown(v, s2c[v][n])'
  BY <1>15, <1>16, <1>18 DEF Grows
<1>20. Pending(u)'
  <2>1. PICK s \in Seq(Answer) : s = s2c[u]
    BY <1>5 DEF TypeInv, QueueTypes
  <2>2. PICK t : t = s \o q
    OBVIOUS
  <2>3. /\ Len(s) \in Nat /\ Len(q) = 1 /\ DOMAIN t = 1 .. Len(s) + 1
        /\ \A i \in 1 .. Len(s) + 1 : t[i] = IF i <= Len(s) THEN s[i] ELSE q[i - Len(s)]
    BY <1>2, <1>14, <2>2, ConcatProperties
  <2>4. Len(s) + 1 \in DOMAIN t /\ ~(Len(s) + 1 <= Len(s)) /\ (Len(s) + 1) - Len(s) = 1
    BY <2>3
  <2>5. t[Len(s) + 1] = q[1]
    BY <2>3, <2>4
  <2> QED
    <3>1. Len(s) + 1 \in DOMAIN s2c'[u] /\ s2c'[u][Len(s) + 1] = q[1]
      BY <1>16, <2>1, <2>2, <2>4, <2>5
    <3> QED
      BY <1>14, <3>1 DEF Pending
<1>21. ServerTypes' /\ QueueTypes'
  BY <1>4, <1>5, <1>9, <1>12, <1>16 DEF TypeInv, ServerTypes, QueueTypes
<1>22. TableInv'
  <2>1. \A i \in 1 .. k : players'[i].name = players[i].name
    BY <1>8, <1>9
  <2> QED
    BY <1>4, <1>6, <1>9, <2>1 DEF IInv, TableInv
<1>23. FreshInv'
  <2>1. \A v \in Users \ {u} : handler[v].at = "nameFree" => Owns(NoUser, handler[v].id) /\ handler[v].id # id
    BY <1>1, <1>4 DEF IInv, FreshInv
  <2> QED
    BY <1>11, <1>12, <2>1 DEF IInv, FreshInv
<1>24. PlaceKnown(u)'
  BY <1>12 DEF PlaceKnown
<1> QED
  BY <1>4, <1>11, <1>12, <1>17, <1>19, <1>20, <1>21, <1>22, <1>23, <1>24, HandlerStep

\* What a room tells its members tells them nothing about identities.
LEMMA TellKnown ==
    ASSUME TypeInv, NEW ids, ids \subseteq DOMAIN players, NEW p \in Answer, Tell(ids, p),
           p.kind \in {"roomEvent", "chatRoom"}
    PROVE  /\ s2c' \in [Users -> Seq(Answer)]
           /\ \A v \in Users : Grows(s2c[v], s2c'[v], Answer)
           /\ \A v \in Users : \A n \in DOMAIN s2c'[v] \ DOMAIN s2c[v] : AnswerKnown(v, s2c'[v][n])
<1>1. s2c' \in [Users -> Seq(Answer)] /\ \A v \in Users : Grows(s2c[v], s2c'[v], {p})
  BY TellGrows
<1>2. \A v \in Users : Grows(s2c[v], s2c'[v], Answer)
  BY <1>1 DEF Grows
<1>3. \A v \in Users : AnswerKnown(v, p)
  BY DEF AnswerKnown
<1>4. \A v \in Users : \A n \in DOMAIN s2c'[v] \ DOMAIN s2c[v] : AnswerKnown(v, s2c'[v][n])
  BY <1>1, <1>3 DEF Grows
<1> QED
  BY <1>1, <1>2, <1>4

LEMMA JoinRoomStep ==
    ASSUME IInv, NEW u \in Users, HandleJoinRoom(u)
    PROVE  IInv'
<1>1. PICK r, id : r = Head(c2s[u]).room /\ id = Head(c2s[u]).id
  OBVIOUS
<1>2. Takes(u, "joinRoom") /\ UNCHANGED <<players, rooms, live, client>>
  BY DEF HandleJoinRoom
<1>3. TypeInv /\ members \in Seq(SUBSET Int) /\ Len(members) = Len(rooms) /\ rooms \in Seq(RoomNames)
  BY DEF IInv, TypeInv, ServerTypes
<1>4. /\ crashed = {} /\ handler[u] = Idle /\ c2s' \in [Users -> Seq(Request)]
      /\ Head(c2s[u]).kind = "joinRoom" /\ Head(c2s[u]) = c2s[u][1] /\ Head(c2s[u]) \in Request
      /\ 1 \in DOMAIN c2s[u] /\ \A v \in Users \ {u} : c2s'[v] = c2s[v]
      /\ \A n \in DOMAIN c2s'[u] : \E m \in DOMAIN c2s[u] : c2s'[u][n] = c2s[u][m]
  BY <1>2, <1>3, TakesFirst
<1>5. id \in Int /\ r \in Int
  BY <1>1, <1>4, RequestFields
<1>6. Owns(u, id) /\ myId[u] # 0
  BY <1>1, <1>4 DEF IInv, KnownInv, RequestKnown
<1>7. ASSUME NEW e \in Errors,
             Goto(u, [at |-> "joined", id |-> id, room |-> r, error |-> e]),
             members' \in Seq(SUBSET Int), Len(members') = Len(members),
             \A k \in DOMAIN members' : members'[k] \subseteq DOMAIN players,
             \/ UNCHANGED s2c
             \/ r \in DOMAIN members' /\ Tell(members'[r], [kind |-> "roomEvent"])
      PROVE  IInv'
  <2>1. PICK h : h = [at |-> "joined", id |-> id, room |-> r, error |-> e]
    OBVIOUS
  <2>2. /\ h \in Place /\ h.at = "joined" /\ h.id = id /\ handler' = [handler EXCEPT ![u] = h]
    BY <1>5, <1>7, <2>1, Records DEF Goto
  <2>3. handler'[u] = h
    BY <1>3, <2>2 DEF TypeInv, ServerTypes
  <2>4. Pending(u)'
    BY <2>2, <2>3 DEF Pending
  <2>5. /\ s2c' \in [Users -> Seq(Answer)]
        /\ \A v \in Users : Grows(s2c[v], s2c'[v], Answer)
        /\ \A v \in Users : \A n \in DOMAIN s2c'[v] \ DOMAIN s2c[v] : AnswerKnown(v, s2c'[v][n])
    <3>1. CASE UNCHANGED s2c
      BY <1>3, <3>1, SameGrows DEF TypeInv, QueueTypes
    <3>2. CASE r \in DOMAIN members' /\ Tell(members'[r], [kind |-> "roomEvent"])
      <4>1. PICK p : p = [kind |-> "roomEvent"]
        OBVIOUS
      <4>2. p \in Answer /\ p.kind = "roomEvent"
        BY <4>1, Records
      <4>3. PICK ids : ids = members'[r] /\ ids \subseteq DOMAIN players
        BY <1>7, <3>2
      <4> QED
        BY <1>3, <3>2, <4>1, <4>2, <4>3, TellKnown
    <3> QED
      BY <1>7, <3>1, <3>2
  <2>6. QueueTypes'
    BY <1>4, <2>5 DEF QueueTypes
  <2>7. TableInv'
    BY <1>2, <1>7 DEF IInv, TableInv
  <2> QED
    BY <1>2, <1>3, <1>4, <1>6, <1>7, <2>2, <2>4, <2>5, <2>6, <2>7, QuietHandlerStep
<1>8. \A k \in DOMAIN members : members[k] \subseteq DOMAIN players
  BY DEF IInv, TableInv
<1>9. CASE ~RoomExists(r)
  <2>1. /\ Goto(u, [at |-> "joined", id |-> id, room |-> r, error |-> "roomNotFound"])
        /\ UNCHANGED <<members, crashed, s2c>>
    BY <1>1, <1>9 DEF HandleJoinRoom
  <2> QED
    BY <1>3, <1>7, <1>8, <2>1 DEF Errors
<1>10. CASE RoomExists(r) /\ Full(r)
  <2>1. /\ Goto(u, [at |-> "joined", id |-> id, room |-> r, error |-> "roomFull"])
        /\ UNCHANGED <<members, crashed, s2c>>
    BY <1>1, <1>10 DEF HandleJoinRoom
  <2> QED
    BY <1>3, <1>7, <1>8, <2>1 DEF Errors
<1>11. CASE RoomExists(r) /\ ~Full(r) /\ Lost(members[r] \cup {id}) # {}
  <2>1. Crash(u, "Room::Enter")
    BY <1>1, <1>11 DEF HandleJoinRoom
  <2> QED
    BY <1>2, <1>4, <2>1, CrashStep
<1>12. CASE RoomExists(r) /\ ~Full(r) /\ Lost(members[r] \cup {id}) = {}
  <2>1. /\ members' = [members EXCEPT ![r] = @ \cup {id}]
        /\ Tell(members'[r], [kind |-> "roomEvent"])
        /\ Goto(u, [at |-> "joined", id |-> id, room |-> r, error |-> "ok"])
    BY <1>1, <1>12 DEF HandleJoinRoom
  <2>2. r \in 1 .. Len(members)
    BY <1>3, <1>12 DEF RoomExists
  <2>3. PICK k \in Nat : k = Len(members) /\ DOMAIN members = 1 .. k
    BY <1>3
  <2>4. PICK new : new = members[r] \cup {id}
    OBVIOUS
  <2>5. new \in SUBSET Int /\ new \subseteq DOMAIN players
    BY <1>3, <1>5, <1>6, <1>8, <2>2, <2>3, <2>4 DEF Owns
  <2>6. PICK s \in Seq(SUBSET Int) : s = members
    BY <1>3
  <2>7. PICK t : t = [s EXCEPT ![r] = new]
    OBVIOUS
  <2>8. t \in Seq(SUBSET Int) /\ Len(t) = k /\ \A j \in 1 .. k : t[j] = IF j = r THEN new ELSE s[j]
    BY <2>2, <2>3, <2>5, <2>6, <2>7, ExceptSeq
  <2>9. members' = t /\ DOMAIN t = 1 .. k
    BY <2>1, <2>4, <2>6, <2>7, <2>8
  <2>10. \A j \in DOMAIN members' : members'[j] \subseteq DOMAIN players
    BY <1>8, <2>3, <2>5, <2>6, <2>8, <2>9
  <2> QED
    BY <1>7, <2>1, <2>2, <2>3, <2>8, <2>9, <2>10 DEF Errors
<1> QED
  BY <1>9, <1>10, <1>11, <1>12

LEMMA ChatRoomStep ==
    ASSUME IInv, NEW u \in Users, HandleChatRoom(u)
    PROVE  IInv'
<1>1. PICK r : r = GetRoomFromPlayerId(Head(c2s[u]).id)
  OBVIOUS
<1>2. Takes(u, "chatRoom") /\ UNCHANGED <<rooms, live, client>>
  BY DEF HandleChatRoom
<1>3. TypeInv /\ members \in Seq(SUBSET Int) /\ Len(members) = Len(rooms) /\ rooms \in Seq(RoomNames)
  BY DEF IInv, TypeInv, ServerTypes
<1>4. /\ crashed = {} /\ handler[u] = Idle /\ c2s' \in [Users -> Seq(Request)]
      /\ Head(c2s[u]).kind = "chatRoom" /\ Head(c2s[u]) = c2s[u][1] /\ 1 \in DOMAIN c2s[u]
      /\ \A v \in Users \ {u} : c2s'[v] = c2s[v]
      /\ \A n \in DOMAIN c2s'[u] : \E m \in DOMAIN c2s[u] : c2s'[u][n] = c2s[u][m]
      /\ \A n \in DOMAIN c2s[u] : n = 1 \/ \E m \in DOMAIN c2s'[u] : c2s'[u][m] = c2s[u][n]
  BY <1>2, <1>3, TakesFirst
<1>5. CASE ~RoomExists(r)
  <2>1. Crash(u, "Handle_C_CHAT_ROOM")
    BY <1>1, <1>5 DEF HandleChatRoom
  <2> QED
    BY <1>2, <1>4, <2>1, CrashStep
<1>6. CASE RoomExists(r)
  <2>1. Tell(members[r], [kind |-> "chatRoom", room |-> r]) /\ UNCHANGED <<players, members, handler, crashed>>
    BY <1>1, <1>6 DEF HandleChatRoom
  <2>2. PICK p : p = [kind |-> "chatRoom", room |-> r]
    OBVIOUS
  <2>3. r \in 1 .. Len(members) /\ r \in DOMAIN members /\ r \in Int
    BY <1>3, <1>6 DEF RoomExists
  <2>4. p \in Answer /\ p.kind = "chatRoom"
    BY <2>2, <2>3, Records
  <2>5. PICK ids : ids = members[r] /\ ids \subseteq DOMAIN players
    BY <2>3 DEF IInv, TableInv
  <2>6. /\ s2c' \in [Users -> Seq(Answer)]
        /\ \A v \in Users : Grows(s2c[v], s2c'[v], Answer)
        /\ \A v \in Users : \A n \in DOMAIN s2c'[v] \ DOMAIN s2c[v] : AnswerKnown(v, s2c'[v][n])
    BY <1>3, <2>1, <2>2, <2>4, <2>5, TellKnown
  <2>7. PICK h \in Place : h = Idle /\ h.at = "idle"
    BY IdlePlace
  <2>8. handler' = [handler EXCEPT ![u] = h]
    BY <1>3, <1>4, <2>1, <2>7 DEF TypeInv, ServerTypes
  <2>9. Pending(u) => Pending(u)'
    BY <1>4, <2>1, <2>6 DEF Pending, Grows
  <2>10. QueueTypes' /\ TableInv'
    BY <1>2, <1>4, <2>1, <2>6 DEF QueueTypes, IInv, TableInv
  <2> QED
    BY <1>2, <1>3, <1>4, <2>1, <2>6, <2>7, <2>8, <2>9, <2>10, QuietHandlerStep
<1> QED
  BY <1>5, <1>6

LEMMA LeaveRoomStep ==
    ASSUME IInv, NEW u \in Users, HandleLeaveRoom(u)
    PROVE  IInv'
<1>1. PICK id, r : id = Head(c2s[u]).id /\ r = GetRoomFromPlayerId(id)
  OBVIOUS
<1>2. Takes(u, "leaveRoom") /\ UNCHANGED <<players, rooms, live, client>>
  BY DEF HandleLeaveRoom
<1>3. TypeInv /\ members \in Seq(SUBSET Int) /\ Len(members) = Len(rooms) /\ rooms \in Seq(RoomNames)
  BY DEF IInv, TypeInv, ServerTypes
<1>4. /\ crashed = {} /\ handler[u] = Idle /\ c2s' \in [Users -> Seq(Request)]
      /\ Head(c2s[u]).kind = "leaveRoom" /\ Head(c2s[u]) = c2s[u][1] /\ Head(c2s[u]) \in Request
      /\ 1 \in DOMAIN c2s[u] /\ \A v \in Users \ {u} : c2s'[v] = c2s[v]
      /\ \A n \in DOMAIN c2s'[u] : \E m \in DOMAIN c2s[u] : c2s'[u][n] = c2s[u][m]
      /\ \A n \in DOMAIN c2s[u] : n = 1 \/ \E m \in DOMAIN c2s'[u] : c2s'[u][m] = c2s[u][n]
  BY <1>2, <1>3, TakesFirst
<1>5. id \in Int /\ Owns(u, id) /\ myId[u] # 0
  <2>1. id \in Int
    BY <1>1, <1>4, RequestFields
  <2> QED
    BY <1>1, <1>4, <2>1 DEF IInv, KnownInv, RequestKnown
<1>6. \A k \in DOMAIN members : members[k] \subseteq DOMAIN players
  BY DEF IInv, TableInv
<1>7. CASE ~RoomExists(r)
  <2>1. UNCHANGED <<members, handler, crashed, s2c>>
    BY <1>1, <1>7 DEF HandleLeaveRoom
  <2>2. PICK h \in Place : h = Idle /\ h.at = "idle"
    BY IdlePlace
  <2>3. handler' = [handler EXCEPT ![u] = h]
    BY <1>3, <1>4, <2>1, <2>2 DEF TypeInv, ServerTypes
  <2>4. Pending(u) => Pending(u)'
    BY <1>4, <2>1 DEF Pending
  <2>5. QueueTypes' /\ TableInv'
    BY <1>2, <1>3, <1>4, <2>1 DEF TypeInv, QueueTypes, IInv, TableInv
  <2>6. \A v \in Users : Grows(s2c[v], s2c'[v], Answer) /\ s2c'[v] = s2c[v]
    BY <2>1, SameGrows
  <2> QED
    BY <1>2, <1>3, <1>4, <2>1, <2>2, <2>3, <2>4, <2>5, <2>6, QuietHandlerStep
<1>8. CASE RoomExists(r) /\ Lost(members[r] \ {id}) # {}
  <2>1. Crash(u, "Room::Leave")
    BY <1>1, <1>8 DEF HandleLeaveRoom
  <2> QED
    BY <1>2, <1>4, <2>1, CrashStep
<1>9. CASE RoomExists(r) /\ Lost(members[r] \ {id}) = {}
  <2>1. /\ members' = [members EXCEPT ![r] = @ \ {id}] /\ UNCHANGED crashed
        /\ Tell(members'[r] \cup {id}, [kind |-> "roomEvent"])
        /\ Goto(u, [at |-> "left", id |-> id])
    BY <1>1, <1>9 DEF HandleLeaveRoom
  <2>2. r \in 1 .. Len(members) /\ r \in DOMAIN members
    BY <1>3, <1>9 DEF RoomExists
  <2>3. PICK k \in Nat : k = Len(members) /\ DOMAIN members = 1 .. k
    BY <1>3
  <2>4. PICK new : new = members[r] \ {id}
    OBVIOUS
  <2>5. new \in SUBSET Int /\ new \subseteq DOMAIN players
    BY <1>3, <1>6, <2>2, <2>4
  <2>6. PICK s \in Seq(SUBSET Int) : s = members
    BY <1>3
  <2>7. PICK t : t = [s EXCEPT ![r] = new]
    OBVIOUS
  <2>8. t \in Seq(SUBSET Int) /\ Len(t) = k /\ \A j \in 1 .. k : t[j] = IF j = r THEN new ELSE s[j]
    BY <2>2, <2>3, <2>5, <2>6, <2>7, ExceptSeq
  <2>9. members' = t /\ DOMAIN t = 1 .. k /\ members'[r] = new
    BY <2>1, <2>2, <2>3, <2>4, <2>6, <2>7, <2>8
  <2>10. TableInv'
    BY <1>2, <1>6, <2>3, <2>5, <2>6, <2>8, <2>9 DEF IInv, TableInv
  <2>11. PICK ids : ids = new \cup {id} /\ ids \subseteq DOMAIN players
    BY <1>5, <2>5 DEF Owns
  <2>12. PICK p : p = [kind |-> "roomEvent"]
    OBVIOUS
  <2>13. p \in Answer /\ p.kind = "roomEvent"
    BY <2>12, Records
  <2>14. Tell(ids, p)
    BY <2>1, <2>9, <2>11, <2>12
  <2>15. /\ s2c' \in [Users -> Seq(Answer)]
         /\ \A v \in Users : Grows(s2c[v], s2c'[v], Answer)
         /\ \A v \in Users : \A n \in DOMAIN s2c'[v] \ DOMAIN s2c[v] : AnswerKnown(v, s2c'[v][n])
    BY <1>3, <2>11, <2>13, <2>14, TellKnown
  <2>16. QueueTypes'
    BY <1>4, <2>15 DEF QueueTypes
  <2>17. PICK h : h = [at |-> "left", id |-> id]
    OBVIOUS
  <2>18. h \in Place /\ h.at = "left" /\ h.id = id /\ handler' = [handler EXCEPT ![u] = h]
    BY <1>5, <2>1, <2>17, Records DEF Goto
  <2>19. handler[u].at = "idle"
    BY <1>4, IdlePlace
  <2>20. Pending(u) => Pending(u)'
    BY <1>4, <2>15, <2>19 DEF Pending, Grows
  <2>21. rooms' \in Seq(RoomNames) /\ members' \in Seq(SUBSET Int) /\ Len(members') = Len(rooms')
    BY <1>2, <1>3, <2>3, <2>8, <2>9
  <2>22. h.at # "nameFree" /\ Owns(u, h.id)
    BY <1>5, <2>18
  <2> QED
    BY <1>2, <1>4, <1>5, <2>10, <2>15, <2>16, <2>18, <2>20, <2>21, <2>22, QuietHandlerStep
<1> QED
  BY <1>7, <1>8, <1>9

LEMMA HandleStep ==
    ASSUME IInv, NEW u \in Users, Handle(u)
    PROVE  IInv'
BY SetNicknameStep, AnswerNameTakenStep, AnswerNameFreeStep, RequestRoomListStep, CreateRoomStep,
   JoinRoomStep, AnswerJoinStep, AssignRoomStep, ChatRoomStep, LeaveRoomStep, ForgetRoomStep
   DEF Handle

-----------------------------------------------------------------------------
(* The steps of sessions, clients and users *)

\* A line sends one request that its client may send.
LEMMA LineStep ==
    ASSUME IInv, NEW u \in Users, NEW where \in {"WaitingNickname", "Lobby", "InRoom"},
           NEW p \in Request, Types(u, where, p), RequestKnown(u, p),
           \/ UNCHANGED leaving
           \/ where = "InRoom" /\ leaving' = [leaving EXCEPT ![u] = TRUE],
           \/ UNCHANGED asked
           \/ p.kind \in {"setNickname", "joinRoom"} /\ asked' = [asked EXCEPT ![u] = TRUE]
    PROVE  IInv'
<1>1. /\ crashed = {} /\ live[u] = "yes" /\ state[u] = where /\ typed[u] < MaxLines[u]
      /\ typed' = [typed EXCEPT ![u] = @ + 1] /\ hasty' \subseteq hasty \cup {u}
      /\ c2s' = [c2s EXCEPT ![u] = Append(@, p)]
      /\ players' = players /\ rooms' = rooms /\ members' = members /\ live' = live
      /\ handler' = handler /\ crashed' = crashed /\ s2c' = s2c /\ state' = state /\ myId' = myId
  <2>1. hasty' \subseteq hasty \cup {u}
    BY DEF Types
  <2> QED
    BY <2>1 DEF Types, server, tables
<1>2. TypeInv
  BY DEF IInv
<1>3. PICK s \in Seq(Request) : s = c2s[u]
  BY <1>2 DEF TypeInv, QueueTypes
<1>4. PICK t : t = Append(s, p)
  OBVIOUS
<1>5. PICK k \in Nat : k = Len(s) /\ DOMAIN s = 1 .. k
  BY <1>3
<1>6. t \in Seq(Request) /\ DOMAIN t = 1 .. k + 1 /\ t[k + 1] = p /\ \A n \in 1 .. k : t[n] = s[n]
  BY <1>4, <1>5, AppendProperties
<1>7. c2s' \in [Users -> Seq(Request)] /\ c2s'[u] = t /\ \A v \in Users \ {u} : c2s'[v] = c2s[v]
  BY <1>1, <1>2, <1>3, <1>4, <1>6 DEF TypeInv, QueueTypes
<1>8. /\ \A n \in DOMAIN c2s'[u] : c2s'[u][n] = p \/ (n \in DOMAIN c2s[u] /\ c2s'[u][n] = c2s[u][n])
      /\ \A n \in DOMAIN c2s[u] : n \in DOMAIN c2s'[u] /\ c2s'[u][n] = c2s[u][n]
      /\ k + 1 \in DOMAIN c2s'[u] /\ c2s'[u][k + 1] = p
  <2>1. \A n \in 1 .. k + 1 : n = k + 1 \/ n \in 1 .. k
    OBVIOUS
  <2>2. 1 .. k \subseteq 1 .. k + 1 /\ k + 1 \in 1 .. k + 1
    OBVIOUS
  <2> QED
    BY <1>3, <1>5, <1>6, <1>7, <2>1, <2>2
<1>9. ClientTypes'
  <2>1. typed' \in [Users -> Nat] /\ \A v \in Users : typed'[v] <= MaxLines[v]
    BY <1>1, <1>2, LinesAssumption DEF TypeInv, ClientTypes
  <2>2. leaving \in [Users -> BOOLEAN] /\ asked \in [Users -> BOOLEAN]
    BY <1>2 DEF TypeInv, ClientTypes
  <2>3. leaving' \in [Users -> BOOLEAN] /\ asked' \in [Users -> BOOLEAN]
    BY <2>2
  <2> QED
    BY <1>1, <1>2, <2>1, <2>2, <2>3 DEF TypeInv, ClientTypes
<1>10. TypeInv' /\ TableInv' /\ FreshInv'
  BY <1>1, <1>2, <1>7, <1>9
     DEF TypeInv, ServerTypes, QueueTypes, IInv, TableInv, FreshInv, Owns
<1>11. KnownInv'
  <2>1. ASSUME NEW v \in Users
        PROVE  ClientKnown(v)'
    <3>1. ClientKnown(v)
      BY DEF IInv, KnownInv
    <3>2. leaving'[v] => leaving[v] \/ (v = u /\ state[u] = "InRoom")
      BY <1>1, <1>2 DEF TypeInv, ClientTypes
    <3>3. myId'[v] # 0 => Owns(v, myId[v])'
      BY <1>1, <3>1 DEF ClientKnown, Owns
    <3>4. state'[v] \in {"Lobby", "InRoom"} \/ leaving'[v] => myId'[v] # 0
      BY <1>1, <3>1, <3>2 DEF ClientKnown
    <3> QED
      BY <3>3, <3>4 DEF ClientKnown
  <2>2. ASSUME NEW v \in Users
        PROVE  PlaceKnown(v)' /\ \A n \in DOMAIN s2c'[v] : AnswerKnown(v, s2c[v][n])'
    BY <1>1 DEF IInv, KnownInv, PlaceKnown, AnswerKnown, Owns
  <2>3. ASSUME NEW v \in Users, NEW n \in DOMAIN c2s'[v]
        PROVE  RequestKnown(v, c2s[v][n])'
    <3>1. \/ v = u /\ c2s'[v][n] = p
          \/ n \in DOMAIN c2s[v] /\ c2s'[v][n] = c2s[v][n]
      BY <1>7, <1>8, <2>3
    <3>2. RequestKnown(v, c2s'[v][n])
      BY <3>1 DEF IInv, KnownInv
    <3> QED
      BY <1>1, <3>2 DEF RequestKnown, Owns
  <2> QED
    BY <2>1, <2>2, <2>3 DEF KnownInv
<1>12. \A v \in Users : asked'[v] => asked[v] \/ (v = u /\ p.kind \in {"setNickname", "joinRoom"})
  BY <1>2 DEF TypeInv, ClientTypes
<1>13. AskedInv'
  BY <1>1, <1>12 DEF IInv, AskedInv
<1>14. NoQuestionLost'
  <2>1. ASSUME NEW v \in Users, asked'[v], live'[v] = "yes", crashed' = {}
        PROVE  Pending(v)'
    <3>1. CASE v = u /\ p.kind \in {"setNickname", "joinRoom"}
      BY <1>8, <3>1 DEF Pending
    <3>2. CASE asked[v]
      <4>1. Pending(v)
        BY <1>1, <2>1, <3>2 DEF IInv, NoQuestionLost, Pending
      <4> QED
        BY <1>1, <1>7, <1>8, <4>1 DEF Pending
    <3> QED
      BY <1>12, <2>1, <3>1, <3>2
  <2> QED
    BY <2>1 DEF NoQuestionLost, Pending
<1> QED
  BY <1>10, <1>11, <1>13, <1>14 DEF IInv

LEMMA LinesStep ==
    ASSUME IInv, NEW u \in Users, Line(u)
    PROVE  IInv'
<1>1. state[u] \in {"Lobby", "InRoom"} => Owns(u, myId[u]) /\ myId[u] # 0 /\ myId[u] \in Int
  BY DEF IInv, KnownInv, ClientKnown, TypeInv, ClientTypes
<1>2. CASE SetNickname(u)
  <2>1. PICK n \in Names : Types(u, "WaitingNickname", [kind |-> "setNickname", name |-> n])
    BY <1>2 DEF SetNickname
  <2>2. PICK p : p = [kind |-> "setNickname", name |-> n]
    OBVIOUS
  <2>3. p \in Request /\ p.kind = "setNickname"
    BY <2>2 DEF Request
  <2> QED
    BY <1>2, <2>1, <2>2, <2>3, LineStep DEF SetNickname, RequestKnown
<1>3. CASE RequestRoomList(u)
  <2>1. PICK p : p = [kind |-> "requestRoomList"]
    OBVIOUS
  <2>2. p \in Request /\ p.kind = "requestRoomList"
    BY <2>1 DEF Request
  <2> QED
    BY <1>3, <2>1, <2>2, LineStep DEF RequestRoomList, RequestKnown
<1>4. CASE CreateRoom(u)
  <2>1. PICK n \in RoomNames : Types(u, "Lobby", [kind |-> "createRoom", name |-> n])
    BY <1>4 DEF CreateRoom
  <2>2. PICK p : p = [kind |-> "createRoom", name |-> n]
    OBVIOUS
  <2>3. p \in Request /\ p.kind = "createRoom"
    BY <2>2 DEF Request
  <2> QED
    BY <1>4, <2>1, <2>2, <2>3, LineStep DEF CreateRoom, RequestKnown
<1>5. CASE EnterRoomById(u)
  <2>1. PICK r \in 1 .. Len(rooms) + 1 :
            /\ Types(u, "Lobby", [kind |-> "joinRoom", id |-> myId[u], room |-> r])
            /\ asked' = [asked EXCEPT ![u] = TRUE] /\ UNCHANGED leaving
    BY <1>5 DEF EnterRoomById
  <2>2. PICK p : p = [kind |-> "joinRoom", id |-> myId[u], room |-> r]
    OBVIOUS
  <2>3. Owns(u, myId[u]) /\ myId[u] # 0 /\ myId[u] \in Int
    BY <1>1, <2>1 DEF Types
  <2>4. p \in Request /\ p.kind = "joinRoom" /\ p.id = myId[u]
    BY <2>2, <2>3 DEF Request
  <2>5. RequestKnown(u, p)
    BY <2>3, <2>4 DEF RequestKnown
  <2> QED
    BY <2>1, <2>2, <2>4, <2>5, LineStep
<1>6. CASE ChatToRoom(u)
  <2>1. PICK p : p = [kind |-> "chatRoom", id |-> myId[u]]
    OBVIOUS
  <2>2. Types(u, "InRoom", p) /\ UNCHANGED <<leaving, asked>>
    BY <1>6, <2>1 DEF ChatToRoom
  <2>3. Owns(u, myId[u]) /\ myId[u] # 0 /\ myId[u] \in Int
    BY <1>1, <2>2 DEF Types
  <2>4. p \in Request /\ p.kind = "chatRoom" /\ p.id = myId[u]
    BY <2>1, <2>3 DEF Request
  <2> QED
    BY <2>2, <2>3, <2>4, LineStep DEF RequestKnown
<1>7. CASE LeaveRoom(u)
  <2>1. PICK p : p = [kind |-> "leaveRoom", id |-> myId[u]]
    OBVIOUS
  <2>2. Types(u, "InRoom", p) /\ leaving' = [leaving EXCEPT ![u] = TRUE] /\ UNCHANGED asked
    BY <1>7, <2>1 DEF LeaveRoom
  <2>3. Owns(u, myId[u]) /\ myId[u] # 0 /\ myId[u] \in Int
    BY <1>1, <2>2 DEF Types
  <2>4. p \in Request /\ p.kind = "leaveRoom" /\ p.id = myId[u]
    BY <2>1, <2>3 DEF Request
  <2> QED
    BY <2>2, <2>3, <2>4, LineStep DEF RequestKnown
<1> QED
  BY <1>2, <1>3, <1>4, <1>5, <1>6, <1>7 DEF Line

LEMMA OnConnectedStep ==
    ASSUME IInv, NEW u \in Users, OnConnected(u)
    PROVE  IInv'
<1>1. PICK q : q = <<[kind |-> "prompt"]>>
  OBVIOUS
<1>2. /\ live[u] = "no" /\ live' = [live EXCEPT ![u] = "yes"] /\ Send(u, q)
      /\ players' = players /\ rooms' = rooms /\ members' = members /\ handler' = handler
      /\ crashed' = crashed /\ c2s' = c2s /\ state' = state /\ myId' = myId
      /\ leaving' = leaving /\ asked' = asked /\ hasty' = hasty /\ typed' = typed
  BY <1>1 DEF OnConnected, tables, client, user
<1>3. TypeInv
  BY DEF IInv
<1>4. q \in Seq(Answer) /\ \A m \in DOMAIN q : q[m].kind = "prompt"
  BY <1>1, Records
<1>5. \A m \in DOMAIN q : AnswerKnown(u, q[m])
  BY <1>4 DEF AnswerKnown
<1>6. /\ s2c' \in [Users -> Seq(Answer)]
      /\ \A v \in Users : Grows(s2c[v], s2c'[v], Answer)
      /\ \A v \in Users : \A n \in DOMAIN s2c'[v] \ DOMAIN s2c[v] : AnswerKnown(v, s2c'[v][n])
  BY <1>2, <1>3, <1>4, <1>5, SendKnown
<1>7. TypeInv' /\ TableInv' /\ FreshInv'
  BY <1>2, <1>3, <1>6
     DEF TypeInv, ServerTypes, QueueTypes, ClientTypes, IInv, TableInv, FreshInv, Owns
<1>8. KnownInv'
  <2>1. ASSUME NEW v \in Users
        PROVE  /\ ClientKnown(v)' /\ PlaceKnown(v)'
               /\ \A n \in DOMAIN c2s'[v] : RequestKnown(v, c2s[v][n])'
    BY <1>2 DEF IInv, KnownInv, ClientKnown, PlaceKnown, RequestKnown, Owns
  <2>2. ASSUME NEW v \in Users, NEW n \in DOMAIN s2c'[v]
        PROVE  AnswerKnown(v, s2c[v][n])'
    <3>1. AnswerKnown(v, s2c'[v][n])
      BY <1>6, <2>2 DEF IInv, KnownInv, Grows
    <3> QED
      BY <1>2, <3>1 DEF AnswerKnown, Owns
  <2> QED
    BY <2>1, <2>2 DEF KnownInv
<1>9. live[u] = "no" /\ ~asked[u]
  BY <1>2 DEF IInv, AskedInv
<1>10. \A v \in Users \ {u} : live'[v] = live[v]
  BY <1>2, <1>3 DEF TypeInv, ClientTypes
<1>11. AskedInv'
  BY <1>2, <1>9, <1>10 DEF IInv, AskedInv
<1>12. NoQuestionLost'
  <2>1. ASSUME NEW v \in Users, asked'[v], live'[v] = "yes", crashed' = {}
        PROVE  Pending(v)'
    <3>1. v # u
      BY <1>2, <1>9, <2>1
    <3>2. live[v] = "yes"
      BY <1>10, <2>1, <3>1
    <3>3. Pending(v)
      BY <1>2, <2>1, <3>2 DEF IInv, NoQuestionLost, Pending
    <3> QED
      BY <1>2, <1>6, <3>3, PendingGrows
  <2> QED
    BY <2>1 DEF NoQuestionLost, Pending
<1> QED
  BY <1>7, <1>8, <1>11, <1>12 DEF IInv

LEMMA QuitStep ==
    ASSUME IInv, NEW u \in Users, Quit(u)
    PROVE  IInv'
<1>1. /\ live' = [live EXCEPT ![u] = "gone"]
      /\ c2s' = [c2s EXCEPT ![u] = <<>>] /\ s2c' = [s2c EXCEPT ![u] = <<>>]
      /\ players' = players /\ rooms' = rooms /\ members' = members /\ handler' = handler
      /\ crashed' = crashed /\ state' = state /\ myId' = myId
      /\ leaving' = leaving /\ asked' = asked /\ hasty' = hasty /\ typed' = typed
  BY DEF Quit, tables, client, user
<1>2. /\ live \in [Users -> {"no", "yes", "gone"}]
      /\ c2s \in [Users -> Seq(Request)] /\ s2c \in [Users -> Seq(Answer)]
  BY DEF IInv, TypeInv, QueueTypes, ClientTypes
<1>3. /\ live' \in [Users -> {"no", "yes", "gone"}] /\ live'[u] = "gone"
      /\ c2s' \in [Users -> Seq(Request)] /\ s2c' \in [Users -> Seq(Answer)]
      /\ c2s'[u] = <<>> /\ s2c'[u] = <<>>
      /\ \A v \in Users \ {u} : live'[v] = live[v] /\ c2s'[v] = c2s[v] /\ s2c'[v] = s2c[v]
  BY <1>1, <1>2
<1>4. TypeInv' /\ TableInv' /\ FreshInv'
  BY <1>1, <1>3
     DEF TypeInv, ServerTypes, QueueTypes, ClientTypes, IInv, TableInv, FreshInv, Owns
<1>5. KnownInv'
  <2>1. ASSUME NEW v \in Users
        PROVE  ClientKnown(v)' /\ PlaceKnown(v)'
    BY <1>1 DEF IInv, KnownInv, ClientKnown, PlaceKnown, Owns
  <2>2. ASSUME NEW v \in Users
        PROVE  /\ \A n \in DOMAIN c2s'[v] : RequestKnown(v, c2s[v][n])'
               /\ \A n \in DOMAIN s2c'[v] : AnswerKnown(v, s2c[v][n])'
    <3>1. CASE v = u
      BY <1>3, <3>1
    <3>2. CASE v # u
      BY <1>1, <1>3, <3>2 DEF IInv, KnownInv, RequestKnown, AnswerKnown, Owns
    <3> QED
      BY <3>1, <3>2
  <2> QED
    BY <2>1, <2>2 DEF KnownInv
<1>6. AskedInv'
  BY <1>1, <1>3 DEF IInv, AskedInv
<1>7. NoQuestionLost'
  <2>1. ASSUME NEW v \in Users, asked'[v], live'[v] = "yes", crashed' = {}
        PROVE  Pending(v)'
    <3>1. v # u
      BY <1>3, <2>1
    <3>2. live[v] = "yes"
      BY <1>3, <2>1, <3>1
    <3>3. Pending(v)
      BY <1>1, <2>1, <3>2 DEF IInv, NoQuestionLost, Pending
    <3> QED
      BY <1>1, <1>3, <3>1, <3>3 DEF Pending
  <2> QED
    BY <2>1 DEF NoQuestionLost, Pending
<1> QED
  BY <1>4, <1>5, <1>6, <1>7 DEF IInv

LEMMA BackToLobbyStep ==
    ASSUME IInv, NEW u \in Users, BackToLobby(u)
    PROVE  IInv'
<1>1. /\ leaving[u] /\ state' = [state EXCEPT ![u] = "Lobby"] /\ leaving' = [leaving EXCEPT ![u] = FALSE]
      /\ players' = players /\ rooms' = rooms /\ members' = members /\ handler' = handler
      /\ crashed' = crashed /\ live' = live /\ c2s' = c2s /\ s2c' = s2c /\ myId' = myId
      /\ asked' = asked /\ hasty' = hasty /\ typed' = typed
  BY DEF BackToLobby, server, tables
<1>2. /\ state \in [Users -> {"Connecting", "WaitingNickname", "Lobby", "InRoom"}]
      /\ leaving \in [Users -> BOOLEAN]
  BY DEF IInv, TypeInv, ClientTypes
<1>3. /\ state' \in [Users -> {"Connecting", "WaitingNickname", "Lobby", "InRoom"}]
      /\ leaving' \in [Users -> BOOLEAN] /\ ~leaving'[u]
      /\ \A v \in Users \ {u} : state'[v] = state[v] /\ (leaving'[v] => leaving[v])
  BY <1>1, <1>2
<1>4. TypeInv' /\ TableInv' /\ FreshInv'
  BY <1>1, <1>3
     DEF TypeInv, ServerTypes, QueueTypes, ClientTypes, IInv, TableInv, FreshInv, Owns
<1>5. KnownInv'
  <2>1. ASSUME NEW v \in Users
        PROVE  ClientKnown(v)'
    <3>1. ClientKnown(v)
      BY DEF IInv, KnownInv
    <3>2. state'[v] \in {"Lobby", "InRoom"} \/ leaving'[v] => state[v] \in {"Lobby", "InRoom"} \/ leaving[v]
      BY <1>1, <1>3
    <3> QED
      BY <1>1, <3>1, <3>2 DEF ClientKnown, Owns
  <2>2. ASSUME NEW v \in Users
        PROVE  /\ PlaceKnown(v)'
               /\ \A n \in DOMAIN c2s'[v] : RequestKnown(v, c2s[v][n])'
               /\ \A n \in DOMAIN s2c'[v] : AnswerKnown(v, s2c[v][n])'
    BY <1>1 DEF IInv, KnownInv, PlaceKnown, RequestKnown, AnswerKnown, Owns
  <2> QED
    BY <2>1, <2>2 DEF KnownInv
<1>6. AskedInv' /\ NoQuestionLost'
  BY <1>1 DEF IInv, AskedInv, NoQuestionLost
<1> QED
  BY <1>4, <1>5, <1>6 DEF IInv

LEMMA ReceiveStep ==
    ASSUME IInv, NEW u \in Users, Receive(u)
    PROVE  IInv'
<1>1. PICK p : p = Head(s2c[u])
  OBVIOUS
<1>2. /\ s2c[u] # <<>> /\ s2c' = [s2c EXCEPT ![u] = Tail(@)]
      /\ state' = [state EXCEPT ![u] = NextState(u, p)]
      /\ myId' = [myId EXCEPT ![u] = IF p.kind = "nameFree" THEN p.id ELSE @]
      /\ asked' = [asked EXCEPT ![u] = @ /\ p.kind \notin {"nameTaken", "nameFree", "enterRoom"}]
      /\ players' = players /\ rooms' = rooms /\ members' = members /\ handler' = handler
      /\ crashed' = crashed /\ live' = live /\ c2s' = c2s /\ leaving' = leaving
      /\ hasty' = hasty /\ typed' = typed
  BY <1>1 DEF Receive, server, tables
<1>3. TypeInv
  BY DEF IInv
<1>4. PICK s \in Seq(Answer) : s = s2c[u] /\ s # <<>>
  BY <1>2, <1>3 DEF TypeInv, QueueTypes
<1>5. PICK t : t = Tail(s)
  OBVIOUS
<1>6. /\ p \in Answer /\ p = s[1] /\ t \in Seq(Answer) /\ 1 \in DOMAIN s
      /\ \A n \in DOMAIN t : n + 1 \in DOMAIN s /\ t[n] = s[n + 1]
      /\ \A n \in DOMAIN s : n = 1 \/ \E m \in DOMAIN t : t[m] = s[n]
  <2>1. /\ p \in Answer /\ t \in Seq(Answer) /\ Len(t) = Len(s) - 1 /\ p = s[1]
        /\ \A i \in 1 .. Len(t) : t[i] = s[i + 1]
        /\ Len(s) \in Nat \ {0} /\ DOMAIN s = 1 .. Len(s) /\ DOMAIN t = 1 .. Len(t)
    BY <1>1, <1>4, <1>5, HeadTailProperties, EmptySeq
  <2>2. ASSUME NEW n \in DOMAIN s, n # 1
        PROVE  \E m \in DOMAIN t : t[m] = s[n]
    <3>1. n - 1 \in DOMAIN t /\ (n - 1) + 1 = n
      BY <2>1, <2>2
    <3> QED
      BY <2>1, <3>1
  <2>3. \A n \in DOMAIN t : n + 1 \in DOMAIN s /\ t[n] = s[n + 1]
    BY <2>1
  <2>4. 1 \in DOMAIN s
    BY <2>1
  <2> QED
    BY <2>1, <2>2, <2>3, <2>4
<1>7. s2c' \in [Users -> Seq(Answer)] /\ s2c'[u] = t /\ \A v \in Users \ {u} : s2c'[v] = s2c[v]
  BY <1>2, <1>3, <1>4, <1>5, <1>6 DEF TypeInv, QueueTypes
<1>8. ClientKnown(u) /\ AnswerKnown(u, p)
  BY <1>4, <1>6 DEF IInv, KnownInv
<1>9. NextState(u, p) \in {"WaitingNickname", "Lobby", "InRoom", state[u]}
      /\ (NextState(u, p) = "Lobby" => p.kind = "nameFree" \/ state[u] = "Lobby")
      /\ (NextState(u, p) = "InRoom" => p.kind = "enterRoom" \/ state[u] = "InRoom")
  BY DEF NextState
<1>10. /\ p.kind = "nameFree" => p.id \in Int /\ p.id # 0
  <2>1. p.kind = "nameFree" => p.id \in DOMAIN players
    BY <1>8 DEF AnswerKnown, Owns
  <2>2. DOMAIN players = 1 .. Len(players) /\ Len(players) \in Nat
    BY <1>3 DEF TypeInv, ServerTypes
  <2> QED
    BY <2>1, <2>2
<1>11. /\ state \in [Users -> {"Connecting", "WaitingNickname", "Lobby", "InRoom"}]
       /\ myId \in [Users -> Int] /\ asked \in [Users -> BOOLEAN]
  BY <1>3 DEF TypeInv, ClientTypes
<1>12. /\ state' \in [Users -> {"Connecting", "WaitingNickname", "Lobby", "InRoom"}]
       /\ state'[u] = NextState(u, p) /\ \A v \in Users \ {u} : state'[v] = state[v]
  BY <1>2, <1>9, <1>11
<1>13. /\ myId' \in [Users -> Int] /\ \A v \in Users \ {u} : myId'[v] = myId[v]
       /\ myId'[u] = IF p.kind = "nameFree" THEN p.id ELSE myId[u]
  BY <1>2, <1>10, <1>11
<1>14. /\ asked' \in [Users -> BOOLEAN]
       /\ \A v \in Users \ {u} : asked'[v] = asked[v]
       /\ asked'[u] => asked[u] /\ p.kind \notin {"nameTaken", "nameFree", "enterRoom"}
  <2>1. PICK b \in BOOLEAN : b = (asked[u] /\ p.kind \notin {"nameTaken", "nameFree", "enterRoom"})
    OBVIOUS
  <2>2. asked' = [asked EXCEPT ![u] = b]
    BY <1>2, <2>1
  <2>3. asked' \in [Users -> BOOLEAN] /\ asked'[u] = b /\ \A v \in Users \ {u} : asked'[v] = asked[v]
    BY <1>11, <2>2
  <2> QED
    BY <2>1, <2>3
<1>15. TypeInv' /\ TableInv' /\ FreshInv'
  BY <1>2, <1>3, <1>7, <1>12, <1>13, <1>14
     DEF TypeInv, ServerTypes, QueueTypes, ClientTypes, IInv, TableInv, FreshInv, Owns
<1>16. \A v \in Users : myId[v] # 0 => myId'[v] # 0
  BY <1>10, <1>13
<1>17. KnownInv'
  <2>1. ASSUME NEW v \in Users
        PROVE  ClientKnown(v)'
    <3>1. CASE v = u
      <4>1. myId'[u] # 0 => Owns(u, myId[u])'
        BY <1>2, <1>8, <1>13 DEF ClientKnown, AnswerKnown, Owns
      <4>2. state'[u] \in {"Lobby", "InRoom"} \/ leaving'[u] => myId'[u] # 0
        BY <1>2, <1>8, <1>9, <1>10, <1>12, <1>13, <1>16 DEF ClientKnown, AnswerKnown
      <4> QED
        BY <3>1, <4>1, <4>2 DEF ClientKnown
    <3>2. CASE v # u
      BY <1>2, <1>12, <1>13, <3>2 DEF IInv, KnownInv, ClientKnown, Owns
    <3> QED
      BY <3>1, <3>2
  <2>2. ASSUME NEW v \in Users
        PROVE  PlaceKnown(v)' /\ \A n \in DOMAIN c2s'[v] : RequestKnown(v, c2s[v][n])'
    BY <1>2, <1>16 DEF IInv, KnownInv, PlaceKnown, RequestKnown, Owns
  <2>3. ASSUME NEW v \in Users, NEW n \in DOMAIN s2c'[v]
        PROVE  AnswerKnown(v, s2c[v][n])'
    <3>1. \E m \in DOMAIN s2c[v] : s2c'[v][n] = s2c[v][m]
      <4>1. CASE v = u
        BY <1>4, <1>6, <1>7, <2>3, <4>1
      <4>2. CASE v # u
        BY <1>7, <2>3, <4>2
      <4> QED
        BY <4>1, <4>2
    <3>2. AnswerKnown(v, s2c'[v][n])
      BY <3>1 DEF IInv, KnownInv
    <3> QED
      BY <1>2, <1>16, <3>2 DEF AnswerKnown, Owns
  <2> QED
    BY <2>1, <2>2, <2>3 DEF KnownInv
<1>18. AskedInv'
  BY <1>2, <1>14 DEF IInv, AskedInv
<1>19. NoQuestionLost'
  <2>1. ASSUME NEW v \in Users, asked'[v], live'[v] = "yes", crashed' = {}
        PROVE  Pending(v)'
    <3>1. asked[v] /\ (v = u => p.kind \notin {"nameTaken", "nameFree", "enterRoom"})
      BY <1>14, <2>1
    <3>2. Pending(v)
      BY <1>2, <2>1, <3>1 DEF IInv, NoQuestionLost, Pending
    <3>3. CASE v = u
      <4>1. ASSUME NEW n \in DOMAIN s2c[u], s2c[u][n].kind \in {"nameTaken", "nameFree", "enterRoom"}
            PROVE  \E m \in DOMAIN s2c'[u] : s2c'[u][m] = s2c[u][n]
        BY <1>4, <1>6, <1>7, <3>1, <3>3, <4>1
      <4> QED
        BY <1>2, <3>2, <3>3, <4>1 DEF Pending
    <3>4. CASE v # u
      BY <1>2, <1>7, <3>2, <3>4 DEF Pending
    <3> QED
      BY <3>3, <3>4
  <2> QED
    BY <2>1 DEF NoQuestionLost, Pending
<1> QED
  BY <1>15, <1>17, <1>18, <1>19 DEF IInv

LEMMA StutterStep ==
    ASSUME IInv, UNCHANGED vars
    PROVE  IInv'
<1>1. /\ players' = players /\ rooms' = rooms /\ members' = members /\ handler' = handler
      /\ live' = live /\ crashed' = crashed /\ c2s' = c2s /\ s2c' = s2c /\ state' = state
      /\ myId' = myId /\ leaving' = leaving /\ asked' = asked /\ hasty' = hasty /\ typed' = typed
  BY DEF vars, server, tables, client, user
<1>2. TypeInv' /\ TableInv' /\ FreshInv' /\ AskedInv' /\ NoQuestionLost'
  BY <1>1 DEF IInv, TypeInv, ServerTypes, QueueTypes, ClientTypes, TableInv, FreshInv, Owns,
              AskedInv, NoQuestionLost
<1>3. KnownInv'
  BY <1>1 DEF IInv, KnownInv, ClientKnown, PlaceKnown, RequestKnown, AnswerKnown, Owns
<1> QED
  BY <1>2, <1>3 DEF IInv

-----------------------------------------------------------------------------
(* Theorems *)

LEMMA InitIInv ==
    ASSUME Init
    PROVE  IInv
<1>1. /\ OldRooms \in Seq(RoomNames) /\ IsInjective(OldRooms) /\ MaxLines \in [Users -> Nat]
  BY RoomsAssumption, LinesAssumption
<1>2. members \in Seq(SUBSET Int) /\ Len(members) = Len(rooms)
  <2>1. PICK k \in Nat : k = Len(OldRooms) /\ DOMAIN OldRooms = 1 .. k
    BY <1>1
  <2>2. members = [r \in 1 .. k |-> {}]
    BY <2>1 DEF Init
  <2> QED
    BY <2>1, <2>2 DEF Init
<1>3. handler \in [Users -> Place] /\ \A u \in Users : handler[u].at = "idle"
  BY IdlePlace DEF Init
<1>4. players \in Seq(Player) /\ DOMAIN players = {}
  BY DEF Init
<1>5. c2s \in [Users -> Seq(Request)] /\ s2c \in [Users -> Seq(Answer)]
  BY DEF Init
<1>6. ClientTypes
  BY <1>1 DEF Init, ClientTypes
<1>7. TypeInv
  BY <1>1, <1>2, <1>3, <1>4, <1>5, <1>6 DEF Init, TypeInv, ServerTypes, QueueTypes
<1>8. TableInv /\ FreshInv /\ AskedInv
  BY <1>1, <1>3, <1>4 DEF Init, TableInv, FreshInv, AskedInv
<1>9. KnownInv
  BY <1>3 DEF Init, KnownInv, ClientKnown, PlaceKnown
<1>10. NoQuestionLost
  BY DEF Init, NoQuestionLost
<1> QED
  BY <1>7, <1>8, <1>9, <1>10 DEF IInv

LEMMA NextIInv ==
    ASSUME IInv, [Next]_vars
    PROVE  IInv'
BY OnConnectedStep, QuitStep, HandleStep, LinesStep, BackToLobbyStep, ReceiveStep, StutterStep
   DEF Next

\* The tables, the packets on their way and the clients agree on who is who, and
\* every question is somewhere: in the state ClientPacketHandler.cpp and
\* GameSessionManager.cpp, and the clients, leave after every step.
THEOREM Invariance == Spec => []IInv
<1>1. Init => IInv
  BY InitIInv
<1>2. IInv /\ [Next]_vars => IInv'
  BY NextIInv
<1> QED
  BY <1>1, <1>2, PTL DEF Spec

\* Types, and every member of a room is a player whose id AddPlayer gave; a client
\* in the lobby or a room has the id of a player whose session is its own.
THEOREM TypeCorrect == Spec => []TypeOK
<1>1. IInv => TypeOK
  <2> SUFFICES ASSUME IInv PROVE TypeOK
    OBVIOUS
  <2>1. /\ players \in Seq(Player) /\ rooms \in Seq(RoomNames)
        /\ members \in Seq(SUBSET Int) /\ Len(members) = Len(rooms)
    BY DEF IInv, TypeInv, ServerTypes
  <2>2. DOMAIN members = DOMAIN rooms
    BY <2>1
  <2>3. \A r \in DOMAIN members : members[r] \subseteq DOMAIN players
    BY DEF IInv, TableInv
  <2>4. \A u \in Users : state[u] \in {"Lobby", "InRoom"} => players[myId[u]].session = u
    BY DEF IInv, KnownInv, ClientKnown, Owns
  <2>5. /\ live \in [Users -> {"no", "yes", "gone"}]
        /\ state \in [Users -> {"Connecting", "WaitingNickname", "Lobby", "InRoom"}]
        /\ leaving \in [Users -> BOOLEAN] /\ asked \in [Users -> BOOLEAN]
        /\ hasty \subseteq Users /\ \A u \in Users : typed[u] \in 0 .. MaxLines[u]
    BY LinesAssumption DEF IInv, TypeInv, ClientTypes
  <2> QED
    BY <2>1, <2>2, <2>3, <2>4, <2>5 DEF TypeOK, Player
<1> QED
  BY <1>1, Invariance, PTL

\* No two clients ever hold the same id or the same nickname, and no two rooms
\* have one name: an id is with one handler, then on its way to one client, and
\* AddPlayer and AddRoom give a name once.
THEOREM IdentitiesKept == Spec => []IdentitiesDistinct
<1>1. IInv => IdentitiesDistinct
  <2> SUFFICES ASSUME IInv PROVE IdentitiesDistinct
    OBVIOUS
  <2>1. ASSUME NEW u \in Users, NEW v \in Users, u # v, myId[u] # 0, myId[v] # 0
        PROVE  myId[u] # myId[v] /\ players[myId[u]].name # players[myId[v]].name
    <3>1. Owns(u, myId[u]) /\ Owns(v, myId[v])
      BY <2>1 DEF IInv, KnownInv, ClientKnown
    <3>2. myId[u] # myId[v]
      BY <2>1, <3>1 DEF Owns
    <3> QED
      BY <3>1, <3>2 DEF Owns, IInv, TableInv
  <2> QED
    BY <2>1 DEF IdentitiesDistinct, IInv, TableInv
<1> QED
  BY <1>1, Invariance, PTL

\* While the server runs, the question of a user who waits is on its way, in its
\* handler, or answered by a packet on its way back.
THEOREM QuestionsKept == Spec => []NoQuestionLost
<1>1. IInv => NoQuestionLost
  BY DEF IInv
<1> QED
  BY <1>1, Invariance, PTL

-----------------------------------------------------------------------------
(* Users who wait for answers *)

Asking(p) == p.kind \in {"setNickname", "joinRoom"}
Answering(p) == p.kind \in {"nameTaken", "nameFree", "enterRoom"}
EnterOk(p) == p.kind = "enterRoom" /\ p.error = "ok"

InHand(u) == handler[u].at \in {"nameTaken", "nameFree", "joined"}
Answered(u) == \E n \in DOMAIN s2c[u] : Answering(s2c[u][n])

\* There is one question at most: the last request, in the handler, or answered.
QuestionInv(u) ==
    /\ \A n \in DOMAIN c2s[u] : Asking(c2s[u][n]) =>
          asked[u] /\ ~InHand(u) /\ ~Answered(u) /\ \A m \in DOMAIN c2s[u] : m <= n
    /\ InHand(u) => asked[u] /\ ~Answered(u) /\ DOMAIN c2s[u] = {}
    /\ \A n \in DOMAIN s2c[u] : Answering(s2c[u][n]) =>
          /\ asked[u] /\ DOMAIN c2s[u] = {}
          /\ \A m \in DOMAIN s2c[u] : Answering(s2c[u][m]) => m = n

\* The state in which a question is asked lasts until the answer is received.
StateInv(u) ==
    /\ \A n \in DOMAIN c2s[u] :
          /\ c2s[u][n].kind = "setNickname" => state[u] = "WaitingNickname"
          /\ c2s[u][n].kind = "joinRoom" => state[u] = "Lobby"
    /\ handler[u].at \in {"nameTaken", "nameFree"} => state[u] = "WaitingNickname"
    /\ handler[u].at = "joined" => state[u] = "Lobby"
    /\ \A n \in DOMAIN s2c[u] :
          /\ s2c[u][n].kind \in {"nameTaken", "nameFree"} => state[u] = "WaitingNickname"
          /\ s2c[u][n].kind = "enterRoom" => state[u] = "Lobby"
    /\ leaving[u] => state[u] = "InRoom" /\ ~asked[u]
    /\ asked[u] => state[u] \in {"WaitingNickname", "Lobby"}

Unnamed(u) == \A id \in DOMAIN players : ~Owns(u, id)
TellsId(u) == \E n \in DOMAIN s2c[u] : s2c[u][n].kind = "nameFree"

\* Nobody gets a second id, and no prompt follows the id.
NameInv(u) ==
    /\ \A i, j \in DOMAIN players : Owns(u, i) /\ Owns(u, j) => i = j
    /\ \A n \in DOMAIN c2s[u] : c2s[u][n].kind = "setNickname" => Unnamed(u)
    /\ handler[u].at \in {"nameTaken", "nameFree"} => Unnamed(u)
    /\ myId[u] # 0 => state[u] \in {"Lobby", "InRoom"}
    /\ myId[u] = 0 /\ live[u] # "gone" => Unnamed(u) \/ TellsId(u)
    /\ \A m, n \in DOMAIN s2c[u] : s2c[u][m].kind = "prompt" =>
          myId[u] = 0 /\ (s2c[u][n].kind = "nameFree" => m < n)

\* In a room: as the client has it, as the server has yet to hear, as the
\* handler has it, as the client has yet to hear.
Stays(u) == state[u] = "InRoom" /\ ~leaving[u]
Leaves(u) == \E n \in DOMAIN c2s[u] : c2s[u][n].kind = "leaveRoom"
Enters(u) == handler[u].at \in {"joined", "answered"} /\ handler[u].error = "ok"
Entering(u) == \E n \in DOMAIN s2c[u] : EnterOk(s2c[u][n])
Within(u) == Stays(u) \/ Leaves(u) \/ Enters(u) \/ Entering(u)

\* The room that Player::roomId is, or is about to be.
Home(u) == IF handler[u].at \in {"joined", "answered"} THEN handler[u].room ELSE players[myId[u]].roomId

\* Chat goes before the request to leave, everything else after it.
LeaveInv(u) ==
    /\ \A n \in DOMAIN c2s[u] : c2s[u][n].kind = "leaveRoom" =>
          ~Stays(u) /\ \A m \in DOMAIN c2s[u] : m > n => c2s[u][m].kind \notin {"chatRoom", "leaveRoom"}
    /\ \A n \in DOMAIN c2s[u] : c2s[u][n].kind = "chatRoom" => Stays(u) \/ Leaves(u)
    /\ handler[u].at = "left" => ~Answered(u) /\ ~Stays(u) /\ ~Leaves(u)
    /\ handler[u].at = "answered" =>
          IF Enters(u) THEN Entering(u) \/ Stays(u) \/ Leaves(u)
          ELSE state[u] = "Lobby" /\ ~Entering(u) /\ ~Leaves(u)

\* The room that the user asked for last is the one the server has, unless the
\* user has left it.
AimInv(u) ==
    /\ \A n \in DOMAIN c2s[u] : c2s[u][n].kind = "joinRoom" => c2s[u][n].room = aim[u]
    /\ handler[u].at = "joined" => handler[u].room = aim[u]
    /\ Entering(u) \/ Stays(u) \/ (leaving[u] /\ Leaves(u)) => Home(u) = aim[u]

\* Chat that is received in a room is of that room.
HearInv(u) ==
    \A n \in DOMAIN s2c[u] : s2c[u][n].kind = "chatRoom" =>
        /\ state[u] = "InRoom" => s2c[u][n].room = aim[u]
        /\ \A m \in DOMAIN s2c[u] : m < n /\ EnterOk(s2c[u][m]) => s2c[u][n].room = aim[u]

\* The players of the rooms, as far as the user's own place goes.
PlaceInv(u) == \A id \in DOMAIN players : Owns(u, id) =>
    /\ \A q, r \in DOMAIN members : id \in members[q] /\ id \in members[r] => q = r
    /\ crashed = {} /\ live[u] = "yes" =>
          /\ \A r \in DOMAIN members : id \in members[r] <=> Within(u) /\ r = Home(u)
          /\ Within(u) => RoomExists(Home(u))

Settled(u) ==
    QuestionInv(u) /\ StateInv(u) /\ NameInv(u) /\ LeaveInv(u) /\ AimInv(u) /\ HearInv(u) /\ PlaceInv(u)

\* What is true of all users: nothing is on its way to or from a session that is
\* not there, and members have a session.
SessionInv ==
    /\ \A u \in Users : live[u] # "yes" =>
          handler[u] = Idle /\ DOMAIN c2s[u] = {} /\ DOMAIN s2c[u] = {}
    /\ \A u \in Users : live[u] = "no" => state[u] = "Connecting" /\ ~leaving[u]
    /\ \A r \in DOMAIN members : \A id \in members[r] : players[id].session # NoUser
    /\ aim \in [Users -> Int]

-----------------------------------------------------------------------------
(* Steps that do not change where a user is *)

\* t is s without its first d elements.
Drops(s, t, d) ==
    /\ \A n \in DOMAIN s : n \in Nat \ {0}
    /\ \A n \in DOMAIN t : n \in Nat \ {0} /\ n + d \in DOMAIN s /\ t[n] = s[n + d]
    /\ \A n \in DOMAIN s : n > d => n - d \in DOMAIN t /\ t[n - d] = s[n]

LEMMA SameDrops ==
    ASSUME NEW S, NEW s \in Seq(S)
    PROVE  Drops(s, s, 0)
<1>1. DOMAIN s = 1 .. Len(s) /\ Len(s) \in Nat
  OBVIOUS
<1> QED
  BY <1>1 DEF Drops

LEMMA TakesDrops ==
    ASSUME TypeInv, NEW u \in Users, NEW k, Takes(u, k)
    PROVE  Drops(c2s[u], c2s'[u], 1)
<1>1. c2s[u] # <<>> /\ c2s' = [c2s EXCEPT ![u] = Tail(c2s[u])]
  BY DEF Takes
<1>2. PICK s \in Seq(Request) : s = c2s[u] /\ s # <<>>
  BY <1>1 DEF TypeInv, QueueTypes
<1>3. PICK t : t = Tail(s)
  OBVIOUS
<1>4. /\ Len(t) = Len(s) - 1 /\ \A i \in 1 .. Len(t) : t[i] = s[i + 1]
      /\ Len(s) \in Nat \ {0} /\ DOMAIN s = 1 .. Len(s) /\ DOMAIN t = 1 .. Len(t)
  BY <1>2, <1>3, HeadTailProperties, EmptySeq
<1>5. c2s'[u] = t
  BY <1>1, <1>2, <1>3 DEF TypeInv, QueueTypes
<1>6. \A n \in DOMAIN s : n > 1 => n - 1 \in DOMAIN t /\ t[n - 1] = s[n]
  BY <1>4
<1> QED
  BY <1>2, <1>4, <1>5, <1>6 DEF Drops

\* Who is in a room, or about to be, has an id.
LEMMA WithinKnown ==
    ASSUME IInv, NEW u \in Users, Settled(u), Within(u)
    PROVE  myId[u] # 0 /\ Owns(u, myId[u])
<1>1. /\ ClientKnown(u) /\ PlaceKnown(u)
      /\ \A n \in DOMAIN c2s[u] : RequestKnown(u, c2s[u][n])
      /\ \A n \in DOMAIN s2c[u] : AnswerKnown(u, s2c[u][n])
  BY DEF IInv, KnownInv
<1>2. CASE Stays(u)
  BY <1>1, <1>2 DEF Stays, ClientKnown
<1>3. CASE Leaves(u)
  BY <1>1, <1>3 DEF Leaves, RequestKnown, ClientKnown
<1>4. CASE Enters(u)
  BY <1>1, <1>4 DEF Enters, PlaceKnown, ClientKnown
<1>5. CASE Entering(u)
  BY <1>1, <1>5 DEF Entering, EnterOk, AnswerKnown, ClientKnown
<1> QED
  BY <1>2, <1>3, <1>4, <1>5 DEF Within

\* Client and handler of v do nothing, except that the handler may drop a
\* request that changes no place; v hears chat of a room that it is in, and
\* what tells it nothing.
Still(v, d) ==
    /\ handler'[v] = handler[v] /\ live'[v] = live[v] /\ state'[v] = state[v]
    /\ myId'[v] = myId[v] /\ leaving'[v] = leaving[v] /\ asked'[v] = asked[v] /\ aim'[v] = aim[v]
    /\ Drops(c2s[v], c2s'[v], d)
    /\ d = 0 \/ (d = 1 /\ c2s[v][1].kind \notin {"setNickname", "joinRoom", "leaveRoom"})
    /\ \A id : Owns(v, id)' <=> Owns(v, id)
    /\ \A id : Owns(v, id) => players'[id].roomId = players[id].roomId
    /\ DOMAIN rooms \subseteq DOMAIN rooms'

SameRooms(v) == \A id, r : Owns(v, id) =>
    (r \in DOMAIN members' /\ id \in members'[r] <=> r \in DOMAIN members /\ id \in members[r])

Hears(v, p) ==
    /\ ~Answering(p) /\ p.kind # "prompt"
    /\ p.kind = "chatRoom" =>
          /\ crashed = {} /\ live[v] = "yes"
          /\ \E id : Owns(v, id) /\ p.room \in DOMAIN members /\ id \in members[p.room]

LEMMA StillStep ==
    ASSUME IInv, NEW v \in Users, Settled(v), NEW d, Still(v, d), SameRooms(v),
           NEW E, Grows(s2c[v], s2c'[v], E), \A p \in E : Hears(v, p),
           crashed' = {} => crashed = {}
    PROVE  Settled(v)'
<1>1. /\ QuestionInv(v) /\ StateInv(v) /\ NameInv(v) /\ LeaveInv(v) /\ AimInv(v) /\ HearInv(v)
      /\ PlaceInv(v)
  BY DEF Settled
<1>2. /\ handler'[v] = handler[v] /\ live'[v] = live[v] /\ state'[v] = state[v]
      /\ myId'[v] = myId[v] /\ leaving'[v] = leaving[v] /\ asked'[v] = asked[v] /\ aim'[v] = aim[v]
  BY DEF Still
<1>3. /\ d \in {0, 1}
      /\ \A n \in DOMAIN c2s[v] : n \in Nat \ {0}
      /\ \A n \in DOMAIN c2s'[v] : n \in Nat \ {0} /\ n + d \in DOMAIN c2s[v] /\ c2s'[v][n] = c2s[v][n + d]
      /\ \A n \in DOMAIN c2s[v] : n > d => n - d \in DOMAIN c2s'[v] /\ c2s'[v][n - d] = c2s[v][n]
      /\ d = 1 => c2s[v][1].kind \notin {"setNickname", "joinRoom", "leaveRoom"}
  BY DEF Still, Drops
<1>4. /\ \A n \in DOMAIN s2c[v] : n \in DOMAIN s2c'[v] /\ s2c'[v][n] = s2c[v][n]
      /\ \A n \in DOMAIN s2c'[v] : (n \in DOMAIN s2c[v] /\ s2c'[v][n] = s2c[v][n]) \/ Hears(v, s2c'[v][n])
  BY DEF Grows
<1>5. \A n \in DOMAIN s2c'[v] : Answering(s2c'[v][n]) \/ s2c'[v][n].kind \in {"prompt", "nameFree"} =>
          n \in DOMAIN s2c[v] /\ s2c'[v][n] = s2c[v][n]
  BY <1>4 DEF Hears, Answering
<1>6. Answered(v)' <=> Answered(v)
  BY <1>4, <1>5 DEF Answered
<1>7. Entering(v)' <=> Entering(v)
  BY <1>4, <1>5 DEF Entering, EnterOk, Answering
<1>8. Leaves(v)' <=> Leaves(v)
  <2>1. Leaves(v)' => Leaves(v)
    BY <1>3 DEF Leaves
  <2>2. ASSUME NEW n \in DOMAIN c2s[v], c2s[v][n].kind = "leaveRoom"
        PROVE  n > d
    BY <1>3, <2>2
  <2>3. Leaves(v) => Leaves(v)'
    BY <1>3, <2>2 DEF Leaves
  <2> QED
    BY <2>1, <2>3
<1>9. (InHand(v)' <=> InHand(v)) /\ (Stays(v)' <=> Stays(v)) /\ (Enters(v)' <=> Enters(v))
  BY <1>2 DEF InHand, Stays, Enters
<1>10. Within(v)' <=> Within(v)
  BY <1>7, <1>8, <1>9 DEF Within
<1>11. Within(v) => Home(v)' = Home(v)
  BY <1>2, WithinKnown DEF Still, Home
<1>12. DOMAIN c2s[v] = {} => DOMAIN c2s'[v] = {}
  BY <1>3
<1>13. QuestionInv(v)'
  <2>1. ASSUME NEW n \in DOMAIN c2s'[v], Asking(c2s'[v][n])
        PROVE  asked'[v] /\ ~InHand(v)' /\ ~Answered(v)' /\ \A m \in DOMAIN c2s'[v] : m <= n
    <3>1. n + d \in DOMAIN c2s[v] /\ Asking(c2s[v][n + d])
      BY <1>3, <2>1
    <3>2. asked[v] /\ ~InHand(v) /\ ~Answered(v) /\ \A m \in DOMAIN c2s[v] : m <= n + d
      BY <1>1, <3>1 DEF QuestionInv
    <3> QED
      BY <1>2, <1>3, <1>6, <1>9, <3>2
  <2>2. InHand(v)' => asked'[v] /\ ~Answered(v)' /\ DOMAIN c2s'[v] = {}
    BY <1>1, <1>2, <1>6, <1>9, <1>12 DEF QuestionInv
  <2>3. ASSUME NEW n \in DOMAIN s2c'[v], Answering(s2c'[v][n])
        PROVE  /\ asked'[v] /\ DOMAIN c2s'[v] = {}
               /\ \A m \in DOMAIN s2c'[v] : Answering(s2c'[v][m]) => m = n
    BY <1>1, <1>2, <1>5, <1>12, <2>3 DEF QuestionInv
  <2> QED
    BY <2>1, <2>2, <2>3 DEF QuestionInv
<1>14. StateInv(v)'
  <2>1. \A n \in DOMAIN c2s'[v] :
          /\ c2s'[v][n].kind = "setNickname" => state'[v] = "WaitingNickname"
          /\ c2s'[v][n].kind = "joinRoom" => state'[v] = "Lobby"
    BY <1>1, <1>2, <1>3 DEF StateInv
  <2>2. \A n \in DOMAIN s2c'[v] :
          /\ s2c'[v][n].kind \in {"nameTaken", "nameFree"} => state'[v] = "WaitingNickname"
          /\ s2c'[v][n].kind = "enterRoom" => state'[v] = "Lobby"
    BY <1>1, <1>2, <1>5 DEF StateInv, Answering
  <2> QED
    BY <1>1, <1>2, <2>1, <2>2 DEF StateInv
<1>15. NameInv(v)'
  <2>1. \A id \in DOMAIN players' : Owns(v, id)' => id \in DOMAIN players /\ Owns(v, id)
    BY DEF Still, Owns
  <2>2. Unnamed(v) => Unnamed(v)'
    BY <2>1 DEF Unnamed
  <2>3. TellsId(v) => TellsId(v)'
    BY <1>4 DEF TellsId
  <2>4. \A n \in DOMAIN c2s'[v] : c2s'[v][n].kind = "setNickname" => Unnamed(v)'
    BY <1>1, <1>3, <2>2 DEF NameInv
  <2>5. \A m, n \in DOMAIN s2c'[v] : s2c'[v][m].kind = "prompt" =>
          myId'[v] = 0 /\ (s2c'[v][n].kind = "nameFree" => m < n)
    BY <1>1, <1>2, <1>5 DEF NameInv
  <2>6. \A i, j \in DOMAIN players' : Owns(v, i)' /\ Owns(v, j)' => i = j
    BY <1>1, <2>1 DEF NameInv
  <2> QED
    BY <1>1, <1>2, <2>2, <2>3, <2>4, <2>5, <2>6 DEF NameInv
<1>16. LeaveInv(v)'
  <2>1. ASSUME NEW n \in DOMAIN c2s'[v], c2s'[v][n].kind = "leaveRoom"
        PROVE  /\ ~Stays(v)'
               /\ \A m \in DOMAIN c2s'[v] : m > n => c2s'[v][m].kind \notin {"chatRoom", "leaveRoom"}
    <3>1. n + d \in DOMAIN c2s[v] /\ c2s[v][n + d].kind = "leaveRoom"
      BY <1>3, <2>1
    <3>2. ~Stays(v) /\ \A m \in DOMAIN c2s[v] : m > n + d => c2s[v][m].kind \notin {"chatRoom", "leaveRoom"}
      BY <1>1, <3>1 DEF LeaveInv
    <3> QED
      BY <1>3, <1>9, <3>2
  <2>2. \A n \in DOMAIN c2s'[v] : c2s'[v][n].kind = "chatRoom" => Stays(v)' \/ Leaves(v)'
    BY <1>1, <1>3, <1>8, <1>9 DEF LeaveInv
  <2> QED
    BY <1>1, <1>2, <1>6, <1>7, <1>8, <1>9, <2>1, <2>2 DEF LeaveInv
<1>17. AimInv(v)'
  <2>1. \A n \in DOMAIN c2s'[v] : c2s'[v][n].kind = "joinRoom" => c2s'[v][n].room = aim'[v]
    BY <1>1, <1>2, <1>3 DEF AimInv
  <2>2. Entering(v)' \/ Stays(v)' \/ (leaving'[v] /\ Leaves(v)') => Home(v)' = aim'[v]
    BY <1>1, <1>2, <1>7, <1>8, <1>9, <1>11 DEF AimInv, Within
  <2> QED
    BY <1>1, <1>2, <2>1, <2>2 DEF AimInv
<1>18. HearInv(v)'
  <2>1. ASSUME NEW n \in DOMAIN s2c'[v], s2c'[v][n].kind = "chatRoom",
               state[v] = "InRoom" \/ \E m \in DOMAIN s2c[v] : m < n /\ EnterOk(s2c[v][m])
        PROVE  s2c'[v][n].room = aim[v]
    <3>1. CASE n \in DOMAIN s2c[v] /\ s2c'[v][n] = s2c[v][n]
      BY <1>1, <2>1, <3>1 DEF HearInv
    <3>2. CASE Hears(v, s2c'[v][n])
      <4>1. PICK id : /\ crashed = {} /\ live[v] = "yes" /\ Owns(v, id)
                      /\ s2c'[v][n].room \in DOMAIN members /\ id \in members[s2c'[v][n].room]
        BY <2>1, <3>2 DEF Hears
      <4>2. Within(v) /\ s2c'[v][n].room = Home(v)
        BY <1>1, <4>1 DEF PlaceInv, Owns
      <4>3. CASE state[v] = "InRoom"
        <5>1. Stays(v) \/ leaving[v]
          BY <4>3 DEF Stays
        <5>2. leaving[v] => ~asked[v]
          BY <1>1 DEF StateInv
        <5>3. leaving[v] => ~Entering(v)
          BY <1>1, <5>2 DEF QuestionInv, Entering, EnterOk, Answering
        <5>4. leaving[v] /\ Enters(v) => Entering(v) \/ Stays(v) \/ Leaves(v)
          BY <1>1, <4>3 DEF LeaveInv, Enters, StateInv
        <5>5. Stays(v) \/ (leaving[v] /\ Leaves(v))
          BY <4>2, <5>1, <5>3, <5>4 DEF Within
        <5> QED
          BY <1>1, <4>2, <5>5 DEF AimInv
      <4>4. CASE \E m \in DOMAIN s2c[v] : m < n /\ EnterOk(s2c[v][m])
        BY <1>1, <4>2, <4>4 DEF AimInv, Entering
      <4> QED
        BY <2>1, <4>3, <4>4
    <3> QED
      BY <1>4, <3>1, <3>2
  <2>2. \A m \in DOMAIN s2c'[v] : EnterOk(s2c'[v][m]) => m \in DOMAIN s2c[v] /\ EnterOk(s2c[v][m])
    BY <1>5 DEF EnterOk, Answering
  <2> QED
    BY <1>2, <2>1, <2>2 DEF HearInv
<1>19. PlaceInv(v)'
  <2> SUFFICES ASSUME NEW id \in DOMAIN players', Owns(v, id)'
               PROVE  /\ \A q, r \in DOMAIN members' : id \in members'[q] /\ id \in members'[r] => q = r
                      /\ crashed' = {} /\ live'[v] = "yes" =>
                            /\ \A r \in DOMAIN members' : id \in members'[r] <=> Within(v)' /\ r = Home(v)'
                            /\ Within(v)' => RoomExists(Home(v))'
    BY DEF PlaceInv
  <2>1. id \in DOMAIN players /\ Owns(v, id)
    BY DEF Still, Owns
  <2>2. \A r : r \in DOMAIN members' /\ id \in members'[r] <=> r \in DOMAIN members /\ id \in members[r]
    BY <2>1 DEF SameRooms
  <2>3. \A q, r \in DOMAIN members' : id \in members'[q] /\ id \in members'[r] => q = r
    BY <1>1, <2>1, <2>2 DEF PlaceInv
  <2>4. ASSUME crashed' = {}, live'[v] = "yes"
        PROVE  /\ \A r \in DOMAIN members' : id \in members'[r] <=> Within(v)' /\ r = Home(v)'
               /\ Within(v)' => RoomExists(Home(v))'
    <3>1. crashed = {} /\ live[v] = "yes"
      BY <1>2, <2>4
    <3>2. /\ \A r \in DOMAIN members : id \in members[r] <=> Within(v) /\ r = Home(v)
          /\ Within(v) => RoomExists(Home(v))
      BY <1>1, <2>1, <3>1 DEF PlaceInv
    <3>3. DOMAIN members = DOMAIN rooms /\ DOMAIN rooms \subseteq DOMAIN rooms'
      BY DEF IInv, TypeInv, ServerTypes, Still
    <3>4. Within(v)' => RoomExists(Home(v))'
      BY <1>10, <1>11, <3>2, <3>3 DEF RoomExists
    <3>5. ASSUME NEW r \in DOMAIN members'
          PROVE  id \in members'[r] <=> Within(v)' /\ r = Home(v)'
      <4>1. id \in members'[r] => Within(v)' /\ r = Home(v)'
        BY <1>10, <1>11, <2>2, <3>2
      <4>2. Within(v)' /\ r = Home(v)' => id \in members'[r]
        BY <1>10, <1>11, <2>2, <3>2, <3>3 DEF RoomExists
      <4> QED
        BY <4>1, <4>2
    <3> QED
      BY <3>4, <3>5
  <2> QED
    BY <2>3, <2>4
<1> QED
  BY <1>13, <1>14, <1>15, <1>16, <1>17, <1>18, <1>19 DEF Settled

\* Nothing that is v's changes.
LEMMA UntouchedStep ==
    ASSUME IInv, NEW v \in Users, Settled(v), players' = players, rooms' = rooms, members' = members,
           handler'[v] = handler[v], live'[v] = live[v], state'[v] = state[v], myId'[v] = myId[v],
           leaving'[v] = leaving[v], asked'[v] = asked[v], aim'[v] = aim[v],
           c2s'[v] = c2s[v], s2c'[v] = s2c[v], crashed' = {} => crashed = {}
    PROVE  Settled(v)'
<1>1. c2s[v] \in Seq(Request)
  BY DEF IInv, TypeInv, QueueTypes
<1>2. Drops(c2s[v], c2s'[v], 0)
  BY <1>1, SameDrops
<1>3. Still(v, 0)
  BY <1>2 DEF Still, Owns
<1>4. SameRooms(v)
  BY DEF SameRooms
<1>5. Grows(s2c[v], s2c'[v], {})
  BY SameGrows
<1> QED
  BY <1>3, <1>4, <1>5, StillStep

\* t is s and one more packet.
Adds(s, t, k, p) ==
    /\ k \in Nat \ {0} /\ k \notin DOMAIN s /\ DOMAIN t = DOMAIN s \cup {k} /\ t[k] = p
    /\ \A n \in DOMAIN s : n \in Nat \ {0} /\ n < k /\ t[n] = s[n]

LEMMA ConcatAdds ==
    ASSUME NEW S, NEW s \in Seq(S), NEW p \in S
    PROVE  /\ Adds(s, s \o <<p>>, Len(s) + 1, p) /\ s \o <<p>> \in Seq(S)
           /\ Adds(s, Append(s, p), Len(s) + 1, p) /\ Append(s, p) \in Seq(S)
<1>1. PICK q : q = <<p>>
  OBVIOUS
<1>2. q \in Seq(S) /\ Len(q) = 1 /\ q[1] = p
  BY <1>1
<1>3. PICK t : t = s \o q
  OBVIOUS
<1>4. PICK a : a = Append(s, p)
  OBVIOUS
<1>5. /\ Len(s) \in Nat /\ DOMAIN s = 1 .. Len(s) /\ DOMAIN t = 1 .. Len(t) /\ Len(t) = Len(s) + 1
      /\ t \in Seq(S) /\ \A i \in 1 .. Len(s) + 1 : t[i] = IF i <= Len(s) THEN s[i] ELSE q[i - Len(s)]
  <2>1. /\ t \in Seq(S) /\ Len(t) = Len(s) + Len(q)
        /\ \A i \in 1 .. Len(s) + Len(q) : t[i] = IF i <= Len(s) THEN s[i] ELSE q[i - Len(s)]
    BY <1>2, <1>3, ConcatProperties
  <2>2. Len(s) \in Nat /\ DOMAIN s = 1 .. Len(s) /\ DOMAIN t = 1 .. Len(t)
    BY <2>1
  <2> QED
    BY <1>2, <2>1, <2>2
<1>6. /\ a \in Seq(S) /\ DOMAIN a = 1 .. Len(s) + 1 /\ a[Len(s) + 1] = p
      /\ \A i \in 1 .. Len(s) : a[i] = s[i]
  BY <1>4, AppendProperties
<1>7. t[Len(s) + 1] = p /\ \A i \in 1 .. Len(s) : t[i] = s[i]
  <2>1. Len(s) + 1 \in 1 .. Len(s) + 1 /\ ~(Len(s) + 1 <= Len(s)) /\ (Len(s) + 1) - Len(s) = 1
    BY <1>5
  <2> QED
    BY <1>2, <1>5, <2>1
<1>8. Adds(s, t, Len(s) + 1, p)
  BY <1>5, <1>7 DEF Adds
<1>9. Adds(s, a, Len(s) + 1, p)
  BY <1>5, <1>6 DEF Adds
<1> QED
  BY <1>1, <1>3, <1>4, <1>5, <1>6, <1>8, <1>9

LEMMA SendAdds ==
    ASSUME TypeInv, NEW u \in Users, NEW p \in Answer, Send(u, <<p>>)
    PROVE  /\ \E k : Adds(s2c[u], s2c'[u], k, p)
           /\ \A v \in Users \ {u} : s2c'[v] = s2c[v]
<1>1. s2c' = [s2c EXCEPT ![u] = s2c[u] \o <<p>>] /\ s2c[u] \in Seq(Answer) /\ s2c \in [Users -> Seq(Answer)]
  BY DEF Send, TypeInv, QueueTypes
<1>2. PICK t : t = s2c[u] \o <<p>>
  OBVIOUS
<1>3. s2c'[u] = t /\ \A v \in Users \ {u} : s2c'[v] = s2c[v]
  BY <1>1, <1>2
<1>4. Adds(s2c[u], t, Len(s2c[u]) + 1, p)
  BY <1>1, <1>2, ConcatAdds
<1> QED
  BY <1>3, <1>4

-----------------------------------------------------------------------------
(* Steps of a user's own handler *)

\* The others, while u's handler does something about u's player, and to u.
LEMMA OthersStill ==
    ASSUME IInv, NEW u \in Users, NEW v \in Users \ {u}, Settled(v), UNCHANGED <<live, client>>,
           handler'[v] = handler[v], c2s'[v] = c2s[v], DOMAIN rooms \subseteq DOMAIN rooms',
           \A id : Owns(v, id)' <=> Owns(v, id),
           \A id : Owns(v, id) => players'[id].roomId = players[id].roomId,
           SameRooms(v),
           NEW E, Grows(s2c[v], s2c'[v], E), \A p \in E : Hears(v, p), crashed = {}
    PROVE  Settled(v)'
<1>1. c2s[v] \in Seq(Request)
  BY DEF IInv, TypeInv, QueueTypes
<1>2. Drops(c2s[v], c2s'[v], 0)
  BY <1>1, SameDrops
<1>3. Still(v, 0)
  BY <1>2 DEF Still, client, user
<1> QED
  BY <1>3, StillStep

LEMMA SetNicknameSettled ==
    ASSUME IInv, NEW u \in Users, HandleSetNickname(u),
           \A v \in Users \ hasty : Settled(v)
    PROVE  \A v \in Users \ hasty' : Settled(v)'
<1>1. /\ Takes(u, "setNickname") /\ rooms' = rooms /\ members' = members /\ live' = live
      /\ crashed' = crashed /\ s2c' = s2c /\ state' = state /\ myId' = myId /\ leaving' = leaving
      /\ asked' = asked /\ aim' = aim /\ hasty' = hasty /\ UNCHANGED client
  BY DEF HandleSetNickname, client, user
<1>2. /\ crashed = {} /\ live[u] = "yes" /\ handler[u] = Idle /\ 1 \in DOMAIN c2s[u]
      /\ c2s[u][1].kind = "setNickname" /\ \A v \in Users \ {u} : c2s'[v] = c2s[v]
      /\ Drops(c2s[u], c2s'[u], 1)
  BY <1>1, TakesFirst, TakesDrops DEF IInv
<1>3. /\ handler'[u].at \in {"nameTaken", "nameFree"}
      /\ \A v \in Users \ {u} : handler'[v] = handler[v]
  <2>1. CASE NameTaken(Head(c2s[u]).name)
    BY <2>1 DEF HandleSetNickname, Goto, IInv, TypeInv, ServerTypes
  <2>2. CASE ~NameTaken(Head(c2s[u]).name)
    BY <2>2 DEF HandleSetNickname, Goto, IInv, TypeInv, ServerTypes
  <2> QED
    BY <2>1, <2>2
<1>4. \A v \in Users : \A id : /\ Owns(v, id)' <=> Owns(v, id)
                               /\ Owns(v, id) => players'[id].roomId = players[id].roomId
  <2>1. CASE NameTaken(Head(c2s[u]).name)
    BY <2>1 DEF HandleSetNickname, Owns
  <2>2. CASE ~NameTaken(Head(c2s[u]).name)
    <3>1. PICK p : p = [name |-> Head(c2s[u]).name, session |-> NoUser, roomId |-> 0]
      OBVIOUS
    <3>2. players' = Append(players, p) /\ p.session = NoUser
      BY <2>2, <3>1 DEF HandleSetNickname
    <3>3. PICK k \in Nat : k = Len(players) /\ DOMAIN players = 1 .. k
      BY DEF IInv, TypeInv, ServerTypes
    <3>4. Head(c2s[u]).name \in Names
      BY <1>1, TakesFirst, RequestFields DEF IInv
    <3>5. p \in Player
      BY <3>1, <3>4 DEF Player
    <3>6. DOMAIN players' = 1 .. k + 1 /\ players'[k + 1] = p /\ \A i \in 1 .. k : players'[i] = players[i]
      BY <3>2, <3>3, <3>5, AppendProperties DEF IInv, TypeInv, ServerTypes
    <3>7. \A i \in 1 .. k + 1 : i = k + 1 \/ i \in 1 .. k
      OBVIOUS
    <3>8. \A v \in Users : v # NoUser
      BY UsersAssumption
    <3> QED
      BY <3>2, <3>3, <3>6, <3>7, <3>8 DEF Owns
  <2> QED
    BY <2>1, <2>2
<1>5. ASSUME NEW v \in Users \ {u}, Settled(v)
      PROVE  Settled(v)'
  <2>1. Grows(s2c[v], s2c'[v], {})
    BY <1>1, SameGrows
  <2>2. SameRooms(v)
    BY <1>1 DEF SameRooms
  <2> QED
    BY <1>1, <1>2, <1>3, <1>4, <1>5, <2>1, <2>2, OthersStill
<1>6. ASSUME Settled(u)
      PROVE  Settled(u)'
  <2>1. /\ QuestionInv(u) /\ StateInv(u) /\ NameInv(u) /\ LeaveInv(u) /\ AimInv(u) /\ HearInv(u)
        /\ PlaceInv(u)
    BY <1>6 DEF Settled
  <2>2. /\ asked[u] /\ ~Answered(u) /\ \A n \in DOMAIN c2s[u] : n <= 1
        /\ state[u] = "WaitingNickname" /\ Unnamed(u) /\ ~leaving[u]
    BY <1>2, <2>1 DEF QuestionInv, StateInv, NameInv, Asking
  <2>3. DOMAIN c2s'[u] = {}
    BY <1>2, <2>2 DEF Drops
  <2>4. Unnamed(u)'
    BY <1>4, <2>2 DEF Unnamed, Owns
  <2>5. QuestionInv(u)'
    BY <1>1, <1>3, <2>2, <2>3 DEF QuestionInv, Answered
  <2>6. StateInv(u)'
    BY <1>1, <1>3, <2>1, <2>2, <2>3 DEF StateInv
  <2>7. NameInv(u)'
    BY <1>1, <1>3, <2>1, <2>3, <2>4 DEF NameInv, Unnamed
  <2>8. LeaveInv(u)'
    BY <1>3, <2>3 DEF LeaveInv
  <2>9. AimInv(u)'
    BY <1>1, <1>3, <2>2, <2>3 DEF AimInv, Entering, Stays, EnterOk, Answered, Answering
  <2>10. HearInv(u)'
    BY <1>1, <2>1 DEF HearInv
  <2>11. PlaceInv(u)'
    BY <2>4 DEF PlaceInv, Unnamed
  <2> QED
    BY <2>5, <2>6, <2>7, <2>8, <2>9, <2>10, <2>11 DEF Settled
<1> QED
  BY <1>1, <1>5, <1>6

LEMMA AnswerNameTakenSettled ==
    ASSUME IInv, NEW u \in Users, AnswerNameTaken(u),
           \A v \in Users \ hasty : Settled(v)
    PROVE  \A v \in Users \ hasty' : Settled(v)'
<1>1. PICK a, b : a = [kind |-> "nameTaken"] /\ b = [kind |-> "prompt"]
  OBVIOUS
<1>2. /\ crashed = {} /\ handler[u].at = "nameTaken" /\ Send(u, <<a, b>>) /\ Goto(u, Idle)
      /\ players' = players /\ rooms' = rooms /\ members' = members /\ live' = live
      /\ crashed' = crashed /\ c2s' = c2s /\ state' = state /\ myId' = myId /\ leaving' = leaving
      /\ asked' = asked /\ aim' = aim /\ hasty' = hasty
  BY <1>1 DEF AnswerNameTaken, At, tables, client, user
<1>3. handler'[u].at = "idle" /\ \A v \in Users \ {u} : handler'[v] = handler[v]
  BY <1>2, IdlePlace DEF Goto, IInv, TypeInv, ServerTypes
<1>4. a \in Answer /\ a.kind = "nameTaken" /\ b \in Answer /\ b.kind = "prompt"
  BY <1>1, Records
<1>5. \E k \in Nat \ {0} :
          /\ DOMAIN s2c'[u] = DOMAIN s2c[u] \cup {k, k + 1} /\ s2c'[u][k] = a /\ s2c'[u][k + 1] = b
          /\ \A n \in DOMAIN s2c[u] : n \in Nat \ {0} /\ n < k /\ s2c'[u][n] = s2c[u][n]
  <2>1. PICK s \in Seq(Answer) : s = s2c[u]
    BY DEF IInv, TypeInv, QueueTypes
  <2>2. PICK q : q = <<a, b>>
    OBVIOUS
  <2>3. q \in Seq(Answer) /\ Len(q) = 2 /\ q[1] = a /\ q[2] = b
    BY <1>4, <2>2
  <2>4. PICK t : t = s \o q
    OBVIOUS
  <2>5. /\ t \in Seq(Answer) /\ Len(t) = Len(s) + Len(q)
        /\ \A i \in 1 .. Len(s) + Len(q) : t[i] = IF i <= Len(s) THEN s[i] ELSE q[i - Len(s)]
    BY <2>3, <2>4, ConcatProperties
  <2>6. PICK k \in Nat : k = Len(s) /\ DOMAIN s = 1 .. k
    OBVIOUS
  <2>7. DOMAIN t = 1 .. k + 2
    BY <2>3, <2>5, <2>6
  <2>8. /\ t[k + 1] = a /\ t[k + 2] = b /\ \A i \in 1 .. k : t[i] = s[i]
    <3>1. /\ k + 1 \in 1 .. k + 2 /\ ~(k + 1 <= k) /\ (k + 1) - k = 1
          /\ k + 2 \in 1 .. k + 2 /\ ~(k + 2 <= k) /\ (k + 2) - k = 2
      OBVIOUS
    <3> QED
      BY <2>3, <2>5, <2>6, <3>1
  <2>9. s2c'[u] = t
    BY <1>2, <2>1, <2>2, <2>4 DEF Send, IInv, TypeInv, QueueTypes
  <2>10. 1 .. k + 2 = 1 .. k \cup {k + 1, (k + 1) + 1} /\ k + 1 \in Nat \ {0} /\ (k + 1) + 1 = k + 2
    OBVIOUS
  <2>11. /\ DOMAIN s2c'[u] = DOMAIN s2c[u] \cup {k + 1, (k + 1) + 1}
         /\ s2c'[u][k + 1] = a /\ s2c'[u][(k + 1) + 1] = b
    BY <2>1, <2>6, <2>7, <2>8, <2>9, <2>10
  <2>12. \A n \in DOMAIN s2c[u] : n \in Nat \ {0} /\ n < k + 1 /\ s2c'[u][n] = s2c[u][n]
    BY <2>1, <2>6, <2>8, <2>9
  <2> QED
    BY <2>10, <2>11, <2>12
<1>6. \A v \in Users \ {u} : s2c'[v] = s2c[v]
  BY <1>2 DEF Send, IInv, TypeInv, QueueTypes
<1>7. ASSUME NEW v \in Users \ {u}, Settled(v)
      PROVE  Settled(v)'
  BY <1>2, <1>3, <1>6, <1>7, UntouchedStep
<1>8. ASSUME Settled(u)
      PROVE  Settled(u)'
  <2>1. /\ QuestionInv(u) /\ StateInv(u) /\ NameInv(u) /\ LeaveInv(u) /\ AimInv(u) /\ HearInv(u)
        /\ PlaceInv(u)
    BY <1>8 DEF Settled
  <2>2. PICK k \in Nat \ {0} :
          /\ DOMAIN s2c'[u] = DOMAIN s2c[u] \cup {k, k + 1} /\ s2c'[u][k] = a /\ s2c'[u][k + 1] = b
          /\ \A n \in DOMAIN s2c[u] : n \in Nat \ {0} /\ n < k /\ s2c'[u][n] = s2c[u][n]
    BY <1>5
  <2>3. s2c'[u][k].kind = "nameTaken" /\ s2c'[u][k + 1].kind = "prompt"
    BY <1>4, <2>2
  <2>4. /\ asked[u] /\ DOMAIN c2s[u] = {} /\ ~leaving[u] /\ state[u] = "WaitingNickname" /\ Unnamed(u)
        /\ \A n \in DOMAIN s2c[u] : ~Answering(s2c[u][n])
    BY <1>2, <2>1 DEF QuestionInv, InHand, Answered, StateInv, NameInv
  <2>5. \A n \in DOMAIN s2c'[u] : Answering(s2c'[u][n]) => n = k
    BY <2>2, <2>3, <2>4 DEF Answering
  <2>6. myId[u] = 0
    BY <2>1, <2>4 DEF NameInv
  <2>7. QuestionInv(u)'
    BY <1>2, <1>3, <2>4, <2>5 DEF QuestionInv, InHand
  <2>8. StateInv(u)'
    BY <1>2, <1>3, <2>1, <2>2, <2>3, <2>4 DEF StateInv, Answering
  <2>9. NameInv(u)'
    BY <1>2, <1>3, <2>1, <2>2, <2>3, <2>4, <2>6 DEF NameInv, Unnamed, Owns, Answering
  <2>10. LeaveInv(u)'
    BY <1>2, <1>3, <2>4 DEF LeaveInv
  <2>11. AimInv(u)'
    BY <1>2, <1>3, <2>2, <2>3, <2>4 DEF AimInv, Entering, Stays, EnterOk, Answering
  <2>12. HearInv(u)'
    BY <1>2, <2>2, <2>3, <2>4 DEF HearInv, EnterOk, Answering
  <2>13. PlaceInv(u)'
    BY <1>2, <2>4 DEF PlaceInv, Unnamed, Owns
  <2> QED
    BY <2>7, <2>8, <2>9, <2>10, <2>11, <2>12, <2>13 DEF Settled
<1> QED
  BY <1>2, <1>7, <1>8

\* u's new player has been in no room.
LEMMA AnswerNameFreeSettled ==
    ASSUME IInv, SessionInv, NEW u \in Users, AnswerNameFree(u),
           \A v \in Users \ hasty : Settled(v)
    PROVE  \A v \in Users \ hasty' : Settled(v)'
<1>1. PICK id, p : id = handler[u].id /\ p = [kind |-> "nameFree", id |-> id]
  OBVIOUS
<1>2. /\ crashed = {} /\ handler[u].at = "nameFree" /\ Send(u, <<p>>) /\ Goto(u, Idle)
      /\ players' = [players EXCEPT ![id].session = u] /\ rooms' = rooms /\ members' = members
      /\ live' = live /\ crashed' = crashed /\ c2s' = c2s /\ state' = state /\ myId' = myId
      /\ leaving' = leaving /\ asked' = asked /\ aim' = aim /\ hasty' = hasty /\ UNCHANGED client
  BY <1>1 DEF AnswerNameFree, At, client, user
<1>3. handler'[u].at = "idle" /\ \A v \in Users \ {u} : handler'[v] = handler[v]
  BY <1>2, IdlePlace DEF Goto, IInv, TypeInv, ServerTypes
<1>4. TypeInv /\ Owns(NoUser, id)
  BY <1>1, <1>2 DEF IInv, FreshInv
<1>5. PICK k \in Nat : k = Len(players) /\ DOMAIN players = 1 .. k /\ \A i \in 1 .. k : players[i] \in Player
  BY <1>4 DEF TypeInv, ServerTypes
<1>6. id \in 1 .. k /\ players[id].session = NoUser /\ \A v \in Users : v # NoUser
  BY <1>4, <1>5, UsersAssumption DEF Owns
<1>7. /\ DOMAIN players' = 1 .. k /\ players'[id].session = u
      /\ \A i \in (1 .. k) \ {id} : players'[i] = players[i]
  BY <1>2, <1>4, <1>5, <1>6 DEF TypeInv, ServerTypes, Player
<1>8. p \in Answer /\ p.kind = "nameFree" /\ p.id = id
  BY <1>1, <1>6, Records
<1>9. /\ \E n : Adds(s2c[u], s2c'[u], n, p)
      /\ \A v \in Users \ {u} : s2c'[v] = s2c[v]
  BY <1>2, <1>4, <1>8, SendAdds
<1>10. ASSUME NEW v \in Users \ {u}, Settled(v)
       PROVE  Settled(v)'
  <2>1. Grows(s2c[v], s2c'[v], {})
    BY <1>9, SameGrows
  <2>2. SameRooms(v)
    BY <1>2 DEF SameRooms
  <2>3. \A i : /\ Owns(v, i)' <=> Owns(v, i)
               /\ Owns(v, i) => players'[i].roomId = players[i].roomId
    BY <1>5, <1>6, <1>7 DEF Owns
  <2> QED
    BY <1>2, <1>3, <1>10, <2>1, <2>2, <2>3, OthersStill
<1>11. ASSUME Settled(u)
       PROVE  Settled(u)'
  <2>1. /\ QuestionInv(u) /\ StateInv(u) /\ NameInv(u) /\ LeaveInv(u) /\ AimInv(u) /\ HearInv(u)
        /\ PlaceInv(u)
    BY <1>11 DEF Settled
  <2>2. PICK m : Adds(s2c[u], s2c'[u], m, p)
    BY <1>9
  <2>3. /\ m \in Nat \ {0} /\ DOMAIN s2c'[u] = DOMAIN s2c[u] \cup {m} /\ s2c'[u][m] = p
        /\ \A n \in DOMAIN s2c[u] : n \in Nat \ {0} /\ n < m /\ s2c'[u][n] = s2c[u][n]
    BY <2>2 DEF Adds
  <2>4. /\ asked[u] /\ DOMAIN c2s[u] = {} /\ ~leaving[u] /\ state[u] = "WaitingNickname" /\ Unnamed(u)
        /\ \A n \in DOMAIN s2c[u] : ~Answering(s2c[u][n])
    BY <1>2, <2>1 DEF QuestionInv, InHand, Answered, StateInv, NameInv
  <2>5. myId[u] = 0
    BY <2>1, <2>4 DEF NameInv
  <2>6. \A n \in DOMAIN s2c'[u] : Answering(s2c'[u][n]) => n = m
    BY <2>3, <2>4
  <2>7. \A i \in DOMAIN players' : Owns(u, i)' => i = id
    BY <1>5, <1>7, <2>4 DEF Owns, Unnamed
  <2>8. \A r \in DOMAIN members : id \notin members[r]
    BY <1>6 DEF SessionInv
  <2>9. QuestionInv(u)'
    BY <1>2, <1>3, <2>4, <2>6 DEF QuestionInv, InHand
  <2>10. StateInv(u)'
    BY <1>2, <1>3, <1>8, <2>1, <2>3, <2>4 DEF StateInv, Answering
  <2>11. NameInv(u)'
    <3>1. TellsId(u)'
      BY <1>8, <2>3 DEF TellsId
    <3>2. \A i, n \in DOMAIN s2c'[u] : s2c'[u][i].kind = "prompt" =>
            myId'[u] = 0 /\ (s2c'[u][n].kind = "nameFree" => i < n)
      BY <1>2, <1>8, <2>3, <2>4, <2>5 DEF Answering
    <3> QED
      BY <1>2, <1>3, <2>4, <2>5, <2>7, <3>1, <3>2 DEF NameInv
  <2>12. LeaveInv(u)'
    BY <1>2, <1>3, <2>4 DEF LeaveInv
  <2>13. ~Entering(u)' /\ ~Stays(u)' /\ ~Leaves(u)' /\ ~Enters(u)'
    BY <1>2, <1>3, <1>8, <2>3, <2>4 DEF Entering, Stays, Leaves, Enters, EnterOk, Answering
  <2>14. AimInv(u)'
    BY <1>2, <1>3, <2>4, <2>13 DEF AimInv
  <2>15. HearInv(u)'
    BY <1>2, <1>8, <2>3, <2>4 DEF HearInv, EnterOk, Answering
  <2>16. PlaceInv(u)'
    <3>1. ~Within(u)'
      BY <2>13 DEF Within
    <3> QED
      BY <1>2, <2>7, <2>8, <3>1 DEF PlaceInv
  <2> QED
    BY <2>9, <2>10, <2>11, <2>12, <2>14, <2>15, <2>16 DEF Settled
<1> QED
  BY <1>2, <1>10, <1>11

\* The handlers of RequestRoomList and CreateRoom only answer.
LEMMA ShowSettled ==
    ASSUME IInv, NEW u \in Users, NEW k \in {"requestRoomList", "createRoom"}, Takes(u, k),
           NEW p \in Answer, p.kind \in {"roomList", "createRoom"}, Send(u, <<p>>),
           UNCHANGED <<players, live, handler, crashed, client>>,
           DOMAIN rooms \subseteq DOMAIN rooms',
           \A id, r : r \in DOMAIN members' /\ id \in members'[r] <=> r \in DOMAIN members /\ id \in members[r],
           \A v \in Users \ hasty : Settled(v)
    PROVE  \A v \in Users \ hasty' : Settled(v)'
<1>1. /\ state' = state /\ myId' = myId /\ leaving' = leaving /\ asked' = asked /\ aim' = aim
      /\ hasty' = hasty
  BY DEF client, user
<1>2. /\ crashed = {} /\ c2s[u][1].kind = k /\ \A v \in Users \ {u} : c2s'[v] = c2s[v]
      /\ Drops(c2s[u], c2s'[u], 1)
  BY TakesFirst, TakesDrops DEF IInv
<1>3. /\ \E n : Adds(s2c[u], s2c'[u], n, p)
      /\ \A v \in Users \ {u} : s2c'[v] = s2c[v]
  BY SendAdds DEF IInv
<1>4. \A v : SameRooms(v)
  BY DEF SameRooms
<1>5. ASSUME NEW v \in Users \ {u}, Settled(v)
      PROVE  Settled(v)'
  <2>1. Grows(s2c[v], s2c'[v], {})
    BY <1>3, SameGrows
  <2> QED
    BY <1>2, <1>4, <1>5, <2>1, OthersStill DEF Owns
<1>6. ASSUME Settled(u)
      PROVE  Settled(u)'
  <2>1. Still(u, 1)
    BY <1>1, <1>2 DEF Still, Owns
  <2>2. Grows(s2c[u], s2c'[u], {p})
    BY <1>3 DEF Adds, Grows
  <2>3. \A e \in {p} : Hears(u, e)
    BY DEF Hears, Answering
  <2> QED
    BY <1>4, <1>6, <2>1, <2>2, <2>3, StillStep
<1> QED
  BY <1>1, <1>5, <1>6

LEMMA RequestRoomListSettled ==
    ASSUME IInv, NEW u \in Users, HandleRequestRoomList(u),
           \A v \in Users \ hasty : Settled(v)
    PROVE  \A v \in Users \ hasty' : Settled(v)'
<1>1. PICK p : p = [kind |-> "roomList"]
  OBVIOUS
<1>2. p \in Answer /\ p.kind = "roomList"
  BY <1>1, Records
<1>3. /\ Takes(u, "requestRoomList") /\ Send(u, <<p>>)
      /\ UNCHANGED <<players, live, handler, crashed, client>> /\ rooms' = rooms /\ members' = members
  BY <1>1 DEF HandleRequestRoomList, server, tables
<1> QED
  BY <1>2, <1>3, ShowSettled

LEMMA CreateRoomSettled ==
    ASSUME IInv, NEW u \in Users, HandleCreateRoom(u),
           \A v \in Users \ hasty : Settled(v)
    PROVE  \A v \in Users \ hasty' : Settled(v)'
<1>1. PICK p : p = [kind |-> "createRoom"]
  OBVIOUS
<1>2. p \in Answer /\ p.kind = "createRoom"
  BY <1>1, Records
<1>3. PICK name : name = Head(c2s[u]).name
  OBVIOUS
<1>4. /\ Takes(u, "createRoom") /\ Send(u, <<p>>) /\ UNCHANGED <<players, live, handler, crashed, client>>
      /\ \/ rooms' = rooms /\ members' = members
         \/ rooms' = Append(rooms, name) /\ members' = Append(members, {})
  <2>1. CASE RoomNameTaken(name)
    BY <1>1, <1>3, <2>1 DEF HandleCreateRoom
  <2>2. CASE ~RoomNameTaken(name)
    BY <1>1, <1>3, <2>2 DEF HandleCreateRoom
  <2> QED
    BY <2>1, <2>2
<1>5. /\ DOMAIN rooms \subseteq DOMAIN rooms'
      /\ \A id, r : r \in DOMAIN members' /\ id \in members'[r] <=> r \in DOMAIN members /\ id \in members[r]
  <2>1. CASE rooms' = rooms /\ members' = members
    BY <2>1
  <2>2. CASE rooms' = Append(rooms, name) /\ members' = Append(members, {})
    <3>1. PICK k \in Nat : k = Len(rooms) /\ k = Len(members) /\ DOMAIN rooms = 1 .. k /\ DOMAIN members = 1 .. k
      BY DEF IInv, TypeInv, ServerTypes
    <3>2. name \in RoomNames
      BY <1>3, <1>4, TakesFirst, RequestFields DEF IInv
    <3>3. DOMAIN rooms' = 1 .. k + 1
      BY <2>2, <3>1, <3>2, AppendProperties DEF IInv, TypeInv, ServerTypes
    <3>4. {} \in SUBSET Int /\ members \in Seq(SUBSET Int)
      BY DEF IInv, TypeInv, ServerTypes
    <3>5. DOMAIN members' = 1 .. k + 1 /\ members'[k + 1] = {} /\ \A r \in 1 .. k : members'[r] = members[r]
      BY <2>2, <3>1, <3>4, AppendProperties
    <3>6. \A r \in 1 .. k + 1 : r = k + 1 \/ r \in 1 .. k
      OBVIOUS
    <3>7. 1 .. k \subseteq 1 .. k + 1
      OBVIOUS
    <3> QED
      BY <3>1, <3>3, <3>5, <3>6, <3>7
  <2> QED
    BY <1>4, <2>1, <2>2
<1> QED
  BY <1>2, <1>4, <1>5, ShowSettled

LEMMA AnswerJoinSettled ==
    ASSUME IInv, NEW u \in Users, AnswerJoin(u),
           \A v \in Users \ hasty : Settled(v)
    PROVE  \A v \in Users \ hasty' : Settled(v)'
<1>1. PICK h, e, p : h = handler[u] /\ e = h.error /\ p = [kind |-> "enterRoom", error |-> e]
  OBVIOUS
<1>2. PICK g : g = [h EXCEPT !.at = "answered"]
  OBVIOUS
<1>3. /\ crashed = {} /\ h.at = "joined" /\ Send(u, <<p>>) /\ Goto(u, g)
      /\ players' = players /\ rooms' = rooms /\ members' = members /\ live' = live
      /\ crashed' = crashed /\ c2s' = c2s /\ state' = state /\ myId' = myId /\ leaving' = leaving
      /\ asked' = asked /\ aim' = aim /\ hasty' = hasty
  BY <1>1, <1>2 DEF AnswerJoin, At, tables, client, user
<1>4. h \in Place /\ handler \in [Users -> Place]
  BY <1>1 DEF IInv, TypeInv, ServerTypes
<1>5. e \in Errors /\ g.at = "answered" /\ g.room = h.room /\ g.error = e
  BY <1>1, <1>2, <1>3, <1>4 DEF Place
<1>6. handler'[u] = g /\ \A v \in Users \ {u} : handler'[v] = handler[v]
  BY <1>3, <1>4 DEF Goto
<1>7. p \in Answer /\ p.kind = "enterRoom" /\ p.error = e
  BY <1>1, <1>5, Records
<1>8. /\ \E n : Adds(s2c[u], s2c'[u], n, p)
      /\ \A v \in Users \ {u} : s2c'[v] = s2c[v]
  BY <1>3, <1>7, SendAdds DEF IInv
<1>9. ASSUME NEW v \in Users \ {u}, Settled(v)
      PROVE  Settled(v)'
  BY <1>3, <1>6, <1>8, <1>9, UntouchedStep
<1>10. ASSUME Settled(u)
       PROVE  Settled(u)'
  <2>1. /\ QuestionInv(u) /\ StateInv(u) /\ NameInv(u) /\ LeaveInv(u) /\ AimInv(u) /\ HearInv(u)
        /\ PlaceInv(u)
    BY <1>10 DEF Settled
  <2>2. PICK m : Adds(s2c[u], s2c'[u], m, p)
    BY <1>8
  <2>3. /\ m \in Nat \ {0} /\ DOMAIN s2c'[u] = DOMAIN s2c[u] \cup {m} /\ s2c'[u][m] = p
        /\ \A n \in DOMAIN s2c[u] : n \in Nat \ {0} /\ n < m /\ s2c'[u][n] = s2c[u][n]
    BY <2>2 DEF Adds
  <2>4. /\ asked[u] /\ DOMAIN c2s[u] = {} /\ ~leaving[u] /\ state[u] = "Lobby" /\ h.room = aim[u]
        /\ \A n \in DOMAIN s2c[u] : ~Answering(s2c[u][n])
    BY <1>1, <1>3, <2>1 DEF QuestionInv, InHand, Answered, StateInv, AimInv
  <2>5. \A n \in DOMAIN s2c'[u] : Answering(s2c'[u][n]) => n = m
    BY <2>3, <2>4
  <2>6. ~Stays(u)' /\ ~Leaves(u)' /\ ~Leaves(u) /\ ~Stays(u)
    BY <1>3, <2>4 DEF Stays, Leaves
  <2>7. Enters(u) <=> e = "ok"
    BY <1>1, <1>3 DEF Enters
  <2>8. Enters(u)' <=> e = "ok"
    BY <1>5, <1>6 DEF Enters
  <2>9. ~Entering(u) /\ (Entering(u)' <=> e = "ok")
    BY <1>7, <2>3, <2>4 DEF Entering, EnterOk, Answering
  <2>10. Home(u)' = h.room /\ Home(u) = h.room
    BY <1>1, <1>3, <1>5, <1>6 DEF Home
  <2>11. QuestionInv(u)'
    BY <1>3, <1>5, <1>6, <2>4, <2>5 DEF QuestionInv, InHand
  <2>12. StateInv(u)'
    BY <1>3, <1>5, <1>6, <1>7, <2>1, <2>3, <2>4 DEF StateInv, Answering
  <2>13. NameInv(u)'
    <3>1. \A i, n \in DOMAIN s2c'[u] : s2c'[u][i].kind = "prompt" =>
            myId'[u] = 0 /\ (s2c'[u][n].kind = "nameFree" => i < n)
      BY <1>3, <1>7, <2>1, <2>3 DEF NameInv
    <3>2. TellsId(u) => TellsId(u)'
      BY <2>3 DEF TellsId
    <3> QED
      BY <1>3, <1>5, <1>6, <2>1, <2>4, <3>1, <3>2 DEF NameInv, Unnamed, Owns
  <2>14. LeaveInv(u)'
    BY <1>3, <1>5, <1>6, <2>4, <2>6, <2>8, <2>9 DEF LeaveInv
  <2>15. AimInv(u)'
    BY <1>3, <1>5, <1>6, <2>4, <2>10 DEF AimInv
  <2>16. HearInv(u)'
    BY <1>3, <1>7, <2>1, <2>3, <2>4 DEF HearInv, EnterOk, Answering
  <2>17. PlaceInv(u)'
    <3>1. Within(u)' <=> Within(u)
      BY <2>6, <2>7, <2>8, <2>9 DEF Within
    <3> QED
      BY <1>3, <2>1, <2>10, <3>1 DEF PlaceInv, Owns, RoomExists
  <2> QED
    BY <2>11, <2>12, <2>13, <2>14, <2>15, <2>16, <2>17 DEF Settled
<1> QED
  BY <1>3, <1>9, <1>10

\* The room's record of who is there, and the client's, do not change when the
\* handler catches up: the room it assigns is the one it had, and nobody who
\* has left is in any.
LEMMA RoomIdSettled ==
    ASSUME IInv, NEW u \in Users, crashed = {}, handler[u].at \in {"answered", "left"}, Goto(u, Idle),
           NEW r \in Int, players' = [players EXCEPT ![handler[u].id].roomId = r],
           handler[u].at = "answered" => r = handler[u].room,
           UNCHANGED <<rooms, members, live, crashed, c2s, s2c, client>>,
           \A v \in Users \ hasty : Settled(v)
    PROVE  \A v \in Users \ hasty' : Settled(v)'
<1>1. /\ state' = state /\ myId' = myId /\ leaving' = leaving /\ asked' = asked /\ aim' = aim
      /\ hasty' = hasty
  BY DEF client, user
<1>2. handler'[u].at = "idle" /\ \A v \in Users \ {u} : handler'[v] = handler[v]
  BY IdlePlace DEF Goto, IInv, TypeInv, ServerTypes
<1>3. PICK id : id = handler[u].id
  OBVIOUS
<1>4. Owns(u, id)
  BY <1>3 DEF IInv, KnownInv, PlaceKnown
<1>5. PICK k \in Nat : k = Len(players) /\ DOMAIN players = 1 .. k /\ \A i \in 1 .. k : players[i] \in Player
  <2>1. players \in Seq(Player)
    BY DEF IInv, TypeInv, ServerTypes
  <2> QED
    BY <2>1
<1>6. id \in 1 .. k /\ players[id].session = u
  BY <1>4, <1>5 DEF Owns
<1>7. /\ DOMAIN players' = 1 .. k /\ players'[id].session = u /\ players'[id].roomId = r
      /\ \A i \in (1 .. k) \ {id} : players'[i] = players[i]
  BY <1>3, <1>5, <1>6 DEF IInv, TypeInv, ServerTypes, Player
<1>8. \A v, i : /\ Owns(v, i)' <=> Owns(v, i)
                /\ Owns(v, i) /\ v # u => players'[i].roomId = players[i].roomId
  BY <1>5, <1>6, <1>7 DEF Owns
<1>9. ASSUME NEW v \in Users \ {u}, Settled(v)
      PROVE  Settled(v)'
  <2>1. Grows(s2c[v], s2c'[v], {})
    BY SameGrows
  <2>2. SameRooms(v)
    BY DEF SameRooms
  <2> QED
    BY <1>2, <1>8, <1>9, <2>1, <2>2, OthersStill
<1>10. ASSUME Settled(u)
       PROVE  Settled(u)'
  <2>1. /\ QuestionInv(u) /\ StateInv(u) /\ NameInv(u) /\ LeaveInv(u) /\ AimInv(u) /\ HearInv(u)
        /\ PlaceInv(u)
    BY <1>10 DEF Settled
  <2>2. /\ Answered(u)' <=> Answered(u)
        /\ Stays(u)' <=> Stays(u)
        /\ Leaves(u)' <=> Leaves(u)
        /\ Entering(u)' <=> Entering(u)
        /\ TellsId(u)' <=> TellsId(u)
        /\ Unnamed(u)' <=> Unnamed(u)
    BY <1>1, <1>5, <1>7, <1>8 DEF Answered, Stays, Leaves, Entering, TellsId, Unnamed
  <2>3. ~InHand(u)' /\ ~Enters(u)'
    BY <1>2 DEF InHand, Enters
  <2>4. Within(u)' <=> Within(u)
    <3>1. CASE handler[u].at = "answered"
      BY <2>1, <2>2, <2>3, <3>1 DEF LeaveInv, Within
    <3>2. CASE handler[u].at = "left"
      BY <2>1, <2>2, <2>3, <3>2 DEF LeaveInv, Within, Enters
    <3> QED
      BY <3>1, <3>2
  <2>5. Within(u) => Home(u)' = Home(u)
    <3>1. CASE handler[u].at = "answered"
      <4>1. Home(u) = r
        BY <3>1 DEF Home
      <4>2. Within(u) => myId[u] = id
        BY <1>4, <1>10, <2>1, WithinKnown DEF NameInv, Owns
      <4> QED
        BY <1>1, <1>2, <1>7, <4>1, <4>2 DEF Home
    <3>2. CASE handler[u].at = "left"
      BY <2>1, <3>2 DEF LeaveInv, Within, Enters, Entering, EnterOk, Answered, Answering
    <3> QED
      BY <3>1, <3>2
  <2>6. QuestionInv(u)'
    BY <1>1, <2>1, <2>2, <2>3 DEF QuestionInv
  <2>7. StateInv(u)'
    BY <1>1, <1>2, <2>1 DEF StateInv
  <2>8. NameInv(u)'
    BY <1>1, <1>2, <1>5, <1>7, <1>8, <2>1, <2>2 DEF NameInv
  <2>9. LeaveInv(u)'
    BY <1>1, <1>2, <2>1, <2>2 DEF LeaveInv
  <2>10. AimInv(u)'
    BY <1>1, <1>2, <2>1, <2>2, <2>5 DEF AimInv, Within
  <2>11. HearInv(u)'
    BY <1>1, <2>1 DEF HearInv
  <2>12. PlaceInv(u)'
    BY <1>5, <1>7, <1>8, <2>1, <2>4, <2>5 DEF PlaceInv, RoomExists
  <2> QED
    BY <2>6, <2>7, <2>8, <2>9, <2>10, <2>11, <2>12 DEF Settled
<1> QED
  BY <1>1, <1>9, <1>10

LEMMA AssignRoomSettled ==
    ASSUME IInv, NEW u \in Users, AssignRoom(u),
           \A v \in Users \ hasty : Settled(v)
    PROVE  \A v \in Users \ hasty' : Settled(v)'
<1>1. crashed = {} /\ handler[u].at = "answered" /\ UNCHANGED <<rooms, live, c2s, client>>
  BY DEF AssignRoom, At
<1>2. CASE handler[u].error = "roomNotFound"
  <2>1. UNCHANGED <<players, members, handler, s2c>>
    BY <1>2 DEF AssignRoom, Crash
  <2> QED
    BY <1>1, <2>1, UntouchedStep DEF client, user
<1>3. CASE handler[u].error # "roomNotFound"
  <2>1. /\ players' = [players EXCEPT ![handler[u].id].roomId = handler[u].room]
        /\ Goto(u, Idle) /\ UNCHANGED <<members, crashed, s2c>>
    BY <1>3 DEF AssignRoom
  <2>2. handler[u].room \in Int
    BY <1>1, PlaceFields DEF IInv, TypeInv, ServerTypes
  <2> QED
    BY <1>1, <2>1, <2>2, RoomIdSettled
<1> QED
  BY <1>2, <1>3

LEMMA ForgetRoomSettled ==
    ASSUME IInv, NEW u \in Users, ForgetRoom(u),
           \A v \in Users \ hasty : Settled(v)
    PROVE  \A v \in Users \ hasty' : Settled(v)'
<1>1. /\ UNCHANGED <<rooms, members, live, crashed, c2s, s2c, client>>
      /\ crashed = {} /\ handler[u].at = "left" /\ Goto(u, Idle)
      /\ players' = [players EXCEPT ![handler[u].id].roomId = -1]
  BY DEF ForgetRoom, At
<1>2. -1 \in Int
  OBVIOUS
<1> QED
  BY <1>1, <1>2, RoomIdSettled

\* What a room tells is told to the sessions of its members.
LEMMA TellReaches ==
    ASSUME TypeInv, NEW ids, ids \subseteq DOMAIN players, NEW p \in Answer, Tell(ids, p), NEW v \in Users
    PROVE  \/ Grows(s2c[v], s2c'[v], {})
           \/ /\ Grows(s2c[v], s2c'[v], {p})
              /\ live[v] = "yes" /\ \E id \in ids : Owns(v, id)
<1>1. PICK mine : mine = {id \in ids \ Lost(ids) : players[id].session = v}
  OBVIOUS
<1>2. s2c'[v] = s2c[v] \o [n \in 1 .. Cardinality(mine) |-> p]
  BY <1>1 DEF Tell
<1>3. CASE mine = {}
  <2>1. PICK c : c = Cardinality(mine)
    OBVIOUS
  <2>2. c = 0
    BY <1>3, <2>1, FS_EmptySet
  <2>3. PICK q : q = [n \in 1 .. c |-> p]
    OBVIOUS
  <2>4. q \in Seq(Answer) /\ \A n \in DOMAIN q : q[n] \in {}
    BY <2>2, <2>3
  <2>5. s2c[v] \in Seq(Answer)
    BY DEF TypeInv, QueueTypes
  <2>6. Grows(s2c[v], s2c[v] \o q, {})
    BY <2>4, <2>5, GrowsConcat
  <2> QED
    BY <1>2, <2>1, <2>3, <2>6
<1>4. CASE mine # {}
  <2>1. PICK id \in ids : id \notin Lost(ids) /\ players[id].session = v
    BY <1>1, <1>4
  <2>2. live[v] = "yes" /\ Owns(v, id)
    BY <2>1 DEF Lost, GetPlayer, Owns
  <2>3. Grows(s2c[v], s2c'[v], {p})
    BY TellGrows
  <2> QED
    BY <2>1, <2>2, <2>3
<1> QED
  BY <1>3, <1>4

\* Whoever settles in a room is known there; its handler finds it.
LEMMA ChatRoomSettled ==
    ASSUME IInv, NEW u \in Users, HandleChatRoom(u),
           \A v \in Users \ hasty : Settled(v)
    PROVE  /\ \A v \in Users \ hasty' : Settled(v)'
           /\ crashed' # {} => u \in hasty
<1>1. PICK id, r : id = Head(c2s[u]).id /\ r = GetRoomFromPlayerId(id)
  OBVIOUS
<1>2. /\ Takes(u, "chatRoom") /\ rooms' = rooms /\ live' = live /\ state' = state /\ myId' = myId
      /\ leaving' = leaving /\ asked' = asked /\ aim' = aim /\ hasty' = hasty /\ UNCHANGED client
  BY DEF HandleChatRoom, client, user
<1>3. /\ crashed = {} /\ live[u] = "yes" /\ handler[u].at = "idle" /\ 1 \in DOMAIN c2s[u]
      /\ c2s[u][1].kind = "chatRoom" /\ c2s[u][1].id = id /\ \A v \in Users \ {u} : c2s'[v] = c2s[v]
      /\ Drops(c2s[u], c2s'[u], 1)
  BY <1>1, <1>2, TakesFirst, TakesDrops, IdlePlace DEF IInv
<1>4. u \notin hasty => RoomExists(r)
  <2> SUFFICES ASSUME Settled(u) PROVE RoomExists(r)
    OBVIOUS
  <2>1. Within(u)
    BY <1>3 DEF Settled, LeaveInv, Within
  <2>2. Owns(u, id) /\ Owns(u, myId[u])
    BY <1>3, <2>1, WithinKnown DEF IInv, KnownInv, RequestKnown
  <2>3. id = myId[u]
    BY <2>2 DEF Settled, NameInv, Owns
  <2>4. Home(u) = r
    BY <1>1, <1>3, <2>3 DEF Home, GetRoomFromPlayerId, GetPlayer
  <2> QED
    BY <1>3, <2>1, <2>2, <2>4 DEF Settled, PlaceInv, Owns
<1>5. players' = players /\ members' = members /\ handler' = handler
  <2>1. CASE RoomExists(r)
    BY <1>1, <2>1 DEF HandleChatRoom
  <2>2. CASE ~RoomExists(r)
    BY <1>1, <2>2 DEF HandleChatRoom, Crash
  <2> QED
    BY <2>1, <2>2
<1>6. \A v : SameRooms(v)
  BY <1>5 DEF SameRooms
<1>7. \A v \in Users \ {u} : Still(v, 0)
  <2>1. ASSUME NEW v \in Users \ {u}
        PROVE  Drops(c2s[v], c2s'[v], 0)
    BY <1>3, SameDrops DEF IInv, TypeInv, QueueTypes
  <2> QED
    BY <1>2, <1>5, <2>1 DEF Still, Owns
<1>8. Still(u, 1)
  BY <1>2, <1>3, <1>5 DEF Still, Owns
<1>9. CASE RoomExists(r)
  <2>1. PICK p : p = [kind |-> "chatRoom", room |-> r]
    OBVIOUS
  <2>2. Tell(members[r], p) /\ crashed' = {}
    BY <1>1, <1>3, <1>9, <2>1 DEF HandleChatRoom
  <2>3. r \in DOMAIN members /\ r \in Int
    <3>1. DOMAIN members = 1 .. Len(members) /\ DOMAIN rooms = 1 .. Len(rooms) /\ Len(members) = Len(rooms)
      BY DEF IInv, TypeInv, ServerTypes
    <3> QED
      BY <1>9, <3>1 DEF RoomExists
  <2>4. p \in Answer /\ p.kind = "chatRoom" /\ p.room = r
    BY <2>1, <2>3, Records
  <2>5. PICK ids : ids = members[r] /\ ids \subseteq DOMAIN players
    BY <2>3 DEF IInv, TableInv
  <2>6. ASSUME NEW v \in Users, Settled(v)
        PROVE  Settled(v)'
    <3>1. \/ Grows(s2c[v], s2c'[v], {})
          \/ Grows(s2c[v], s2c'[v], {p}) /\ live[v] = "yes" /\ \E i \in ids : Owns(v, i)
      BY <2>2, <2>4, <2>5, TellReaches DEF IInv
    <3>2. PICK E : Grows(s2c[v], s2c'[v], E) /\ \A e \in E : Hears(v, e)
      <4>1. CASE Grows(s2c[v], s2c'[v], {})
        BY <4>1
      <4>2. CASE Grows(s2c[v], s2c'[v], {p}) /\ live[v] = "yes" /\ \E i \in ids : Owns(v, i)
        <5>1. Hears(v, p)
          BY <1>3, <2>3, <2>4, <2>5, <4>2 DEF Hears, Answering
        <5> QED
          BY <4>2, <5>1
      <4> QED
        BY <3>1, <4>1, <4>2
    <3> QED
      BY <1>3, <1>6, <1>7, <1>8, <2>6, <3>2, StillStep
  <2> QED
    BY <1>2, <2>2, <2>6
<1>10. CASE ~RoomExists(r)
  <2>1. s2c' = s2c
    BY <1>1, <1>10 DEF HandleChatRoom, Crash
  <2>2. ASSUME NEW v \in Users \ {u}, Settled(v)
        PROVE  Settled(v)'
    BY <1>2, <1>3, <1>5, <2>1, <2>2, UntouchedStep
  <2> QED
    BY <1>2, <1>4, <1>10, <2>2
<1> QED
  BY <1>9, <1>10

News == {[kind |-> "roomEvent"]}

\* News of a room are neither answers nor chat.
LEMMA EventGrows ==
    ASSUME NEW v \in Users, Grows(s2c[v], s2c'[v], News)
    PROVE  /\ \A n \in DOMAIN s2c[v] : n \in DOMAIN s2c'[v] /\ s2c'[v][n] = s2c[v][n]
           /\ \A n \in DOMAIN s2c'[v] : s2c'[v][n].kind # "roomEvent" =>
                  n \in DOMAIN s2c[v] /\ s2c'[v][n] = s2c[v][n]
           /\ (Answered(v)' <=> Answered(v)) /\ (Entering(v)' <=> Entering(v))
           /\ (TellsId(v)' <=> TellsId(v))
<1>1. /\ \A n \in DOMAIN s2c[v] : n \in DOMAIN s2c'[v] /\ s2c'[v][n] = s2c[v][n]
      /\ \A n \in DOMAIN s2c'[v] : s2c'[v][n].kind # "roomEvent" =>
             n \in DOMAIN s2c[v] /\ s2c'[v][n] = s2c[v][n]
  BY DEF Grows, News
<1> QED
  BY <1>1 DEF Answered, Answering, Entering, EnterOk, TellsId

\* Setting a room's members.
LEMMA MembersSet ==
    ASSUME TypeInv, NEW r, RoomExists(r), NEW new \in SUBSET Int, members' = [members EXCEPT ![r] = new]
    PROVE  /\ r \in DOMAIN members /\ DOMAIN members' = DOMAIN members /\ members'[r] = new
           /\ \A q \in DOMAIN members \ {r} : members'[q] = members[q]
<1>1. PICK k \in Nat : k = Len(members) /\ DOMAIN members = 1 .. k /\ DOMAIN rooms = 1 .. k
  BY DEF TypeInv, ServerTypes
<1>2. r \in 1 .. k
  BY <1>1 DEF RoomExists
<1> QED
  BY <1>1, <1>2 DEF TypeInv, ServerTypes

\* A user who has left is in no room, whatever it types next.
LEMMA LeaveTaken ==
    ASSUME IInv, NEW u \in Users \ hasty, Settled(u), Takes(u, "leaveRoom"),
           UNCHANGED <<players, rooms, live, client>>,
           DOMAIN members' = DOMAIN members, \A r \in DOMAIN members : members'[r] \subseteq members[r],
           handler'[u].at \in {"idle", "left"},
           Grows(s2c[u], s2c'[u], News),
           crashed' # {} \/ \A id, r : Owns(u, id) /\ r \in DOMAIN members => id \notin members'[r]
    PROVE  Settled(u)'
<1>1. /\ QuestionInv(u) /\ StateInv(u) /\ NameInv(u) /\ LeaveInv(u) /\ AimInv(u) /\ HearInv(u)
      /\ PlaceInv(u)
  BY DEF Settled
<1>2. /\ state' = state /\ myId' = myId /\ leaving' = leaving /\ asked' = asked /\ aim' = aim
  BY DEF client, user
<1>3. /\ crashed = {} /\ live[u] = "yes" /\ handler[u].at = "idle" /\ 1 \in DOMAIN c2s[u]
      /\ c2s[u][1].kind = "leaveRoom" /\ Drops(c2s[u], c2s'[u], 1)
  BY TakesFirst, TakesDrops, IdlePlace DEF IInv
<1>4. /\ \A n \in DOMAIN s2c[u] : n \in DOMAIN s2c'[u] /\ s2c'[u][n] = s2c[u][n]
      /\ \A n \in DOMAIN s2c'[u] : s2c'[u][n].kind # "roomEvent" =>
             n \in DOMAIN s2c[u] /\ s2c'[u][n] = s2c[u][n]
      /\ (Answered(u)' <=> Answered(u)) /\ (Entering(u)' <=> Entering(u))
      /\ (TellsId(u)' <=> TellsId(u))
  BY EventGrows
<1>5. /\ \A n \in DOMAIN c2s[u] : n \in Nat \ {0}
      /\ \A n \in DOMAIN c2s'[u] : n \in Nat \ {0} /\ n + 1 \in DOMAIN c2s[u] /\ c2s'[u][n] = c2s[u][n + 1]
  BY <1>3 DEF Drops
<1>6. \A n \in DOMAIN c2s'[u] : c2s'[u][n].kind \notin {"chatRoom", "leaveRoom"}
  <2>1. \A m \in DOMAIN c2s[u] : m > 1 => c2s[u][m].kind \notin {"chatRoom", "leaveRoom"}
    BY <1>1, <1>3 DEF LeaveInv
  <2>2. \A n \in DOMAIN c2s'[u] : n + 1 > 1
    BY <1>5
  <2> QED
    BY <1>5, <2>1, <2>2
<1>7. ~Answered(u) /\ ~Stays(u)
  BY <1>1, <1>3 DEF QuestionInv, LeaveInv, Answered
<1>8. ~Entering(u)
  BY <1>7 DEF Answered, Answering, Entering, EnterOk
<1>9. ~Stays(u)' /\ ~Leaves(u)' /\ ~Enters(u)' /\ ~Entering(u)' /\ ~InHand(u)' /\ ~Within(u)'
  BY <1>2, <1>4, <1>6, <1>7, <1>8 DEF Stays, Leaves, Enters, InHand, Within
<1>10. QuestionInv(u)'
  <2>1. ASSUME NEW n \in DOMAIN c2s'[u], Asking(c2s'[u][n])
        PROVE  asked'[u] /\ \A m \in DOMAIN c2s'[u] : m <= n
    <3>1. asked[u] /\ \A m \in DOMAIN c2s[u] : m <= n + 1
      BY <1>1, <1>5, <2>1 DEF QuestionInv
    <3> QED
      BY <1>2, <1>5, <3>1
  <2> QED
    BY <1>4, <1>7, <1>9, <2>1 DEF QuestionInv, Answered
<1>11. StateInv(u)'
  BY <1>1, <1>2, <1>4, <1>5 DEF StateInv
<1>12. NameInv(u)'
  BY <1>1, <1>2, <1>4, <1>5 DEF NameInv, Unnamed, Owns
<1>13. LeaveInv(u)'
  BY <1>4, <1>6, <1>7, <1>9 DEF LeaveInv
<1>14. AimInv(u)'
  BY <1>1, <1>2, <1>5, <1>9 DEF AimInv
<1>15. HearInv(u)'
  BY <1>1, <1>2, <1>4 DEF HearInv, EnterOk
<1>16. PlaceInv(u)'
  BY <1>1, <1>9 DEF PlaceInv, Owns
<1> QED
  BY <1>10, <1>11, <1>12, <1>13, <1>14, <1>15, <1>16 DEF Settled

LEMMA LeaveRoomSettled ==
    ASSUME IInv, NEW u \in Users, HandleLeaveRoom(u),
           \A v \in Users \ hasty : Settled(v)
    PROVE  \A v \in Users \ hasty' : Settled(v)'
<1>1. PICK id, r : id = Head(c2s[u]).id /\ r = GetRoomFromPlayerId(id)
  OBVIOUS
<1>2. /\ Takes(u, "leaveRoom") /\ UNCHANGED <<players, rooms, live, client>> /\ players' = players
      /\ rooms' = rooms /\ live' = live /\ state' = state /\ myId' = myId
      /\ leaving' = leaving /\ asked' = asked /\ aim' = aim /\ hasty' = hasty
  BY DEF HandleLeaveRoom, client, user
<1>3. /\ crashed = {} /\ live[u] = "yes" /\ handler[u].at = "idle" /\ 1 \in DOMAIN c2s[u]
      /\ c2s[u][1].kind = "leaveRoom" /\ c2s[u][1].id = id /\ \A v \in Users \ {u} : c2s'[v] = c2s[v]
  BY <1>1, <1>2, TakesFirst, IdlePlace DEF IInv
<1>4. Owns(u, id)
  BY <1>3 DEF IInv, KnownInv, RequestKnown
<1>5. u \notin hasty => RoomExists(r) /\ \A i, q : Owns(u, i) /\ q \in DOMAIN members /\ i \in members[q] => i = id /\ q = r
  <2> SUFFICES ASSUME Settled(u)
               PROVE  /\ RoomExists(r)
                      /\ \A i, q : Owns(u, i) /\ q \in DOMAIN members /\ i \in members[q] => i = id /\ q = r
    OBVIOUS
  <2>1. Within(u)
    BY <1>3 DEF Within, Leaves
  <2>2. Owns(u, myId[u])
    BY <2>1, WithinKnown
  <2>3. \A i : Owns(u, i) => i = id
    BY <1>4 DEF Settled, NameInv, Owns
  <2>4. Home(u) = r
    BY <1>1, <1>3, <2>2, <2>3 DEF Home, GetRoomFromPlayerId, GetPlayer
  <2> QED
    BY <1>3, <1>4, <2>1, <2>3, <2>4 DEF Settled, PlaceInv, Owns
<1>6. CASE ~RoomExists(r)
  <2>1. UNCHANGED <<members, handler, crashed, s2c>>
    BY <1>1, <1>6 DEF HandleLeaveRoom
  <2>2. ASSUME NEW v \in Users \ {u}, Settled(v)
        PROVE  Settled(v)'
    BY <1>2, <1>3, <2>1, <2>2, UntouchedStep
  <2> QED
    BY <1>2, <1>5, <1>6, <2>2
<1>7. CASE RoomExists(r) /\ Lost(members[r] \ {id}) # {}
  <2>1. members' = members /\ handler' = handler /\ s2c' = s2c /\ crashed' # {}
    BY <1>1, <1>7 DEF HandleLeaveRoom, Crash
  <2>2. ASSUME NEW v \in Users \ {u}, Settled(v)
        PROVE  Settled(v)'
    BY <1>2, <1>3, <2>1, <2>2, UntouchedStep
  <2>3. Grows(s2c[u], s2c'[u], News)
    BY <2>1, SameGrows
  <2>4. ASSUME u \notin hasty, Settled(u)
        PROVE  Settled(u)'
    <3>1. /\ DOMAIN members' = DOMAIN members /\ \A q \in DOMAIN members : members'[q] \subseteq members[q]
          /\ handler'[u].at \in {"idle", "left"}
      BY <1>3, <2>1
    <3> QED
      BY <1>2, <2>1, <2>3, <2>4, <3>1, LeaveTaken
  <2> QED
    BY <1>2, <2>2, <2>4
<1>8. CASE RoomExists(r) /\ Lost(members[r] \ {id}) = {}
  <2>1. PICK new : new = members[r] \ {id}
    OBVIOUS
  <2>2. PICK p : p = [kind |-> "roomEvent"]
    OBVIOUS
  <2>3. p \in Answer /\ p.kind = "roomEvent"
    BY <2>2, Records
  <2>4. /\ members' = [members EXCEPT ![r] = new] /\ crashed' = crashed
        /\ Tell(members'[r] \cup {id}, p) /\ Goto(u, [at |-> "left", id |-> id])
    BY <1>1, <1>8, <2>1, <2>2 DEF HandleLeaveRoom
  <2>5. new \in SUBSET Int /\ new \subseteq DOMAIN players
    <3>1. r \in DOMAIN members /\ members[r] \in SUBSET Int
      BY <1>8 DEF IInv, TypeInv, ServerTypes, RoomExists
    <3> QED
      BY <2>1, <3>1 DEF IInv, TableInv
  <2>6. /\ r \in DOMAIN members /\ DOMAIN members' = DOMAIN members /\ members'[r] = new
        /\ \A q \in DOMAIN members \ {r} : members'[q] = members[q]
    BY <1>8, <2>4, <2>5, MembersSet DEF IInv
  <2>7. handler'[u].at = "left" /\ \A v \in Users \ {u} : handler'[v] = handler[v]
    BY <2>4 DEF Goto, IInv, TypeInv, ServerTypes
  <2>8. PICK ids : ids = new \cup {id} /\ ids \subseteq DOMAIN players
    BY <1>4, <2>5 DEF Owns
  <2>9. \A v \in Users : Grows(s2c[v], s2c'[v], {p})
    BY <2>3, <2>4, <2>6, <2>8, TellGrows DEF IInv
  <2>10. ASSUME NEW v \in Users \ {u}, Settled(v)
         PROVE  Settled(v)'
    <3>1. \A i : Owns(v, i) => i # id
      BY <1>4 DEF Owns
    <3>2. SameRooms(v)
      BY <2>1, <2>6, <3>1 DEF SameRooms
    <3>3. \A e \in {p} : Hears(v, e)
      BY <2>3 DEF Hears, Answering
    <3> QED
      BY <1>2, <1>3, <2>7, <2>9, <2>10, <3>2, <3>3, OthersStill DEF Owns
  <2>11. ASSUME u \notin hasty, Settled(u)
         PROVE  Settled(u)'
    <3>1. \A q \in DOMAIN members : members'[q] \subseteq members[q]
      BY <2>1, <2>6
    <3>2. \A i, q : Owns(u, i) /\ q \in DOMAIN members => i \notin members'[q]
      BY <1>5, <2>1, <2>6, <2>11
    <3>3. Grows(s2c[u], s2c'[u], News)
      BY <2>2, <2>9 DEF News
    <3> QED
      BY <1>2, <2>6, <2>7, <2>11, <3>1, <3>2, <3>3, LeaveTaken
  <2> QED
    BY <1>2, <2>10, <2>11
<1> QED
  BY <1>6, <1>7, <1>8

\* What comes of a join: a crash, a refusal, or the room.
Refused(u, r) ==
    members' = members /\ handler'[u].at = "joined" /\ handler'[u].room = r /\ handler'[u].error # "ok"
Joined(u, id, r) ==
    /\ handler'[u].at = "joined" /\ handler'[u].room = r /\ handler'[u].error = "ok"
    /\ RoomExists(r) /\ DOMAIN members' = DOMAIN members /\ members'[r] = members[r] \cup {id}
    /\ \A q \in DOMAIN members \ {r} : members'[q] = members[q]
JoinEnds(u, id, r) ==
    (members' = members /\ handler' = handler /\ crashed' # {}) \/ Refused(u, r) \/ Joined(u, id, r)

\* A user who joins was in no room, and has typed nothing else.
LEMMA JoinTaken ==
    ASSUME IInv, NEW u \in Users, Settled(u), Takes(u, "joinRoom"),
           UNCHANGED <<players, rooms, live, client>>,
           JoinEnds(u, Head(c2s[u]).id, Head(c2s[u]).room),
           Grows(s2c[u], s2c'[u], News)
    PROVE  Settled(u)'
<1>0. PICK id, r : id = Head(c2s[u]).id /\ r = Head(c2s[u]).room /\ JoinEnds(u, id, r)
  OBVIOUS
<1>1. /\ QuestionInv(u) /\ StateInv(u) /\ NameInv(u) /\ LeaveInv(u) /\ AimInv(u) /\ HearInv(u)
      /\ PlaceInv(u)
  BY DEF Settled
<1>2. /\ state' = state /\ myId' = myId /\ leaving' = leaving /\ asked' = asked /\ aim' = aim
  BY DEF client, user
<1>3. /\ crashed = {} /\ live[u] = "yes" /\ handler[u].at = "idle" /\ 1 \in DOMAIN c2s[u]
      /\ c2s[u][1].kind = "joinRoom" /\ c2s[u][1].id = id /\ c2s[u][1].room = r
      /\ Drops(c2s[u], c2s'[u], 1)
  BY <1>0, TakesFirst, TakesDrops, IdlePlace DEF IInv
<1>4. /\ \A n \in DOMAIN s2c[u] : n \in DOMAIN s2c'[u] /\ s2c'[u][n] = s2c[u][n]
      /\ \A n \in DOMAIN s2c'[u] : s2c'[u][n].kind # "roomEvent" =>
             n \in DOMAIN s2c[u] /\ s2c'[u][n] = s2c[u][n]
      /\ (Answered(u)' <=> Answered(u)) /\ (Entering(u)' <=> Entering(u))
      /\ (TellsId(u)' <=> TellsId(u))
  BY EventGrows
<1>5. /\ asked[u] /\ ~Answered(u) /\ \A n \in DOMAIN c2s[u] : n <= 1
      /\ state[u] = "Lobby" /\ r = aim[u] /\ ~leaving[u]
  BY <1>1, <1>3 DEF QuestionInv, StateInv, AimInv, Asking
<1>6. DOMAIN c2s'[u] = {}
  BY <1>3, <1>5 DEF Drops
<1>7. ~Entering(u) /\ ~Entering(u)' /\ ~Stays(u)' /\ ~Leaves(u)' /\ ~Stays(u) /\ ~Enters(u) /\ ~Answered(u)'
  BY <1>2, <1>3, <1>4, <1>5, <1>6 DEF Answered, Answering, Entering, EnterOk, Stays, Leaves, Enters
<1>8. ~Leaves(u)
  BY <1>3, <1>5 DEF Leaves, Drops
<1>9. (handler'[u].at = "joined" /\ handler'[u].room = r) \/ handler'[u].at = "idle"
  BY <1>0, <1>3 DEF JoinEnds, Refused, Joined
<1>10. QuestionInv(u)'
  BY <1>2, <1>5, <1>6, <1>7 DEF QuestionInv, Answered
<1>11. StateInv(u)'
  BY <1>1, <1>2, <1>4, <1>5, <1>6, <1>9 DEF StateInv
<1>12. NameInv(u)'
  BY <1>1, <1>2, <1>4, <1>6, <1>9 DEF NameInv, Unnamed, Owns
<1>13. LeaveInv(u)'
  BY <1>6, <1>9 DEF LeaveInv
<1>14. AimInv(u)'
  BY <1>2, <1>5, <1>6, <1>7, <1>9 DEF AimInv
<1>15. HearInv(u)'
  BY <1>1, <1>2, <1>4 DEF HearInv, EnterOk
<1>16. PlaceInv(u)'
  <2>1. Owns(u, id) /\ \A i : Owns(u, i) => i = id
    BY <1>1, <1>3 DEF NameInv, Owns, IInv, KnownInv, RequestKnown
  <2>2. \A q \in DOMAIN members : id \notin members[q]
    BY <1>1, <1>3, <1>7, <1>8, <2>1 DEF PlaceInv, Within, Owns
  <2>3. CASE members' = members /\ handler' = handler /\ crashed' # {}
    BY <1>1, <2>3 DEF PlaceInv, Owns
  <2>4. CASE Refused(u, r)
    <3>1. ~Within(u)'
      BY <1>7, <2>4 DEF Within, Enters, Refused
    <3> QED
      BY <2>1, <2>2, <2>4, <3>1 DEF PlaceInv, Owns, Refused
  <2>5. CASE Joined(u, id, r)
    <3>1. Within(u)' /\ Home(u)' = r /\ RoomExists(r)'
      BY <2>5 DEF Within, Enters, Home, RoomExists, Joined
    <3>2. \A q \in DOMAIN members' : id \in members'[q] <=> q = r
      BY <2>2, <2>5 DEF Joined
    <3> QED
      BY <2>1, <3>1, <3>2 DEF PlaceInv, Owns
  <2> QED
    BY <1>0, <2>3, <2>4, <2>5 DEF JoinEnds
<1> QED
  BY <1>10, <1>11, <1>12, <1>13, <1>14, <1>15, <1>16 DEF Settled

LEMMA JoinRoomSettled ==
    ASSUME IInv, NEW u \in Users, HandleJoinRoom(u),
           \A v \in Users \ hasty : Settled(v)
    PROVE  \A v \in Users \ hasty' : Settled(v)'
<1>1. PICK id, r : id = Head(c2s[u]).id /\ r = Head(c2s[u]).room
  OBVIOUS
<1>2. /\ Takes(u, "joinRoom") /\ UNCHANGED <<players, rooms, live, client>> /\ players' = players
      /\ rooms' = rooms /\ live' = live /\ state' = state /\ myId' = myId
      /\ leaving' = leaving /\ asked' = asked /\ aim' = aim /\ hasty' = hasty
  BY DEF HandleJoinRoom, client, user
<1>3. /\ crashed = {} /\ live[u] = "yes" /\ 1 \in DOMAIN c2s[u]
      /\ c2s[u][1].kind = "joinRoom" /\ c2s[u][1].id = id /\ \A v \in Users \ {u} : c2s'[v] = c2s[v]
  BY <1>1, <1>2, TakesFirst DEF IInv
<1>4. Owns(u, id) /\ id \in Int
  <2>1. Owns(u, id)
    BY <1>3 DEF IInv, KnownInv, RequestKnown
  <2> QED
    BY <2>1 DEF Owns, IInv, TypeInv, ServerTypes
<1>5. CASE ~RoomExists(r) \/ Full(r)
  <2>1. PICK e : /\ Goto(u, [at |-> "joined", id |-> id, room |-> r, error |-> e]) /\ e # "ok"
                 /\ UNCHANGED <<members, crashed, s2c>>
    <3>1. CASE ~RoomExists(r)
      BY <1>1, <3>1 DEF HandleJoinRoom
    <3>2. CASE RoomExists(r) /\ Full(r)
      BY <1>1, <3>2 DEF HandleJoinRoom
    <3> QED
      BY <1>5, <3>1, <3>2
  <2>2. /\ handler'[u].at = "joined" /\ handler'[u].room = r /\ handler'[u].error # "ok"
        /\ \A v \in Users \ {u} : handler'[v] = handler[v]
    BY <2>1 DEF Goto, IInv, TypeInv, ServerTypes
  <2>3. ASSUME NEW v \in Users \ {u}, Settled(v)
        PROVE  Settled(v)'
    BY <1>2, <1>3, <2>1, <2>2, <2>3, UntouchedStep
  <2>4. Grows(s2c[u], s2c'[u], News)
    BY <2>1, SameGrows
  <2>5. ASSUME u \notin hasty, Settled(u)
        PROVE  Settled(u)'
    <3>1. JoinEnds(u, id, r)
      BY <2>1, <2>2 DEF JoinEnds, Refused
    <3> QED
      BY <1>1, <1>2, <2>4, <2>5, <3>1, JoinTaken
  <2> QED
    BY <1>2, <2>3, <2>5
<1>6. CASE RoomExists(r) /\ ~Full(r) /\ Lost(members[r] \cup {id}) # {}
  <2>1. UNCHANGED <<members, handler>> /\ s2c' = s2c /\ crashed' # {}
    BY <1>1, <1>6 DEF HandleJoinRoom, Crash
  <2>2. ASSUME NEW v \in Users \ {u}, Settled(v)
        PROVE  Settled(v)'
    BY <1>2, <1>3, <2>1, <2>2, UntouchedStep
  <2>3. Grows(s2c[u], s2c'[u], News)
    BY <2>1, SameGrows
  <2>4. ASSUME u \notin hasty, Settled(u)
        PROVE  Settled(u)'
    <3>1. JoinEnds(u, id, r)
      BY <2>1 DEF JoinEnds
    <3> QED
      BY <1>1, <1>2, <2>3, <2>4, <3>1, JoinTaken
  <2> QED
    BY <1>2, <2>2, <2>4
<1>7. CASE RoomExists(r) /\ ~Full(r) /\ Lost(members[r] \cup {id}) = {}
  <2>1. PICK new : new = members[r] \cup {id}
    OBVIOUS
  <2>2. PICK p : p = [kind |-> "roomEvent"]
    OBVIOUS
  <2>3. p \in Answer /\ p.kind = "roomEvent"
    BY <2>2, Records
  <2>4. /\ members' = [members EXCEPT ![r] = new] /\ crashed' = crashed /\ Tell(members'[r], p)
        /\ Goto(u, [at |-> "joined", id |-> id, room |-> r, error |-> "ok"])
    BY <1>1, <1>7, <2>1, <2>2 DEF HandleJoinRoom
  <2>5. new \in SUBSET Int /\ new \subseteq DOMAIN players
    <3>1. r \in DOMAIN members /\ members[r] \in SUBSET Int
      BY <1>7 DEF IInv, TypeInv, ServerTypes, RoomExists
    <3> QED
      BY <1>4, <2>1, <3>1 DEF IInv, TableInv, Owns
  <2>6. /\ r \in DOMAIN members /\ DOMAIN members' = DOMAIN members /\ members'[r] = new
        /\ \A q \in DOMAIN members \ {r} : members'[q] = members[q]
    BY <1>7, <2>4, <2>5, MembersSet DEF IInv
  <2>7. /\ handler'[u].at = "joined" /\ handler'[u].room = r /\ handler'[u].error = "ok"
        /\ \A v \in Users \ {u} : handler'[v] = handler[v]
    BY <2>4 DEF Goto, IInv, TypeInv, ServerTypes
  <2>8. \A v \in Users : Grows(s2c[v], s2c'[v], {p})
    BY <2>3, <2>4, <2>5, <2>6, TellGrows DEF IInv
  <2>9. ASSUME NEW v \in Users \ {u}, Settled(v)
        PROVE  Settled(v)'
    <3>1. \A i : Owns(v, i) => i # id
      BY <1>4 DEF Owns
    <3>2. SameRooms(v)
      BY <2>1, <2>6, <3>1 DEF SameRooms
    <3>3. \A e \in {p} : Hears(v, e)
      BY <2>3 DEF Hears, Answering
    <3> QED
      BY <1>2, <1>3, <2>7, <2>8, <2>9, <3>2, <3>3, OthersStill DEF Owns
  <2>10. ASSUME u \notin hasty, Settled(u)
         PROVE  Settled(u)'
    <3>1. JoinEnds(u, id, r)
      BY <1>7, <2>1, <2>6, <2>7 DEF JoinEnds, Joined
    <3>2. Grows(s2c[u], s2c'[u], News)
      BY <2>2, <2>8 DEF News
    <3> QED
      BY <1>1, <1>2, <2>10, <3>1, <3>2, JoinTaken
  <2> QED
    BY <1>2, <2>9, <2>10
<1> QED
  BY <1>5, <1>6, <1>7

-----------------------------------------------------------------------------
(* The steps of sessions, clients and users *)

\* What a line of u changes: a question, its place, or nothing.
Asks(u) == asked'[u] /\ leaving'[u] = leaving[u]
Lined(u, p) ==
    \/ state[u] = "WaitingNickname" /\ p.kind = "setNickname" /\ Asks(u) /\ aim'[u] = aim[u]
    \/ state[u] = "Lobby" /\ p.kind = "joinRoom" /\ Asks(u) /\ aim'[u] = p.room
    \/ /\ \/ state[u] = "Lobby" /\ p.kind \in {"requestRoomList", "createRoom"}
          \/ state[u] = "InRoom" /\ p.kind = "chatRoom"
       /\ asked'[u] = asked[u] /\ leaving'[u] = leaving[u] /\ aim'[u] = aim[u]
    \/ /\ state[u] = "InRoom" /\ p.kind = "leaveRoom"
       /\ asked'[u] = asked[u] /\ leaving'[u] /\ aim'[u] = aim[u]

LEMMA LineTaken ==
    ASSUME IInv, NEW u \in Users, Settled(u), ~asked[u], NEW where, NEW p, Types(u, where, p),
           Lined(u, p), NEW k, Adds(c2s[u], c2s'[u], k, p)
    PROVE  Settled(u)'
<1>1. /\ QuestionInv(u) /\ StateInv(u) /\ NameInv(u) /\ LeaveInv(u) /\ AimInv(u) /\ HearInv(u)
      /\ PlaceInv(u)
  BY DEF Settled
<1>2. /\ crashed = {} /\ live[u] = "yes" /\ ~leaving[u]
      /\ players' = players /\ rooms' = rooms /\ members' = members /\ live' = live
      /\ handler' = handler /\ crashed' = crashed /\ s2c' = s2c /\ state' = state /\ myId' = myId
  BY DEF Types, server, tables
<1>3. /\ k \in DOMAIN c2s'[u] /\ c2s'[u][k] = p
      /\ \A n \in DOMAIN c2s[u] : n \in DOMAIN c2s'[u] /\ c2s'[u][n] = c2s[u][n] /\ n < k
      /\ \A n \in DOMAIN c2s'[u] : n \in Int /\ (n = k \/ n \in DOMAIN c2s[u])
  BY DEF Adds
<1>4. /\ ~Answered(u) /\ ~InHand(u) /\ ~Entering(u) /\ ~TellsId(u)
      /\ \A n \in DOMAIN c2s[u] : ~Asking(c2s[u][n])
  BY <1>1 DEF QuestionInv, Answered, Answering, Entering, EnterOk, TellsId
<1>5. ~Answered(u)' /\ ~InHand(u)' /\ ~Entering(u)' /\ (TellsId(u)' <=> TellsId(u))
  BY <1>2, <1>4 DEF Answered, InHand, Entering, TellsId
<1>6. /\ p.kind = "setNickname" => state[u] = "WaitingNickname" /\ asked'[u]
      /\ p.kind = "joinRoom" => state[u] = "Lobby" /\ asked'[u] /\ p.room = aim'[u]
      /\ p.kind = "chatRoom" => state[u] = "InRoom"
      /\ leaving'[u] => p.kind = "leaveRoom" /\ state[u] = "InRoom" /\ ~asked'[u]
      /\ asked'[u] => state[u] \in {"WaitingNickname", "Lobby"}
      /\ p.kind # "joinRoom" => aim'[u] = aim[u]
      /\ p.kind = "leaveRoom" => leaving'[u] /\ state[u] = "InRoom"
  BY <1>2 DEF Lined, Asks
<1>7. /\ Leaves(u)' <=> Leaves(u) \/ p.kind = "leaveRoom"
      /\ Stays(u)' <=> Stays(u) /\ p.kind # "leaveRoom"
      /\ p.kind = "leaveRoom" => Stays(u)
      /\ Enters(u)' <=> Enters(u)
  <2>1. Leaves(u)' <=> Leaves(u) \/ p.kind = "leaveRoom"
    BY <1>3 DEF Leaves
  <2>2. Stays(u)' <=> Stays(u) /\ p.kind # "leaveRoom"
    BY <1>2, <1>6 DEF Stays
  <2> QED
    BY <1>2, <1>6, <2>1, <2>2 DEF Stays, Enters
<1>8. (Within(u)' <=> Within(u)) /\ Home(u)' = Home(u)
  BY <1>2, <1>4, <1>5, <1>7 DEF Within, Home
<1>9. QuestionInv(u)'
  <2>1. ASSUME NEW n \in DOMAIN c2s'[u], Asking(c2s'[u][n])
        PROVE  n = k /\ asked'[u] /\ \A m \in DOMAIN c2s'[u] : m <= n
    <3>1. n = k
      BY <1>3, <1>4, <2>1
    <3> QED
      BY <1>3, <1>6, <2>1, <3>1 DEF Asking
  <2> QED
    BY <1>2, <1>5, <2>1 DEF QuestionInv, Answered
<1>10. StateInv(u)'
  <2>1. ASSUME NEW n \in DOMAIN c2s'[u]
        PROVE  /\ c2s'[u][n].kind = "setNickname" => state'[u] = "WaitingNickname"
               /\ c2s'[u][n].kind = "joinRoom" => state'[u] = "Lobby"
    BY <1>1, <1>2, <1>3, <1>6 DEF StateInv
  <2> QED
    BY <1>1, <1>2, <1>6, <2>1 DEF StateInv
<1>11. NameInv(u)'
  <2>1. Unnamed(u)' <=> Unnamed(u)
    BY <1>2 DEF Unnamed, Owns
  <2>2. state[u] = "WaitingNickname" => Unnamed(u)
    BY <1>1, <1>2, <1>4 DEF NameInv
  <2>3. \A n \in DOMAIN c2s'[u] : c2s'[u][n].kind = "setNickname" => Unnamed(u)
    BY <1>1, <1>3, <1>6, <2>2 DEF NameInv
  <2> QED
    BY <1>1, <1>2, <1>5, <2>1, <2>3 DEF NameInv, Owns
<1>12. LeaveInv(u)'
  <2>1. ASSUME NEW n \in DOMAIN c2s'[u], c2s'[u][n].kind = "leaveRoom"
        PROVE  /\ ~Stays(u)'
               /\ \A m \in DOMAIN c2s'[u] : m > n => c2s'[u][m].kind \notin {"chatRoom", "leaveRoom"}
    <3>1. CASE n = k
      <4>1. \A m \in DOMAIN c2s'[u] : m <= n
        BY <1>3, <3>1
      <4> QED
        BY <1>3, <1>7, <2>1, <3>1, <4>1
    <3>2. CASE n \in DOMAIN c2s[u]
      <4>1. ~Stays(u) /\ \A m \in DOMAIN c2s[u] : m > n => c2s[u][m].kind \notin {"chatRoom", "leaveRoom"}
        BY <1>1, <1>3, <2>1, <3>2 DEF LeaveInv
      <4>2. p.kind \notin {"chatRoom", "leaveRoom"}
        BY <1>2, <1>6, <4>1 DEF Stays
      <4> QED
        BY <1>3, <1>7, <4>1, <4>2
    <3> QED
      BY <1>3, <2>1, <3>1, <3>2
  <2>2. ASSUME NEW n \in DOMAIN c2s'[u], c2s'[u][n].kind = "chatRoom"
        PROVE  Stays(u)' \/ Leaves(u)'
    <3>1. Stays(u) \/ Leaves(u)
      BY <1>1, <1>2, <1>3, <1>6, <2>2 DEF LeaveInv, Stays
    <3> QED
      BY <1>7, <3>1
  <2>3. handler'[u].at = "left" => ~Answered(u)' /\ ~Stays(u)' /\ ~Leaves(u)'
    BY <1>1, <1>2, <1>5, <1>7 DEF LeaveInv
  <2>4. handler'[u].at = "answered" =>
          IF Enters(u)' THEN Entering(u)' \/ Stays(u)' \/ Leaves(u)'
          ELSE state'[u] = "Lobby" /\ ~Entering(u)' /\ ~Leaves(u)'
    BY <1>1, <1>2, <1>4, <1>5, <1>6, <1>7 DEF LeaveInv
  <2> QED
    BY <2>1, <2>2, <2>3, <2>4 DEF LeaveInv
<1>13. AimInv(u)'
  <2>1. ASSUME NEW n \in DOMAIN c2s'[u], c2s'[u][n].kind = "joinRoom"
        PROVE  c2s'[u][n].room = aim'[u]
    BY <1>3, <1>4, <1>6, <2>1 DEF Asking
  <2>2. handler'[u].at # "joined"
    BY <1>5 DEF InHand
  <2>3. Stays(u)' \/ (leaving'[u] /\ Leaves(u)') => Home(u) = aim[u] /\ aim'[u] = aim[u]
    BY <1>1, <1>2, <1>6, <1>7 DEF AimInv, Stays
  <2> QED
    BY <1>5, <1>8, <2>1, <2>2, <2>3 DEF AimInv
<1>14. HearInv(u)'
  <2>1. \A m \in DOMAIN s2c[u] : ~EnterOk(s2c[u][m])
    BY <1>4 DEF Entering
  <2> QED
    BY <1>1, <1>2, <1>6, <2>1 DEF HearInv, EnterOk
<1>15. PlaceInv(u)'
  BY <1>1, <1>2, <1>8 DEF PlaceInv, Owns, RoomExists
<1> QED
  BY <1>9, <1>10, <1>11, <1>12, <1>13, <1>14, <1>15 DEF Settled

LEMMA TypesSettled ==
    ASSUME IInv, NEW u \in Users, NEW where, NEW p \in Request, Types(u, where, p),
           u \notin hasty => Lined(u, p),
           \A v \in Users \ {u} : leaving'[v] = leaving[v] /\ asked'[v] = asked[v] /\ aim'[v] = aim[v],
           \A v \in Users \ hasty : Settled(v)
    PROVE  \A v \in Users \ hasty' : Settled(v)'
<1>1. /\ crashed = {} /\ players' = players /\ rooms' = rooms /\ members' = members /\ live' = live
      /\ handler' = handler /\ crashed' = crashed /\ s2c' = s2c /\ state' = state /\ myId' = myId
      /\ c2s' = [c2s EXCEPT ![u] = Append(c2s[u], p)]
      /\ hasty' = IF asked[u] THEN hasty \cup {u} ELSE hasty
  BY DEF Types, server, tables
<1>2. c2s \in [Users -> Seq(Request)] /\ c2s[u] \in Seq(Request)
  BY DEF IInv, TypeInv, QueueTypes
<1>3. c2s'[u] = Append(c2s[u], p) /\ \A v \in Users \ {u} : c2s'[v] = c2s[v]
  BY <1>1, <1>2
<1>4. Adds(c2s[u], c2s'[u], Len(c2s[u]) + 1, p)
  BY <1>2, <1>3, ConcatAdds
<1>5. ASSUME NEW v \in Users \ {u}, Settled(v)
      PROVE  Settled(v)'
  BY <1>1, <1>3, <1>5, UntouchedStep
<1>6. ASSUME u \notin hasty, ~asked[u]
      PROVE  Settled(u)'
  BY <1>4, <1>6, LineTaken
<1> QED
  BY <1>1, <1>5, <1>6

LEMMA LinesSettled ==
    ASSUME IInv, SessionInv, NEW u \in Users, Line(u),
           \A v \in Users \ hasty : Settled(v)
    PROVE  \A v \in Users \ hasty' : Settled(v)'
<1>1. asked \in [Users -> BOOLEAN] /\ leaving \in [Users -> BOOLEAN] /\ aim \in [Users -> Int]
  BY DEF IInv, TypeInv, ClientTypes, SessionInv
<1>2. state[u] \in {"Lobby", "InRoom"} => myId[u] \in Int
  BY DEF IInv, TypeInv, ClientTypes
<1>3. CASE SetNickname(u)
  <2>1. PICK n \in Names : Types(u, "WaitingNickname", [kind |-> "setNickname", name |-> n])
    BY <1>3 DEF SetNickname
  <2>2. PICK p : p = [kind |-> "setNickname", name |-> n]
    OBVIOUS
  <2>3. p \in Request /\ p.kind = "setNickname"
    BY <2>2 DEF Request
  <2>4. Types(u, "WaitingNickname", p) /\ state[u] = "WaitingNickname"
    BY <2>1, <2>2 DEF Types
  <2>5. asked'[u] /\ leaving' = leaving /\ aim' = aim /\ \A v \in Users \ {u} : asked'[v] = asked[v]
    BY <1>1, <1>3 DEF SetNickname
  <2>6. Lined(u, p)
    BY <2>3, <2>4, <2>5 DEF Lined, Asks
  <2> QED
    BY <2>3, <2>4, <2>5, <2>6, TypesSettled
<1>4. CASE RequestRoomList(u)
  <2>1. PICK p : p = [kind |-> "requestRoomList"]
    OBVIOUS
  <2>2. p \in Request /\ p.kind = "requestRoomList"
    BY <2>1 DEF Request
  <2>3. Types(u, "Lobby", p) /\ leaving' = leaving /\ asked' = asked /\ aim' = aim
    BY <1>4, <2>1 DEF RequestRoomList
  <2>4. Lined(u, p)
    BY <2>2, <2>3 DEF Lined, Types
  <2> QED
    BY <2>2, <2>3, <2>4, TypesSettled
<1>5. CASE CreateRoom(u)
  <2>1. PICK n \in RoomNames : Types(u, "Lobby", [kind |-> "createRoom", name |-> n])
    BY <1>5 DEF CreateRoom
  <2>2. PICK p : p = [kind |-> "createRoom", name |-> n]
    OBVIOUS
  <2>3. p \in Request /\ p.kind = "createRoom"
    BY <2>2 DEF Request
  <2>4. Types(u, "Lobby", p) /\ leaving' = leaving /\ asked' = asked /\ aim' = aim
    BY <1>5, <2>1, <2>2 DEF CreateRoom
  <2>5. Lined(u, p)
    BY <2>3, <2>4 DEF Lined, Types
  <2> QED
    BY <2>3, <2>4, <2>5, TypesSettled
<1>6. CASE EnterRoomById(u)
  <2>1. PICK r \in 1 .. Len(rooms) + 1 :
            /\ Types(u, "Lobby", [kind |-> "joinRoom", id |-> myId[u], room |-> r])
            /\ asked' = [asked EXCEPT ![u] = TRUE] /\ aim' = [aim EXCEPT ![u] = r] /\ UNCHANGED leaving
    BY <1>6 DEF EnterRoomById
  <2>2. PICK p : p = [kind |-> "joinRoom", id |-> myId[u], room |-> r]
    OBVIOUS
  <2>3. Types(u, "Lobby", p) /\ state[u] = "Lobby" /\ myId[u] \in Int
    BY <1>2, <2>1, <2>2 DEF Types
  <2>4. p \in Request /\ p.kind = "joinRoom" /\ p.room = r
    BY <2>2, <2>3 DEF Request
  <2>5. /\ asked'[u] /\ leaving' = leaving /\ aim'[u] = r
        /\ \A v \in Users \ {u} : asked'[v] = asked[v] /\ aim'[v] = aim[v]
    BY <1>1, <2>1
  <2>6. Lined(u, p)
    BY <2>3, <2>4, <2>5 DEF Lined, Asks
  <2> QED
    BY <2>3, <2>4, <2>5, <2>6, TypesSettled
<1>7. CASE ChatToRoom(u)
  <2>1. PICK p : p = [kind |-> "chatRoom", id |-> myId[u]]
    OBVIOUS
  <2>2. Types(u, "InRoom", p) /\ leaving' = leaving /\ asked' = asked /\ aim' = aim
    BY <1>7, <2>1 DEF ChatToRoom
  <2>3. state[u] = "InRoom" /\ myId[u] \in Int
    BY <1>2, <2>2 DEF Types
  <2>4. p \in Request /\ p.kind = "chatRoom"
    BY <2>1, <2>3 DEF Request
  <2>5. Lined(u, p)
    BY <2>2, <2>3, <2>4 DEF Lined
  <2> QED
    BY <2>2, <2>4, <2>5, TypesSettled
<1>8. CASE LeaveRoom(u)
  <2>1. PICK p : p = [kind |-> "leaveRoom", id |-> myId[u]]
    OBVIOUS
  <2>2. Types(u, "InRoom", p) /\ leaving' = [leaving EXCEPT ![u] = TRUE] /\ asked' = asked /\ aim' = aim
    BY <1>8, <2>1 DEF LeaveRoom
  <2>3. state[u] = "InRoom" /\ myId[u] \in Int
    BY <1>2, <2>2 DEF Types
  <2>4. p \in Request /\ p.kind = "leaveRoom"
    BY <2>1, <2>3 DEF Request
  <2>5. leaving'[u] /\ \A v \in Users \ {u} : leaving'[v] = leaving[v]
    BY <1>1, <2>2
  <2>6. Lined(u, p)
    BY <2>2, <2>3, <2>4, <2>5 DEF Lined
  <2> QED
    BY <2>2, <2>4, <2>5, <2>6, TypesSettled
<1> QED
  BY <1>3, <1>4, <1>5, <1>6, <1>7, <1>8 DEF Line

\* A user who goes back to the lobby had left its room before.
LEMMA BackToLobbySettled ==
    ASSUME IInv, NEW u \in Users, BackToLobby(u),
           \A v \in Users \ hasty : Settled(v)
    PROVE  \A v \in Users \ hasty' : Settled(v)'
<1>1. /\ leaving[u] /\ state' = [state EXCEPT ![u] = "Lobby"] /\ leaving' = [leaving EXCEPT ![u] = FALSE]
      /\ players' = players /\ rooms' = rooms /\ members' = members /\ handler' = handler
      /\ crashed' = crashed /\ live' = live /\ c2s' = c2s /\ s2c' = s2c /\ myId' = myId
      /\ asked' = asked /\ aim' = aim /\ hasty' = hasty
  BY DEF BackToLobby, server, tables
<1>2. /\ state'[u] = "Lobby" /\ ~leaving'[u]
      /\ \A v \in Users \ {u} : state'[v] = state[v] /\ leaving'[v] = leaving[v]
  BY <1>1 DEF IInv, TypeInv, ClientTypes
<1>3. ASSUME NEW v \in Users \ {u}, Settled(v)
      PROVE  Settled(v)'
  BY <1>1, <1>2, <1>3, UntouchedStep
<1>4. ASSUME Settled(u)
      PROVE  Settled(u)'
  <2>1. /\ QuestionInv(u) /\ StateInv(u) /\ NameInv(u) /\ LeaveInv(u) /\ AimInv(u) /\ HearInv(u)
        /\ PlaceInv(u)
    BY <1>4 DEF Settled
  <2>2. state[u] = "InRoom" /\ ~asked[u]
    BY <1>1, <2>1 DEF StateInv
  <2>3. ~Answered(u) /\ ~InHand(u) /\ ~Entering(u) /\ \A n \in DOMAIN c2s[u] : ~Asking(c2s[u][n])
    BY <2>1, <2>2 DEF QuestionInv, Answered, Answering, Entering, EnterOk
  <2>4. /\ ~Answered(u)' /\ ~InHand(u)' /\ ~Entering(u)' /\ (TellsId(u)' <=> TellsId(u))
        /\ (Leaves(u)' <=> Leaves(u)) /\ (Enters(u)' <=> Enters(u)) /\ ~Stays(u) /\ ~Stays(u)'
    BY <1>1, <1>2, <2>3 DEF Answered, InHand, Entering, TellsId, Leaves, Enters, Stays
  <2>5. (Within(u)' <=> Within(u)) /\ Home(u)' = Home(u)
    BY <1>1, <2>3, <2>4 DEF Within, Home
  <2>6. QuestionInv(u)'
    BY <1>1, <2>3, <2>4 DEF QuestionInv, Answered
  <2>7. StateInv(u)'
    BY <1>1, <1>2, <2>2, <2>3, <2>4 DEF StateInv, InHand, Answered, Answering, Asking
  <2>8. NameInv(u)'
    BY <1>1, <1>2, <2>1, <2>4 DEF NameInv, Unnamed, Owns
  <2>9. LeaveInv(u)'
    BY <1>1, <1>2, <2>1, <2>3, <2>4 DEF LeaveInv
  <2>10. AimInv(u)'
    BY <1>1, <1>2, <2>1, <2>4 DEF AimInv
  <2>11. HearInv(u)'
    BY <1>1, <1>2, <2>1 DEF HearInv, EnterOk
  <2>12. PlaceInv(u)'
    BY <1>1, <2>1, <2>5 DEF PlaceInv, Owns, RoomExists
  <2> QED
    BY <2>6, <2>7, <2>8, <2>9, <2>10, <2>11, <2>12 DEF Settled
<1> QED
  BY <1>1, <1>3, <1>4

\* The prompt comes to a user that has no id yet.
LEMMA OnConnectedSettled ==
    ASSUME IInv, SessionInv, NEW u \in Users, OnConnected(u),
           \A v \in Users \ hasty : Settled(v)
    PROVE  \A v \in Users \ hasty' : Settled(v)'
<1>1. PICK p : p = [kind |-> "prompt"]
  OBVIOUS
<1>2. /\ crashed = {} /\ live[u] = "no" /\ live' = [live EXCEPT ![u] = "yes"] /\ Send(u, <<p>>)
      /\ players' = players /\ rooms' = rooms /\ members' = members /\ handler' = handler
      /\ crashed' = crashed /\ c2s' = c2s /\ state' = state /\ myId' = myId
      /\ leaving' = leaving /\ asked' = asked /\ aim' = aim /\ hasty' = hasty
  BY <1>1 DEF OnConnected, tables, client, user
<1>3. p \in Answer /\ p.kind = "prompt"
  BY <1>1, Records
<1>4. /\ \E k : Adds(s2c[u], s2c'[u], k, p)
      /\ \A v \in Users \ {u} : s2c'[v] = s2c[v] /\ live'[v] = live[v]
  BY <1>2, <1>3, SendAdds DEF IInv, TypeInv, ClientTypes
<1>5. ASSUME NEW v \in Users \ {u}, Settled(v)
      PROVE  Settled(v)'
  BY <1>2, <1>4, <1>5, UntouchedStep
<1>6. ASSUME Settled(u)
      PROVE  Settled(u)'
  <2>1. /\ QuestionInv(u) /\ StateInv(u) /\ NameInv(u) /\ LeaveInv(u) /\ AimInv(u) /\ HearInv(u)
        /\ PlaceInv(u)
    BY <1>6 DEF Settled
  <2>2. /\ handler[u].at = "idle" /\ DOMAIN c2s[u] = {} /\ DOMAIN s2c[u] = {}
        /\ state[u] = "Connecting" /\ ~leaving[u] /\ ~asked[u]
    BY <1>2, IdlePlace DEF SessionInv, IInv, AskedInv
  <2>3. \A n \in DOMAIN s2c'[u] : s2c'[u][n] = p
    BY <1>4, <2>2 DEF Adds
  <2>4. myId[u] = 0 /\ Unnamed(u)
    BY <1>2, <2>1, <2>2 DEF NameInv, TellsId
  <2>5. ~Answered(u)' /\ ~Entering(u)' /\ ~Stays(u)' /\ ~Leaves(u)' /\ ~InHand(u)'
    BY <1>2, <1>3, <2>2, <2>3
       DEF Answered, Answering, Entering, EnterOk, Stays, Leaves, InHand
  <2>6. QuestionInv(u)'
    BY <1>2, <2>2, <2>5 DEF QuestionInv, Answered
  <2>7. StateInv(u)'
    BY <1>2, <1>3, <2>2, <2>3 DEF StateInv
  <2>8. NameInv(u)'
    BY <1>2, <1>3, <2>1, <2>2, <2>3, <2>4 DEF NameInv, Unnamed, Owns
  <2>9. LeaveInv(u)'
    BY <1>2, <2>2 DEF LeaveInv
  <2>10. AimInv(u)'
    BY <1>2, <2>2, <2>5 DEF AimInv
  <2>11. HearInv(u)'
    BY <1>3, <2>3 DEF HearInv
  <2>12. PlaceInv(u)'
    BY <1>2, <2>4 DEF PlaceInv, Owns, Unnamed
  <2> QED
    BY <2>6, <2>7, <2>8, <2>9, <2>10, <2>11, <2>12 DEF Settled
<1> QED
  BY <1>2, <1>5, <1>6

\* Of a session that is gone nothing is on its way; its player stays where it is.
LEMMA QuitSettled ==
    ASSUME IInv, NEW u \in Users, Quit(u),
           \A v \in Users \ hasty : Settled(v)
    PROVE  \A v \in Users \ hasty' : Settled(v)'
<1>1. /\ handler[u] = Idle /\ live' = [live EXCEPT ![u] = "gone"]
      /\ c2s' = [c2s EXCEPT ![u] = <<>>] /\ s2c' = [s2c EXCEPT ![u] = <<>>]
      /\ players' = players /\ rooms' = rooms /\ members' = members /\ handler' = handler
      /\ crashed' = crashed /\ state' = state /\ myId' = myId
      /\ leaving' = leaving /\ asked' = asked /\ aim' = aim /\ hasty' = hasty
  BY DEF Quit, tables, client, user
<1>2. /\ live'[u] = "gone" /\ DOMAIN c2s'[u] = {} /\ DOMAIN s2c'[u] = {} /\ handler'[u].at = "idle"
      /\ \A v \in Users \ {u} : live'[v] = live[v] /\ c2s'[v] = c2s[v] /\ s2c'[v] = s2c[v]
  <2>1. live \in [Users -> {"no", "yes", "gone"}] /\ c2s \in [Users -> Seq(Request)] /\ s2c \in [Users -> Seq(Answer)]
    BY DEF IInv, TypeInv, QueueTypes, ClientTypes
  <2>2. c2s'[u] = <<>> /\ s2c'[u] = <<>>
    BY <1>1, <2>1
  <2> QED
    BY <1>1, <2>1, <2>2, IdlePlace
<1>3. ASSUME NEW v \in Users \ {u}, Settled(v)
      PROVE  Settled(v)'
  BY <1>1, <1>2, <1>3, UntouchedStep
<1>4. ASSUME Settled(u)
      PROVE  Settled(u)'
  <2>1. /\ StateInv(u) /\ NameInv(u) /\ AimInv(u) /\ PlaceInv(u)
    BY <1>4 DEF Settled
  <2>2. /\ ~Answered(u)' /\ ~Entering(u)' /\ ~Leaves(u)' /\ ~InHand(u)' /\ (Stays(u)' <=> Stays(u))
        /\ Home(u)' = Home(u)
    BY <1>1, <1>2 DEF Answered, Entering, Leaves, InHand, Stays, Home
  <2>3. QuestionInv(u)'
    BY <1>2, <2>2 DEF QuestionInv
  <2>4. StateInv(u)'
    BY <1>1, <1>2, <2>1 DEF StateInv
  <2>5. NameInv(u)'
    BY <1>1, <1>2, <2>1 DEF NameInv, Owns
  <2>6. LeaveInv(u)'
    BY <1>2 DEF LeaveInv
  <2>7. AimInv(u)'
    BY <1>1, <1>2, <2>1, <2>2 DEF AimInv
  <2>8. HearInv(u)'
    BY <1>2 DEF HearInv
  <2>9. PlaceInv(u)'
    BY <1>1, <1>2, <2>1 DEF PlaceInv, Owns
  <2> QED
    BY <2>3, <2>4, <2>5, <2>6, <2>7, <2>8, <2>9 DEF Settled
<1> QED
  BY <1>1, <1>3, <1>4

\* What a packet does to its client.
Received(u, p) ==
    /\ Drops(s2c[u], s2c'[u], 1) /\ 1 \in DOMAIN s2c[u] /\ s2c[u][1] = p /\ p \in Answer
    /\ UNCHANGED <<server, c2s>> /\ leaving'[u] = leaving[u] /\ aim'[u] = aim[u]
    /\ state'[u] = NextState(u, p)
    /\ myId'[u] = IF p.kind = "nameFree" THEN p.id ELSE myId[u]
    /\ asked'[u] \in BOOLEAN
    /\ asked'[u] <=> asked[u] /\ p.kind \notin {"nameTaken", "nameFree", "enterRoom"}

LEMMA ReceivedSteps ==
    ASSUME IInv, NEW u \in Users, Receive(u)
    PROVE  /\ \E p : Received(u, p)
           /\ \A v \in Users \ {u} : /\ state'[v] = state[v] /\ myId'[v] = myId[v]
                                     /\ asked'[v] = asked[v] /\ s2c'[v] = s2c[v]
<1>1. PICK p : p = Head(s2c[u])
  OBVIOUS
<1>2. /\ s2c[u] # <<>> /\ s2c' = [s2c EXCEPT ![u] = Tail(s2c[u])]
      /\ state' = [state EXCEPT ![u] = NextState(u, p)]
      /\ myId' = [myId EXCEPT ![u] = IF p.kind = "nameFree" THEN p.id ELSE @]
      /\ asked' = [asked EXCEPT ![u] = @ /\ p.kind \notin {"nameTaken", "nameFree", "enterRoom"}]
      /\ UNCHANGED <<server, c2s>> /\ leaving' = leaving /\ aim' = aim
  BY <1>1 DEF Receive
<1>3. PICK s \in Seq(Answer) : s = s2c[u] /\ s # <<>>
  BY <1>2 DEF IInv, TypeInv, QueueTypes
<1>4. PICK t : t = Tail(s)
  OBVIOUS
<1>5. /\ Len(t) = Len(s) - 1 /\ \A i \in 1 .. Len(t) : t[i] = s[i + 1]
      /\ Len(s) \in Nat \ {0} /\ DOMAIN s = 1 .. Len(s) /\ DOMAIN t = 1 .. Len(t)
      /\ p = s[1] /\ p \in Answer
  BY <1>1, <1>3, <1>4, HeadTailProperties, EmptySeq
<1>6. s2c'[u] = t /\ \A v \in Users \ {u} : s2c'[v] = s2c[v]
  BY <1>2, <1>3, <1>4 DEF IInv, TypeInv, QueueTypes
<1>7. \A n \in DOMAIN s : n > 1 => n - 1 \in DOMAIN t /\ t[n - 1] = s[n]
  BY <1>5
<1>8. Drops(s2c[u], s2c'[u], 1) /\ 1 \in DOMAIN s2c[u] /\ s2c[u][1] = p
  BY <1>3, <1>5, <1>6, <1>7 DEF Drops
<1>9. /\ state \in [Users -> {"Connecting", "WaitingNickname", "Lobby", "InRoom"}]
      /\ myId \in [Users -> Int] /\ asked \in [Users -> BOOLEAN]
  BY DEF IInv, TypeInv, ClientTypes
<1>10. /\ state'[u] = NextState(u, p) /\ myId'[u] = (IF p.kind = "nameFree" THEN p.id ELSE myId[u])
       /\ \A v \in Users \ {u} : state'[v] = state[v] /\ myId'[v] = myId[v]
  BY <1>2, <1>9
<1>11. PICK b \in BOOLEAN : b = (asked[u] /\ p.kind \notin {"nameTaken", "nameFree", "enterRoom"})
  OBVIOUS
<1>12. asked' = [asked EXCEPT ![u] = b]
  BY <1>2, <1>11
<1>13. asked'[u] = b /\ \A v \in Users \ {u} : asked'[v] = asked[v]
  BY <1>9, <1>12
<1>14. Received(u, p)
  BY <1>2, <1>5, <1>8, <1>10, <1>11, <1>13 DEF Received
<1> QED
  BY <1>6, <1>10, <1>13, <1>14

\* A packet is received as the state it is for, and says where the user is.
LEMMA ReceivedSettled ==
    ASSUME IInv, NEW u \in Users, Settled(u), NEW p, Received(u, p)
    PROVE  Settled(u)'
<1>1. /\ QuestionInv(u) /\ StateInv(u) /\ NameInv(u) /\ LeaveInv(u) /\ AimInv(u) /\ HearInv(u)
      /\ PlaceInv(u)
  BY DEF Settled
<1>2. /\ players' = players /\ rooms' = rooms /\ members' = members /\ live' = live
      /\ handler' = handler /\ crashed' = crashed /\ c2s' = c2s /\ leaving'[u] = leaving[u]
      /\ aim'[u] = aim[u] /\ state'[u] = NextState(u, p)
      /\ myId'[u] = IF p.kind = "nameFree" THEN p.id ELSE myId[u]
      /\ (asked'[u] <=> asked[u] /\ ~Answering(p))
  BY DEF Received, server, tables, Answering
<1>3. /\ 1 \in DOMAIN s2c[u] /\ s2c[u][1] = p /\ p \in Answer
      /\ \A n \in DOMAIN s2c[u] : n \in Nat \ {0}
      /\ \A n \in DOMAIN s2c'[u] : n \in Nat \ {0} /\ n + 1 \in DOMAIN s2c[u] /\ s2c'[u][n] = s2c[u][n + 1]
      /\ \A n \in DOMAIN s2c[u] : n > 1 => n - 1 \in DOMAIN s2c'[u] /\ s2c'[u][n - 1] = s2c[u][n]
  BY DEF Received, Drops
<1>4. /\ ClientKnown(u) /\ PlaceKnown(u) /\ AnswerKnown(u, p)
      /\ \A n \in DOMAIN c2s[u] : RequestKnown(u, c2s[u][n])
      /\ \A n \in DOMAIN s2c[u] : AnswerKnown(u, s2c[u][n])
  BY <1>3 DEF IInv, KnownInv
<1>5. \A n \in DOMAIN s2c'[u] : n + 1 \in DOMAIN s2c[u] /\ s2c'[u][n] = s2c[u][n + 1] /\ n + 1 > 1
  BY <1>3
<1>6. ASSUME Answering(p)
      PROVE  /\ asked[u] /\ ~asked'[u] /\ ~InHand(u) /\ DOMAIN c2s[u] = {} /\ ~Answered(u)'
             /\ ~leaving[u] /\ ~Stays(u) /\ ~Leaves(u) /\ handler[u].at # "left"
             /\ \A n \in DOMAIN s2c'[u] : ~Answering(s2c'[u][n])
  <2>1. Answered(u)
    BY <1>3, <1>6 DEF Answered
  <2>2. /\ asked[u] /\ ~asked'[u] /\ DOMAIN c2s[u] = {} /\ ~InHand(u)
        /\ \A m \in DOMAIN s2c[u] : Answering(s2c[u][m]) => m = 1
    BY <1>1, <1>2, <1>3, <1>6, <2>1 DEF QuestionInv
  <2>3. \A n \in DOMAIN s2c'[u] : ~Answering(s2c'[u][n])
    <3> SUFFICES ASSUME NEW n \in DOMAIN s2c'[u], Answering(s2c'[u][n])
                 PROVE  FALSE
      OBVIOUS
    <3>1. n + 1 = 1
      BY <1>5, <2>2
    <3> QED
      BY <1>5, <3>1
  <2> QED
    BY <1>1, <2>1, <2>2, <2>3 DEF StateInv, LeaveInv, Answered, Stays, Leaves
<1>7. ASSUME ~Answering(p)
      PROVE  (Answered(u)' <=> Answered(u)) /\ (Entering(u)' <=> Entering(u)) /\ (TellsId(u)' <=> TellsId(u))
  <2>1. \A n \in DOMAIN s2c[u] : Answering(s2c[u][n]) =>
            \E m \in DOMAIN s2c'[u] : s2c'[u][m] = s2c[u][n]
    <3> SUFFICES ASSUME NEW n \in DOMAIN s2c[u], Answering(s2c[u][n])
                 PROVE  n - 1 \in DOMAIN s2c'[u] /\ s2c'[u][n - 1] = s2c[u][n]
      OBVIOUS
    <3>1. n > 1
      BY <1>3, <1>7
    <3> QED
      BY <1>3, <3>1
  <2>2. Answered(u)' <=> Answered(u)
    BY <1>5, <2>1 DEF Answered
  <2>3. Entering(u)' <=> Entering(u)
    BY <1>5, <2>1 DEF Entering, EnterOk, Answering
  <2>4. TellsId(u)' <=> TellsId(u)
    BY <1>5, <2>1 DEF TellsId, Answering
  <2> QED
    BY <2>2, <2>3, <2>4
<1>8. /\ InHand(u)' <=> InHand(u)
      /\ Leaves(u)' <=> Leaves(u)
      /\ Enters(u)' <=> Enters(u)
  BY <1>2 DEF InHand, Leaves, Enters
<1>9. CASE p.kind = "prompt"
  <2>1. myId[u] = 0 /\ ~Answering(p) /\ state'[u] = "WaitingNickname" /\ myId'[u] = 0
        /\ (asked'[u] <=> asked[u])
    BY <1>1, <1>2, <1>3, <1>9 DEF NameInv, Answering, NextState
  <2>2. /\ state[u] \notin {"Lobby", "InRoom"} /\ ~leaving[u]
        /\ \A n \in DOMAIN c2s[u] : c2s[u][n].kind \notin {"joinRoom", "chatRoom", "leaveRoom"}
        /\ \A n \in DOMAIN s2c[u] : s2c[u][n].kind # "enterRoom"
        /\ handler[u].at \notin {"joined", "answered", "left"}
    BY <1>4, <2>1 DEF ClientKnown, RequestKnown, AnswerKnown, PlaceKnown
  <2>3. ~Stays(u) /\ ~Stays(u)' /\ ~Leaves(u) /\ ~Entering(u)
    BY <2>1, <2>2 DEF Stays, Leaves, Entering, EnterOk
  <2>4. (Within(u)' <=> Within(u)) /\ Home(u)' = Home(u)
    BY <1>2, <1>7, <1>8, <2>1, <2>3 DEF Within, Home
  <2>5. QuestionInv(u)'
    <3>1. ASSUME NEW n \in DOMAIN s2c'[u], Answering(s2c'[u][n])
          PROVE  \A m \in DOMAIN s2c'[u] : Answering(s2c'[u][m]) => m = n
      <4>1. ASSUME NEW m \in DOMAIN s2c'[u], Answering(s2c'[u][m])
            PROVE  m + 1 = n + 1
        BY <1>1, <1>5, <3>1, <4>1 DEF QuestionInv
      <4> QED
        BY <1>3, <4>1
    <3> QED
      BY <1>1, <1>2, <1>7, <1>8, <2>1, <3>1 DEF QuestionInv, Answered
  <2>6. StateInv(u)'
    BY <1>2, <1>5, <2>1, <2>2 DEF StateInv
  <2>7. NameInv(u)'
    <3>1. ASSUME NEW m \in DOMAIN s2c'[u], NEW n \in DOMAIN s2c'[u], s2c'[u][m].kind = "prompt",
                 s2c'[u][n].kind = "nameFree"
          PROVE  m < n
      <4>1. m + 1 < n + 1
        BY <1>1, <1>5, <3>1 DEF NameInv
      <4> QED
        BY <1>3, <4>1
    <3> QED
      BY <1>1, <1>2, <1>7, <2>1, <3>1 DEF NameInv, Unnamed, Owns
  <2>8. LeaveInv(u)'
    BY <1>2, <2>2, <2>3 DEF LeaveInv
  <2>9. AimInv(u)'
    BY <1>2, <1>7, <2>1, <2>2, <2>3 DEF AimInv
  <2>10. HearInv(u)'
    BY <1>5, <2>1, <2>2 DEF HearInv, EnterOk
  <2>11. PlaceInv(u)'
    BY <1>1, <1>2, <2>4 DEF PlaceInv, Owns, RoomExists
  <2> QED
    BY <2>5, <2>6, <2>7, <2>8, <2>9, <2>10, <2>11 DEF Settled
<1>10. ASSUME Answering(p)
       PROVE  /\ QuestionInv(u)' /\ ~Entering(u)' /\ ~Leaves(u)' /\ ~InHand(u)'
              /\ \A n \in DOMAIN s2c'[u] : s2c'[u][n].kind \notin {"nameTaken", "nameFree", "enterRoom"}
              /\ DOMAIN c2s'[u] = {} /\ ~leaving'[u]
  <2>1. /\ ~InHand(u)' /\ ~Leaves(u)' /\ DOMAIN c2s'[u] = {} /\ ~leaving'[u]
        /\ \A n \in DOMAIN s2c'[u] : ~Answering(s2c'[u][n])
    BY <1>2, <1>6, <1>8, <1>10
  <2>2. QuestionInv(u)'
    BY <2>1 DEF QuestionInv
  <2>3. ~Entering(u)'
    BY <2>1 DEF Entering, EnterOk, Answering
  <2> QED
    BY <2>1, <2>2, <2>3 DEF Answering
<1>11. CASE p.kind = "nameTaken"
  <2>1. /\ Answering(p) /\ state[u] = "WaitingNickname" /\ state'[u] = "WaitingNickname"
        /\ myId'[u] = myId[u]
    BY <1>1, <1>2, <1>3, <1>11 DEF StateInv, Answering, NextState
  <2>2. ~Stays(u) /\ ~Stays(u)' /\ ~Leaves(u) /\ ~Entering(u)
    <3>1. \A m \in DOMAIN s2c[u] : Answering(s2c[u][m]) => m = 1
      BY <1>1, <1>3, <2>1 DEF QuestionInv
    <3>2. ~Entering(u)
      BY <1>3, <1>11, <3>1 DEF Entering, EnterOk, Answering
    <3> QED
      BY <1>6, <2>1, <3>2 DEF Stays
  <2>3. (Within(u)' <=> Within(u)) /\ Home(u)' = Home(u)
    BY <1>2, <1>8, <1>10, <2>1, <2>2 DEF Within, Home
  <2>4. StateInv(u)'
    BY <1>2, <1>6, <1>10, <2>1 DEF StateInv, InHand
  <2>5. NameInv(u)'
    <3>1. TellsId(u)' <=> TellsId(u)
      <4>1. ~TellsId(u)'
        BY <1>10, <2>1 DEF TellsId
      <4>2. \A m \in DOMAIN s2c[u] : Answering(s2c[u][m]) => m = 1
        BY <1>1, <1>3, <2>1 DEF QuestionInv
      <4>3. ~TellsId(u)
        BY <1>3, <1>11, <4>2 DEF TellsId, Answering
      <4> QED
        BY <4>1, <4>3
    <3> QED
      BY <1>1, <1>2, <1>5, <1>10, <2>1, <3>1 DEF NameInv, Unnamed, Owns
  <2>6. LeaveInv(u)'
    BY <1>1, <1>2, <1>6, <1>8, <1>10, <2>1, <2>2 DEF LeaveInv
  <2>7. AimInv(u)'
    BY <1>2, <1>6, <1>10, <2>1, <2>2 DEF AimInv, InHand
  <2>8. HearInv(u)'
    BY <1>10, <2>1 DEF HearInv, EnterOk
  <2>9. PlaceInv(u)'
    BY <1>1, <1>2, <2>3 DEF PlaceInv, Owns, RoomExists
  <2> QED
    BY <1>10, <2>1, <2>4, <2>5, <2>6, <2>7, <2>8, <2>9 DEF Settled
<1>12. CASE p.kind = "nameFree"
  <2>1. /\ Answering(p) /\ state[u] = "WaitingNickname" /\ state'[u] = "Lobby"
        /\ myId'[u] = p.id /\ Owns(u, p.id) /\ ~Stays(u) /\ ~Stays(u)'
    BY <1>1, <1>2, <1>3, <1>4, <1>12
       DEF StateInv, Answering, NextState, AnswerKnown, Stays
  <2>2. /\ \A m \in DOMAIN s2c[u] : Answering(s2c[u][m]) => m = 1
        /\ \A m \in DOMAIN s2c[u] : s2c[u][m].kind # "prompt"
    <3>1. \A m \in DOMAIN s2c[u] : s2c[u][m].kind = "prompt" => m < 1
      BY <1>1, <1>3, <1>12 DEF NameInv
    <3> QED
      BY <1>1, <1>3, <2>1, <3>1 DEF QuestionInv
  <2>3. ~Entering(u) /\ myId[u] = 0
    BY <1>1, <1>3, <1>12, <2>1, <2>2 DEF Entering, EnterOk, Answering, NameInv
  <2>4. handler[u].at \notin {"joined", "answered", "left"}
    BY <1>4, <2>3 DEF PlaceKnown
  <2>5. ~Within(u) /\ ~Within(u)'
    BY <1>2, <1>6, <1>10, <2>1, <2>3, <2>4 DEF Within, Enters
  <2>6. StateInv(u)'
    BY <1>2, <1>6, <1>10, <2>1 DEF StateInv, InHand
  <2>7. NameInv(u)'
    <3>1. \A n \in DOMAIN s2c'[u] : s2c'[u][n].kind # "prompt"
      BY <1>5, <2>2
    <3>2. p.id # 0
      <4>1. DOMAIN players = 1 .. Len(players) /\ Len(players) \in Nat
        BY DEF IInv, TypeInv, ServerTypes
      <4> QED
        BY <2>1, <4>1 DEF Owns
    <3> QED
      BY <1>1, <1>2, <1>6, <1>10, <2>1, <3>1, <3>2 DEF NameInv, Owns, InHand
  <2>8. LeaveInv(u)'
    BY <1>2, <1>10, <2>1, <2>4 DEF LeaveInv
  <2>9. AimInv(u)'
    BY <1>2, <1>10, <2>1, <2>4 DEF AimInv
  <2>10. HearInv(u)'
    BY <1>10, <2>1 DEF HearInv, EnterOk
  <2>11. PlaceInv(u)'
    BY <1>1, <1>2, <2>5 DEF PlaceInv, Owns
  <2> QED
    BY <1>10, <2>1, <2>6, <2>7, <2>8, <2>9, <2>10, <2>11 DEF Settled
<1>13. CASE p.kind = "enterRoom"
  <2>1. /\ Answering(p) /\ state[u] = "Lobby" /\ myId'[u] = myId[u] /\ ~Stays(u)
        /\ state'[u] = IF p.error = "ok" THEN "InRoom" ELSE "Lobby"
    BY <1>1, <1>2, <1>3, <1>13
       DEF StateInv, Answering, NextState, Stays
  <2>2. \A m \in DOMAIN s2c[u] : Answering(s2c[u][m]) => m = 1
    BY <1>1, <1>3, <2>1 DEF QuestionInv
  <2>3. Entering(u) <=> p.error = "ok"
    BY <1>3, <1>13, <2>2 DEF Entering, EnterOk, Answering
  <2>4. Stays(u)' <=> p.error = "ok"
    BY <1>10, <2>1 DEF Stays
  <2>5. (Within(u)' <=> Within(u)) /\ Home(u)' = Home(u)
    BY <1>2, <1>6, <1>8, <1>10, <2>1, <2>3, <2>4 DEF Within, Home
  <2>6. StateInv(u)'
    BY <1>2, <1>6, <1>10, <2>1 DEF StateInv, InHand
  <2>7. NameInv(u)'
    <3>1. myId[u] # 0
      BY <1>4, <1>13 DEF AnswerKnown
    <3>2. \A n \in DOMAIN s2c'[u] : s2c'[u][n].kind # "prompt"
      BY <1>1, <1>5, <3>1 DEF NameInv
    <3> QED
      BY <1>1, <1>2, <1>6, <1>10, <2>1, <3>1, <3>2 DEF NameInv, Owns, InHand
  <2>8. LeaveInv(u)'
    <3>1. handler'[u].at = "answered" =>
            IF Enters(u)' THEN Entering(u)' \/ Stays(u)' \/ Leaves(u)'
            ELSE state'[u] = "Lobby" /\ ~Entering(u)' /\ ~Leaves(u)'
      BY <1>1, <1>2, <1>6, <1>8, <1>10, <2>1, <2>3, <2>4 DEF LeaveInv
    <3> QED
      BY <1>2, <1>6, <1>10, <2>1, <3>1 DEF LeaveInv
  <2>9. AimInv(u)'
    BY <1>1, <1>2, <1>6, <1>10, <2>1, <2>3, <2>4, <2>5 DEF AimInv, InHand
  <2>10. HearInv(u)'
    <3>1. ASSUME NEW n \in DOMAIN s2c'[u], s2c'[u][n].kind = "chatRoom", state'[u] = "InRoom"
          PROVE  s2c'[u][n].room = aim'[u]
      <4>1. EnterOk(p)
        BY <1>13, <2>1, <3>1 DEF EnterOk
      <4> QED
        BY <1>1, <1>2, <1>3, <1>5, <3>1, <4>1 DEF HearInv
    <3> QED
      BY <1>10, <2>1, <3>1 DEF HearInv, EnterOk
  <2>11. PlaceInv(u)'
    BY <1>1, <1>2, <2>5 DEF PlaceInv, Owns, RoomExists
  <2> QED
    BY <1>10, <2>1, <2>6, <2>7, <2>8, <2>9, <2>10, <2>11 DEF Settled
<1>14. CASE p.kind \in {"roomList", "createRoom", "roomEvent", "chatRoom"}
  <2>1. ~Answering(p) /\ state'[u] = state[u] /\ myId'[u] = myId[u] /\ (asked'[u] <=> asked[u])
    BY <1>2, <1>14 DEF Answering, NextState
  <2>2. Stays(u)' <=> Stays(u)
    BY <1>2, <2>1 DEF Stays
  <2>3. (Within(u)' <=> Within(u)) /\ Home(u)' = Home(u)
    BY <1>2, <1>7, <1>8, <2>1, <2>2 DEF Within, Home
  <2>4. QuestionInv(u)'
    <3>1. ASSUME NEW n \in DOMAIN s2c'[u], Answering(s2c'[u][n])
          PROVE  \A m \in DOMAIN s2c'[u] : Answering(s2c'[u][m]) => m = n
      <4>1. ASSUME NEW m \in DOMAIN s2c'[u], Answering(s2c'[u][m])
            PROVE  m + 1 = n + 1
        BY <1>1, <1>5, <3>1, <4>1 DEF QuestionInv
      <4> QED
        BY <1>3, <4>1
    <3> QED
      BY <1>1, <1>2, <1>7, <1>8, <2>1, <3>1 DEF QuestionInv, Answered
  <2>5. StateInv(u)'
    BY <1>1, <1>2, <1>5, <2>1 DEF StateInv
  <2>6. NameInv(u)'
    <3>1. ASSUME NEW m \in DOMAIN s2c'[u], NEW n \in DOMAIN s2c'[u], s2c'[u][m].kind = "prompt",
                 s2c'[u][n].kind = "nameFree"
          PROVE  m < n
      <4>1. m + 1 < n + 1
        BY <1>1, <1>5, <3>1 DEF NameInv
      <4> QED
        BY <1>3, <4>1
    <3>2. \A m \in DOMAIN s2c'[u] : s2c'[u][m].kind = "prompt" => myId'[u] = 0
      BY <1>1, <1>5, <2>1 DEF NameInv
    <3> QED
      BY <1>1, <1>2, <1>7, <2>1, <3>1, <3>2 DEF NameInv, Unnamed, Owns
  <2>7. LeaveInv(u)'
    BY <1>1, <1>2, <1>7, <1>8, <2>1, <2>2 DEF LeaveInv
  <2>8. AimInv(u)'
    BY <1>1, <1>2, <1>7, <1>8, <2>1, <2>2, <2>3 DEF AimInv
  <2>9. HearInv(u)'
    <3>1. ASSUME NEW n \in DOMAIN s2c'[u], s2c'[u][n].kind = "chatRoom", NEW m \in DOMAIN s2c'[u],
                 m < n, EnterOk(s2c'[u][m])
          PROVE  s2c'[u][n].room = aim'[u]
      <4>1. m + 1 < n + 1
        BY <1>3, <3>1
      <4> QED
        BY <1>1, <1>2, <1>5, <3>1, <4>1 DEF HearInv
    <3> QED
      BY <1>1, <1>2, <1>5, <2>1, <3>1 DEF HearInv, EnterOk
  <2>10. PlaceInv(u)'
    BY <1>1, <1>2, <2>3 DEF PlaceInv, Owns, RoomExists
  <2> QED
    BY <2>4, <2>5, <2>6, <2>7, <2>8, <2>9, <2>10 DEF Settled
<1>15. p.kind \in {"prompt", "nameTaken", "nameFree", "enterRoom", "roomList", "createRoom", "roomEvent", "chatRoom"}
  BY <1>3 DEF Answer
<1> QED
  BY <1>9, <1>11, <1>12, <1>13, <1>14, <1>15

LEMMA ReceiveSettled ==
    ASSUME IInv, NEW u \in Users, Receive(u),
           \A v \in Users \ hasty : Settled(v)
    PROVE  \A v \in Users \ hasty' : Settled(v)'
<1>1. /\ players' = players /\ rooms' = rooms /\ members' = members /\ live' = live
      /\ handler' = handler /\ crashed' = crashed /\ c2s' = c2s /\ leaving' = leaving
      /\ aim' = aim /\ hasty' = hasty
  BY DEF Receive, server, tables
<1>2. PICK p : Received(u, p)
  BY ReceivedSteps
<1>3. \A v \in Users \ {u} : /\ state'[v] = state[v] /\ myId'[v] = myId[v]
                             /\ asked'[v] = asked[v] /\ s2c'[v] = s2c[v]
  BY ReceivedSteps
<1>4. ASSUME NEW v \in Users \ {u}, Settled(v)
      PROVE  Settled(v)'
  BY <1>1, <1>3, <1>4, UntouchedStep
<1>5. ASSUME Settled(u)
      PROVE  Settled(u)'
  BY <1>2, <1>5, ReceivedSettled
<1> QED
  BY <1>1, <1>4, <1>5

LEMMA SettledStep ==
    ASSUME IInv, SessionInv, \A v \in Users \ hasty : Settled(v), [Next]_vars
    PROVE  \A v \in Users \ hasty' : Settled(v)'
<1>1. CASE UNCHANGED vars
  BY <1>1, UntouchedStep DEF vars, server, tables, client, user
<1>2. ASSUME NEW u \in Users, Handle(u)
      PROVE  \A v \in Users \ hasty' : Settled(v)'
  BY <1>2, SetNicknameSettled, AnswerNameTakenSettled, AnswerNameFreeSettled, RequestRoomListSettled,
     CreateRoomSettled, JoinRoomSettled, AnswerJoinSettled, AssignRoomSettled, ChatRoomSettled,
     LeaveRoomSettled, ForgetRoomSettled DEF Handle
<1> QED
  BY <1>1, <1>2, OnConnectedSettled, QuitSettled, LinesSettled, BackToLobbySettled, ReceiveSettled
     DEF Next

-----------------------------------------------------------------------------
(* What is true of all users *)

\* Members have a session, and players keep theirs.
MembersKeep(u) ==
    /\ \A id \in DOMAIN players : players[id].session # NoUser =>
          id \in DOMAIN players' /\ players'[id].session # NoUser
    /\ \A r \in DOMAIN members' : \A id \in members'[r] :
          Owns(u, id) \/ (r \in DOMAIN members /\ id \in members[r])

\* A handler is one of a session that is there, and leaves the others alone.
LEMMA HandlerSession ==
    ASSUME IInv, SessionInv, NEW u \in Users, live[u] = "yes", UNCHANGED <<live, client>>,
           \A v \in Users \ {u} : handler'[v] = handler[v] /\ c2s'[v] = c2s[v],
           \A v \in Users : live[v] # "yes" /\ DOMAIN s2c[v] = {} => DOMAIN s2c'[v] = {},
           MembersKeep(u)
    PROVE  SessionInv'
<1>1. live' = live /\ state' = state /\ leaving' = leaving /\ aim' = aim
  BY DEF client, user
<1>2. \A v \in Users : live'[v] # "yes" =>
          handler'[v] = Idle /\ DOMAIN c2s'[v] = {} /\ DOMAIN s2c'[v] = {}
  BY <1>1 DEF SessionInv
<1>3. ASSUME NEW r \in DOMAIN members', NEW id \in members'[r]
      PROVE  players'[id].session # NoUser
  <2>1. id \in DOMAIN players /\ players[id].session # NoUser
    <3>1. CASE Owns(u, id)
      BY <3>1, UsersAssumption DEF Owns
    <3>2. CASE r \in DOMAIN members /\ id \in members[r]
      BY <3>2 DEF SessionInv, IInv, TableInv
    <3> QED
      BY <1>3, <3>1, <3>2 DEF MembersKeep
  <2> QED
    BY <2>1 DEF MembersKeep
<1> QED
  BY <1>1, <1>2, <1>3 DEF SessionInv

\* A handler that is somewhere is that of a session that is there.
LEMMA AtLive ==
    ASSUME SessionInv, NEW u \in Users, NEW at, At(u, at), at # "idle"
    PROVE  crashed = {} /\ live[u] = "yes"
BY IdlePlace DEF SessionInv, At

\* What is sent from a session's own handler goes to a session that is there.
LEMMA SendLive ==
    ASSUME IInv, NEW u \in Users, live[u] = "yes", NEW q, Send(u, q)
    PROVE  \A v \in Users : live[v] # "yes" => s2c'[v] = s2c[v]
BY DEF Send, IInv, TypeInv, QueueTypes

LEMMA TellLive ==
    ASSUME IInv, NEW ids, ids \subseteq DOMAIN players, NEW p \in Answer, Tell(ids, p)
    PROVE  \A v \in Users : live[v] # "yes" /\ DOMAIN s2c[v] = {} => DOMAIN s2c'[v] = {}
<1> SUFFICES ASSUME NEW v \in Users, live[v] # "yes", DOMAIN s2c[v] = {}
             PROVE  DOMAIN s2c'[v] = {}
  OBVIOUS
<1>1. Grows(s2c[v], s2c'[v], {})
  BY TellReaches DEF IInv
<1> QED
  BY <1>1 DEF Grows

\* A crash has a cause that nothing heals.
Explained == SessionInv /\ CrashHasCause

LEMMA NameExplained ==
    ASSUME IInv, Explained, NEW u \in Users,
           HandleSetNickname(u) \/ AnswerNameTaken(u) \/ AnswerNameFree(u)
    PROVE  Explained'
<1>1. players \in Seq(Player) /\ handler \in [Users -> Place] /\ c2s \in [Users -> Seq(Request)]
  BY DEF IInv, TypeInv, ServerTypes, QueueTypes
<1>2. CASE HandleSetNickname(u)
  <2>1. PICK name, where : /\ Takes(u, "setNickname") /\ UNCHANGED <<rooms, members, live, crashed, s2c, client>>
                           /\ Goto(u, where)
                           /\ \/ players' = players
                              \/ players' = Append(players, [name |-> name, session |-> NoUser, roomId |-> 0])
    BY <1>2 DEF HandleSetNickname
  <2>2. PICK new : new = [name |-> name, session |-> NoUser, roomId |-> 0]
    OBVIOUS
  <2>3. \A id \in DOMAIN players : id \in DOMAIN players' /\ players'[id] = players[id]
    <3>1. PICK t : t = Append(players, new)
      OBVIOUS
    <3>2. \A id \in DOMAIN players : id \in DOMAIN t /\ t[id] = players[id]
      BY <1>1, <3>1
    <3> QED
      BY <2>1, <2>2, <3>1, <3>2
  <2>4. crashed = {} /\ live[u] = "yes" /\ \A v \in Users \ {u} : c2s'[v] = c2s[v] /\ handler'[v] = handler[v]
    BY <1>1, <2>1, TakesFirst DEF IInv, Goto
  <2>5. MembersKeep(u)
    BY <2>1, <2>3 DEF MembersKeep
  <2>6. SessionInv'
    BY <2>1, <2>4, <2>5, HandlerSession DEF Explained
  <2> QED
    BY <2>1, <2>4, <2>6 DEF Explained, CrashHasCause
<1>3. CASE AnswerNameTaken(u)
  <2>1. PICK q : /\ At(u, "nameTaken") /\ Send(u, q) /\ Goto(u, Idle)
                 /\ UNCHANGED <<tables, live, crashed, c2s, client>>
    BY <1>3 DEF AnswerNameTaken
  <2>2. crashed = {} /\ live[u] = "yes"
    BY <2>1, AtLive DEF Explained
  <2>3. \A v \in Users : live[v] # "yes" => s2c'[v] = s2c[v]
    BY <2>1, <2>2, SendLive
  <2>4. \A v \in Users \ {u} : handler'[v] = handler[v]
    BY <1>1, <2>1 DEF Goto
  <2>5. MembersKeep(u)
    BY <2>1 DEF MembersKeep, tables
  <2>6. SessionInv'
    BY <2>1, <2>2, <2>3, <2>4, <2>5, HandlerSession DEF Explained
  <2> QED
    BY <2>1, <2>2, <2>6 DEF Explained, CrashHasCause
<1>4. CASE AnswerNameFree(u)
  <2>1. PICK q : /\ At(u, "nameFree") /\ Send(u, q) /\ Goto(u, Idle)
                 /\ players' = [players EXCEPT ![handler[u].id].session = u]
                 /\ UNCHANGED <<rooms, members, live, crashed, c2s, client>>
    BY <1>4 DEF AnswerNameFree
  <2>2. crashed = {} /\ live[u] = "yes"
    BY <2>1, AtLive DEF Explained
  <2>3. \A v \in Users : live[v] # "yes" => s2c'[v] = s2c[v]
    BY <2>1, <2>2, SendLive
  <2>4. \A v \in Users \ {u} : handler'[v] = handler[v]
    BY <1>1, <2>1 DEF Goto
  <2>5. \A id \in DOMAIN players : id \in DOMAIN players' /\ players'[id].session \in {players[id].session, u}
    <3> PICK i : i = handler[u].id
      OBVIOUS
    <3>1. players' = [players EXCEPT ![i].session = u]
      BY <2>1
    <3> QED
      BY <1>1, <3>1 DEF Player
  <2>6. MembersKeep(u)
    BY <2>1, <2>5, UsersAssumption DEF MembersKeep
  <2>7. SessionInv'
    BY <2>1, <2>2, <2>3, <2>4, <2>6, HandlerSession DEF Explained
  <2> QED
    BY <2>1, <2>2, <2>7 DEF Explained, CrashHasCause
<1> QED
  BY <1>2, <1>3, <1>4

LEMMA RoomListExplained ==
    ASSUME IInv, Explained, NEW u \in Users, HandleRequestRoomList(u) \/ HandleCreateRoom(u)
    PROVE  Explained'
<1>1. PICK k, q : /\ Takes(u, k) /\ Send(u, q) /\ UNCHANGED <<players, live, handler, crashed, client>>
                  /\ members' = members \/ members' = Append(members, {})
  BY DEF HandleRequestRoomList, HandleCreateRoom, server, tables
<1>2. crashed = {} /\ live[u] = "yes" /\ \A v \in Users \ {u} : c2s'[v] = c2s[v]
  BY <1>1, TakesFirst DEF IInv
<1>3. \A v \in Users : live[v] # "yes" => s2c'[v] = s2c[v]
  BY <1>1, <1>2, SendLive
<1>4. members \in Seq(SUBSET Int)
  BY DEF IInv, TypeInv, ServerTypes
<1>5. \A r \in DOMAIN members' : members'[r] = {} \/ (r \in DOMAIN members /\ members'[r] = members[r])
  <2>1. CASE members' = members
    BY <2>1
  <2>2. CASE members' = Append(members, {})
    <3>1. PICK n \in Nat : n = Len(members) /\ DOMAIN members = 1 .. n
      BY <1>4
    <3>2. {} \in SUBSET Int
      OBVIOUS
    <3>3. DOMAIN members' = 1 .. n + 1 /\ members'[n + 1] = {} /\ \A r \in 1 .. n : members'[r] = members[r]
      BY <1>4, <2>2, <3>1, <3>2, AppendProperties
    <3>4. \A r \in 1 .. n + 1 : r = n + 1 \/ r \in 1 .. n
      OBVIOUS
    <3> QED
      BY <3>1, <3>3, <3>4
  <2> QED
    BY <1>1, <2>1, <2>2
<1>6. MembersKeep(u)
  BY <1>1, <1>5 DEF MembersKeep
<1>7. SessionInv'
  BY <1>1, <1>2, <1>3, <1>6, HandlerSession DEF Explained
<1> QED
  BY <1>1, <1>2, <1>7 DEF Explained, CrashHasCause

LEMMA RoomsHaveMembers ==
    ASSUME TypeInv
    PROVE  \A r : RoomExists(r) <=> r \in DOMAIN members
BY DEF TypeInv, ServerTypes, RoomExists

\* A crash that leaves the tables as they are, at a room with a lost member.
LEMMA LostExplains ==
    ASSUME NEW r \in DOMAIN members, Lost(members[r]) # {},
           NEW u \in Users, NEW where \in {"Room::Enter", "Room::Leave"},
           crashed' = {[by |-> u, in |-> where]},
           UNCHANGED <<players, members, live>>
    PROVE  CrashHasCause'
<1>1. Lost(members[r])' = Lost(members[r]) /\ r \in DOMAIN members'
  BY DEF Lost, GetPlayer
<1> QED
  BY <1>1 DEF CrashHasCause

LEMMA JoinExplained ==
    ASSUME IInv, Explained, NEW u \in Users, HandleJoinRoom(u)
    PROVE  Explained'
<1>1. PICK id, r : id = Head(c2s[u]).id /\ r = Head(c2s[u]).room
  OBVIOUS
<1>2. Takes(u, "joinRoom") /\ UNCHANGED <<players, rooms, live, client>>
  BY DEF HandleJoinRoom
<1>3. /\ crashed = {} /\ live[u] = "yes" /\ \A v \in Users \ {u} : c2s'[v] = c2s[v]
      /\ 1 \in DOMAIN c2s[u] /\ c2s[u][1].kind = "joinRoom" /\ c2s[u][1].id = id
  BY <1>1, <1>2, TakesFirst DEF IInv
<1>4. Owns(u, id) /\ id \in Int /\ handler \in [Users -> Place]
  BY <1>3 DEF IInv, KnownInv, RequestKnown, Owns, TypeInv, ServerTypes
<1>5. ASSUME UNCHANGED <<members, s2c>>, \A v \in Users \ {u} : handler'[v] = handler[v]
      PROVE  SessionInv'
  <2>1. MembersKeep(u)
    BY <1>2, <1>5 DEF MembersKeep
  <2> QED
    BY <1>2, <1>3, <1>5, <2>1, HandlerSession DEF Explained
<1>6. CASE ~RoomExists(r) \/ Full(r)
  <2>1. PICK e : /\ Goto(u, [at |-> "joined", id |-> id, room |-> r, error |-> e])
                 /\ UNCHANGED <<members, crashed, s2c>>
    BY <1>1, <1>6 DEF HandleJoinRoom
  <2>2. \A v \in Users \ {u} : handler'[v] = handler[v]
    BY <1>4, <2>1 DEF Goto
  <2> QED
    BY <1>3, <1>5, <2>1, <2>2 DEF Explained, CrashHasCause
<1>7. CASE RoomExists(r) /\ ~Full(r) /\ Lost(members[r] \cup {id}) # {}
  <2>1. UNCHANGED <<players, members, handler, s2c>> /\ crashed' = {[by |-> u, in |-> "Room::Enter"]}
    BY <1>1, <1>7 DEF HandleJoinRoom, Crash
  <2>2. r \in DOMAIN members
    BY <1>7, RoomsHaveMembers DEF IInv
  <2>3. id \notin Lost(members[r] \cup {id})
    BY <1>3, <1>4, UsersAssumption DEF Owns, Lost, GetPlayer
  <2>4. Lost(members[r]) # {}
    BY <1>7, <2>3 DEF Lost
  <2>5. CrashHasCause'
    BY <1>2, <2>1, <2>2, <2>4, LostExplains
  <2> QED
    BY <1>5, <2>1, <2>5 DEF Explained
<1>8. CASE RoomExists(r) /\ ~Full(r) /\ Lost(members[r] \cup {id}) = {}
  <2>1. PICK p, new : p = [kind |-> "roomEvent"] /\ new = members[r] \cup {id}
    OBVIOUS
  <2>2. /\ members' = [members EXCEPT ![r] = new] /\ crashed' = crashed /\ Tell(members'[r], p)
        /\ Goto(u, [at |-> "joined", id |-> id, room |-> r, error |-> "ok"])
    BY <1>1, <1>8, <2>1 DEF HandleJoinRoom
  <2>3. p \in Answer
    BY <2>1, Records
  <2>4. r \in DOMAIN members
    BY <1>8, RoomsHaveMembers DEF IInv
  <2>5. new \in SUBSET Int /\ new \subseteq DOMAIN players
    BY <1>4, <2>1, <2>4 DEF IInv, TypeInv, ServerTypes, TableInv, Owns
  <2>6. DOMAIN members' = DOMAIN members /\ members'[r] = new /\ \A q \in DOMAIN members \ {r} : members'[q] = members[q]
    BY <1>8, <2>2, <2>5, MembersSet DEF IInv
  <2>7. MembersKeep(u)
    BY <1>2, <1>4, <2>1, <2>6 DEF MembersKeep
  <2>8. \A v \in Users \ {u} : handler'[v] = handler[v]
    BY <1>4, <2>2 DEF Goto
  <2>9. \A v \in Users : live[v] # "yes" /\ DOMAIN s2c[v] = {} => DOMAIN s2c'[v] = {}
    BY <2>2, <2>3, <2>5, <2>6, TellLive
  <2>10. SessionInv'
    BY <1>2, <1>3, <2>7, <2>8, <2>9, HandlerSession DEF Explained
  <2> QED
    BY <1>3, <2>2, <2>10 DEF Explained, CrashHasCause
<1> QED
  BY <1>6, <1>7, <1>8

LEMMA LeaveExplained ==
    ASSUME IInv, Explained, NEW u \in Users, HandleLeaveRoom(u)
    PROVE  Explained'
<1>1. PICK id, r : id = Head(c2s[u]).id /\ r = GetRoomFromPlayerId(id)
  OBVIOUS
<1>2. Takes(u, "leaveRoom") /\ UNCHANGED <<players, rooms, live, client>>
  BY DEF HandleLeaveRoom
<1>3. /\ crashed = {} /\ live[u] = "yes" /\ \A v \in Users \ {u} : c2s'[v] = c2s[v]
      /\ 1 \in DOMAIN c2s[u] /\ c2s[u][1].kind = "leaveRoom" /\ c2s[u][1].id = id
  BY <1>1, <1>2, TakesFirst DEF IInv
<1>4. Owns(u, id) /\ id \in Int /\ handler \in [Users -> Place]
  BY <1>3 DEF IInv, KnownInv, RequestKnown, Owns, TypeInv, ServerTypes
<1>5. ASSUME UNCHANGED <<members, handler, s2c>>
      PROVE  SessionInv'
  <2>1. MembersKeep(u)
    BY <1>2, <1>5 DEF MembersKeep
  <2> QED
    BY <1>2, <1>3, <1>5, <2>1, HandlerSession DEF Explained
<1>6. CASE ~RoomExists(r)
  <2>1. UNCHANGED <<members, handler, crashed, s2c>>
    BY <1>1, <1>6 DEF HandleLeaveRoom
  <2> QED
    BY <1>3, <1>5, <2>1 DEF Explained, CrashHasCause
<1>7. CASE RoomExists(r) /\ Lost(members[r] \ {id}) # {}
  <2>1. UNCHANGED <<players, members, handler, s2c>> /\ crashed' = {[by |-> u, in |-> "Room::Leave"]}
    BY <1>1, <1>7 DEF HandleLeaveRoom, Crash
  <2>2. r \in DOMAIN members
    BY <1>7, RoomsHaveMembers DEF IInv
  <2>3. Lost(members[r]) # {}
    BY <1>7 DEF Lost
  <2>4. CrashHasCause'
    BY <1>2, <2>1, <2>2, <2>3, LostExplains
  <2> QED
    BY <1>5, <2>1, <2>4 DEF Explained
<1>8. CASE RoomExists(r) /\ Lost(members[r] \ {id}) = {}
  <2>1. PICK p, new : p = [kind |-> "roomEvent"] /\ new = members[r] \ {id}
    OBVIOUS
  <2>2. /\ members' = [members EXCEPT ![r] = new] /\ crashed' = crashed
        /\ Tell(members'[r] \cup {id}, p) /\ Goto(u, [at |-> "left", id |-> id])
    BY <1>1, <1>8, <2>1 DEF HandleLeaveRoom
  <2>3. p \in Answer
    BY <2>1, Records
  <2>4. r \in DOMAIN members
    BY <1>8, RoomsHaveMembers DEF IInv
  <2>5. new \in SUBSET Int /\ new \cup {id} \subseteq DOMAIN players
    BY <1>4, <2>1, <2>4 DEF IInv, TypeInv, ServerTypes, TableInv, Owns
  <2>6. DOMAIN members' = DOMAIN members /\ members'[r] = new /\ \A q \in DOMAIN members \ {r} : members'[q] = members[q]
    BY <1>8, <2>2, <2>5, MembersSet DEF IInv
  <2>7. MembersKeep(u)
    BY <1>2, <2>1, <2>6 DEF MembersKeep
  <2>8. \A v \in Users \ {u} : handler'[v] = handler[v]
    BY <1>4, <2>2 DEF Goto
  <2>9. \A v \in Users : live[v] # "yes" /\ DOMAIN s2c[v] = {} => DOMAIN s2c'[v] = {}
    <3>1. PICK ids : ids = new \cup {id}
      OBVIOUS
    <3> QED
      BY <2>2, <2>3, <2>5, <2>6, <3>1, TellLive
  <2>10. SessionInv'
    BY <1>2, <1>3, <2>7, <2>8, <2>9, HandlerSession DEF Explained
  <2> QED
    BY <1>3, <2>2, <2>10 DEF Explained, CrashHasCause
<1> QED
  BY <1>6, <1>7, <1>8

LEMMA AnswerJoinExplained ==
    ASSUME IInv, Explained, NEW u \in Users, AnswerJoin(u)
    PROVE  Explained'
<1>1. PICK q, where : /\ At(u, "joined") /\ Send(u, q) /\ Goto(u, where)
                      /\ UNCHANGED <<tables, live, crashed, c2s, client>>
  BY DEF AnswerJoin
<1>2. crashed = {} /\ live[u] = "yes"
  BY <1>1, AtLive DEF Explained
<1>3. \A v \in Users : live[v] # "yes" => s2c'[v] = s2c[v]
  BY <1>1, <1>2, SendLive
<1>4. \A v \in Users \ {u} : handler'[v] = handler[v]
  BY <1>1 DEF Goto, IInv, TypeInv, ServerTypes
<1>5. MembersKeep(u)
  BY <1>1 DEF MembersKeep, tables
<1>6. SessionInv'
  BY <1>1, <1>2, <1>3, <1>4, <1>5, HandlerSession DEF Explained
<1> QED
  BY <1>1, <1>2, <1>6 DEF Explained, CrashHasCause

LEMMA RoomIdExplained ==
    ASSUME IInv, Explained, NEW u \in Users, AssignRoom(u) \/ ForgetRoom(u)
    PROVE  Explained'
<1>1. crashed = {} /\ live[u] = "yes" /\ UNCHANGED <<rooms, live, c2s, client>>
  BY AtLive DEF AssignRoom, ForgetRoom, Explained
<1>2. CASE AssignRoom(u) /\ handler[u].error = "roomNotFound"
  <2>1. /\ crashed' = {[by |-> u, in |-> "Handle_C_JOIN_ROOM"]} /\ UNCHANGED <<players, members, handler, s2c>>
        /\ handler[u].at = "answered"
    BY <1>2 DEF AssignRoom, Crash, At
  <2>2. MembersKeep(u)
    BY <2>1 DEF MembersKeep
  <2>3. SessionInv'
    BY <1>1, <2>1, <2>2, HandlerSession DEF Explained
  <2>4. ASSUME NEW c \in crashed'
        PROVE  /\ c.in = "Handle_C_JOIN_ROOM"
               /\ handler'[c.by].at = "answered" /\ handler'[c.by].error = "roomNotFound"
    BY <1>2, <2>1
  <2> QED
    BY <2>3, <2>4 DEF Explained, CrashHasCause
<1>3. CASE ForgetRoom(u) \/ (AssignRoom(u) /\ handler[u].error # "roomNotFound")
  <2>1. PICK i, r : /\ players' = [players EXCEPT ![i].roomId = r] /\ Goto(u, Idle)
                    /\ UNCHANGED <<members, crashed, s2c>>
    BY <1>3 DEF AssignRoom, ForgetRoom
  <2>2. \A id \in DOMAIN players : id \in DOMAIN players' /\ players'[id].session = players[id].session
    <3>1. players \in Seq(Player)
      BY DEF IInv, TypeInv, ServerTypes
    <3> QED
      BY <2>1, <3>1 DEF Player
  <2>3. MembersKeep(u)
    BY <2>1, <2>2 DEF MembersKeep
  <2>4. \A v \in Users \ {u} : handler'[v] = handler[v]
    BY <2>1 DEF Goto, IInv, TypeInv, ServerTypes
  <2>5. SessionInv'
    BY <1>1, <2>1, <2>3, <2>4, HandlerSession DEF Explained
  <2> QED
    BY <1>1, <2>1, <2>5 DEF Explained, CrashHasCause
<1> QED
  BY <1>2, <1>3

LEMMA ChatExplained ==
    ASSUME IInv, Explained, NEW u \in Users, HandleChatRoom(u),
           \A v \in Users \ hasty : Settled(v)
    PROVE  Explained'
<1>1. PICK r : r = GetRoomFromPlayerId(Head(c2s[u]).id)
  OBVIOUS
<1>2. Takes(u, "chatRoom") /\ UNCHANGED <<rooms, live, client>> /\ hasty' = hasty
  BY DEF HandleChatRoom, client, user
<1>3. crashed = {} /\ live[u] = "yes" /\ \A v \in Users \ {u} : c2s'[v] = c2s[v]
  BY <1>2, TakesFirst DEF IInv
<1>4. CASE ~RoomExists(r)
  <2>1. /\ crashed' = {[by |-> u, in |-> "Handle_C_CHAT_ROOM"]}
        /\ UNCHANGED <<players, members, handler, s2c>>
    BY <1>1, <1>4 DEF HandleChatRoom, Crash
  <2>2. MembersKeep(u)
    BY <2>1 DEF MembersKeep
  <2>3. SessionInv'
    BY <1>2, <1>3, <2>1, <2>2, HandlerSession DEF Explained
  <2>4. u \in hasty'
    BY <1>2, <2>1, ChatRoomSettled
  <2>5. ASSUME NEW c \in crashed'
        PROVE  c.in = "Handle_C_CHAT_ROOM" /\ c.by \in hasty'
    BY <2>1, <2>4
  <2> QED
    BY <2>3, <2>5 DEF Explained, CrashHasCause
<1>5. CASE RoomExists(r)
  <2>1. PICK p : p = [kind |-> "chatRoom", room |-> r]
    OBVIOUS
  <2>2. Tell(members[r], p) /\ UNCHANGED <<players, members, handler, crashed>>
    BY <1>1, <1>5, <2>1 DEF HandleChatRoom
  <2>3. r \in DOMAIN members /\ r \in Int
    <3>1. r \in DOMAIN members
      BY <1>5, RoomsHaveMembers DEF IInv
    <3> QED
      BY <3>1 DEF IInv, TypeInv, ServerTypes
  <2>4. p \in Answer /\ members[r] \subseteq DOMAIN players
    BY <2>1, <2>3, Records DEF IInv, TableInv
  <2>5. \A v \in Users : live[v] # "yes" /\ DOMAIN s2c[v] = {} => DOMAIN s2c'[v] = {}
    BY <2>2, <2>4, TellLive
  <2>6. MembersKeep(u)
    BY <2>2 DEF MembersKeep
  <2>7. SessionInv'
    BY <1>2, <1>3, <2>2, <2>5, <2>6, HandlerSession DEF Explained
  <2> QED
    BY <1>3, <2>2, <2>7 DEF Explained, CrashHasCause
<1> QED
  BY <1>4, <1>5

LEMMA LineExplained ==
    ASSUME IInv, Explained, NEW u \in Users, Line(u)
    PROVE  Explained'
<1>1. PICK where, p : Types(u, where, p)
  BY DEF Line, SetNickname, RequestRoomList, CreateRoom, EnterRoomById, ChatToRoom, LeaveRoom
<1>2. /\ crashed = {} /\ live[u] = "yes" /\ UNCHANGED <<players, members, live, handler, crashed, s2c, state>>
      /\ c2s' = [c2s EXCEPT ![u] = Append(@, p)]
  BY <1>1 DEF Types, server, tables
<1>3. \A v \in Users : live[v] # "yes" => c2s'[v] = c2s[v] /\ leaving'[v] = leaving[v]
  <2>1. c2s \in [Users -> Seq(Request)] /\ leaving \in [Users -> BOOLEAN]
    BY DEF IInv, TypeInv, QueueTypes, ClientTypes
  <2>2. leaving' = leaving \/ leaving' = [leaving EXCEPT ![u] = TRUE]
    BY DEF Line, SetNickname, RequestRoomList, CreateRoom, EnterRoomById, ChatToRoom, LeaveRoom
  <2> QED
    BY <1>2, <2>1, <2>2
<1>4. aim' \in [Users -> Int]
  <2>1. aim' = aim \/ \E r \in 1 .. Len(rooms) + 1 : aim' = [aim EXCEPT ![u] = r]
    BY DEF Line, SetNickname, RequestRoomList, CreateRoom, EnterRoomById, ChatToRoom, LeaveRoom
  <2>2. aim \in [Users -> Int] /\ Len(rooms) \in Nat
    BY DEF Explained, SessionInv, IInv, TypeInv, ServerTypes
  <2> QED
    BY <2>1, <2>2
<1>5. SessionInv'
  BY <1>2, <1>3, <1>4 DEF Explained, SessionInv
<1> QED
  BY <1>2, <1>5 DEF Explained, CrashHasCause

\* Connecting, quitting, and what a client does when nothing stops it.
LEMMA ClientExplained ==
    ASSUME IInv, Explained, NEW u \in Users,
           OnConnected(u) \/ Quit(u) \/ BackToLobby(u) \/ Receive(u)
    PROVE  Explained'
<1>1. /\ live \in [Users -> {"no", "yes", "gone"}] /\ c2s \in [Users -> Seq(Request)]
      /\ s2c \in [Users -> Seq(Answer)] /\ leaving \in [Users -> BOOLEAN]
      /\ state \in [Users -> {"Connecting", "WaitingNickname", "Lobby", "InRoom"}]
  BY DEF IInv, TypeInv, QueueTypes, ClientTypes
<1>2. CASE OnConnected(u)
  <2>1. PICK q : /\ crashed = {} /\ live' = [live EXCEPT ![u] = "yes"] /\ Send(u, q)
                 /\ UNCHANGED <<players, members, handler, crashed, c2s, state, leaving, aim>>
    BY <1>2 DEF OnConnected, tables, client, user
  <2>2. live'[u] = "yes" /\ \A v \in Users \ {u} : live'[v] = live[v] /\ s2c'[v] = s2c[v]
    BY <1>1, <2>1 DEF Send
  <2>3. SessionInv'
    BY <2>1, <2>2 DEF Explained, SessionInv
  <2> QED
    BY <2>1, <2>3 DEF Explained, CrashHasCause
<1>3. CASE Quit(u)
  <2>1. /\ crashed = {} /\ handler[u] = Idle /\ live[u] = "yes" /\ live' = [live EXCEPT ![u] = "gone"]
        /\ c2s' = [c2s EXCEPT ![u] = <<>>] /\ s2c' = [s2c EXCEPT ![u] = <<>>]
        /\ UNCHANGED <<players, members, handler, crashed, state, leaving, aim>>
    BY <1>3 DEF Quit, tables, client, user
  <2>2. /\ live'[u] = "gone" /\ c2s'[u] = <<>> /\ s2c'[u] = <<>>
        /\ \A v \in Users \ {u} : live'[v] = live[v] /\ s2c'[v] = s2c[v] /\ c2s'[v] = c2s[v]
    BY <1>1, <2>1
  <2>3. DOMAIN c2s'[u] = {} /\ DOMAIN s2c'[u] = {}
    BY <2>2
  <2>4. SessionInv'
    BY <2>1, <2>2, <2>3 DEF Explained, SessionInv
  <2> QED
    BY <2>1, <2>4 DEF Explained, CrashHasCause
<1>4. CASE BackToLobby(u)
  <2>1. /\ leaving[u] /\ state' = [state EXCEPT ![u] = "Lobby"] /\ leaving' = [leaving EXCEPT ![u] = FALSE]
        /\ UNCHANGED <<players, members, handler, crashed, live, c2s, s2c, aim, hasty>>
    BY <1>4 DEF BackToLobby, server, tables
  <2>2. /\ live[u] # "no" /\ \A v \in Users \ {u} : state'[v] = state[v] /\ leaving'[v] = leaving[v]
    BY <1>1, <2>1 DEF Explained, SessionInv
  <2>3. SessionInv'
    BY <2>1, <2>2 DEF Explained, SessionInv
  <2>4. CrashHasCause'
    BY <2>1 DEF Explained, CrashHasCause, Lost, GetPlayer
  <2> QED
    BY <2>3, <2>4 DEF Explained
<1>5. CASE Receive(u)
  <2>1. UNCHANGED <<players, members, handler, crashed, live, c2s, leaving, aim, hasty>>
    BY <1>5 DEF Receive, server, tables
  <2>2. \A v \in Users \ {u} : state'[v] = state[v] /\ s2c'[v] = s2c[v]
    BY <1>5, ReceivedSteps
  <2>3. live[u] = "yes"
    <3>1. PICK p : Received(u, p)
      BY <1>5, ReceivedSteps
    <3> QED
      BY <3>1 DEF Explained, SessionInv, Received
  <2>4. SessionInv'
    BY <2>1, <2>2, <2>3 DEF Explained, SessionInv
  <2>5. CrashHasCause'
    BY <2>1 DEF Explained, CrashHasCause, Lost, GetPlayer
  <2> QED
    BY <2>4, <2>5 DEF Explained
<1> QED
  BY <1>2, <1>3, <1>4, <1>5

LEMMA ExplainedStep ==
    ASSUME IInv, Explained, \A v \in Users \ hasty : Settled(v), [Next]_vars
    PROVE  Explained'
<1>1. CASE UNCHANGED vars
  <2>1. UNCHANGED <<players, members, live, handler, crashed, c2s, s2c, state, leaving, aim, hasty>>
    BY <1>1 DEF vars, server, tables, client, user
  <2>2. SessionInv' /\ CrashHasCause'
    BY <2>1 DEF Explained, SessionInv, CrashHasCause, Lost, GetPlayer
  <2> QED
    BY <2>2 DEF Explained
<1>2. ASSUME NEW u \in Users, Handle(u)
      PROVE  Explained'
  BY <1>2, NameExplained, RoomListExplained, JoinExplained, AnswerJoinExplained, RoomIdExplained,
     ChatExplained, LeaveExplained DEF Handle
<1> QED
  BY <1>1, <1>2, LineExplained, ClientExplained DEF Next

-----------------------------------------------------------------------------
(* Theorems about places and crashes *)

\* With it goes what is true of every user who waits for answers.
PInv == IInv /\ Explained /\ \A u \in Users \ hasty : Settled(u)

LEMMA InitPInv ==
    ASSUME Init
    PROVE  PInv
<1>1. IInv
  BY InitIInv
<1>2. /\ players = <<>> /\ DOMAIN players = {} /\ crashed = {} /\ \A r \in DOMAIN members : members[r] = {}
      /\ \A u \in Users : /\ live[u] = "no" /\ handler[u] = Idle /\ handler[u].at = "idle"
                          /\ DOMAIN c2s[u] = {} /\ DOMAIN s2c[u] = {} /\ state[u] = "Connecting"
                          /\ myId[u] = 0 /\ ~leaving[u] /\ ~asked[u]
  BY IdlePlace DEF Init
<1>3. SessionInv
  <2>1. aim \in [Users -> Int]
    BY DEF Init
  <2> QED
    BY <1>2, <2>1 DEF SessionInv
<1>4. CrashHasCause
  BY <1>2 DEF CrashHasCause
<1>5. ASSUME NEW u \in Users
      PROVE  Settled(u)
  <2>1. ~Answered(u) /\ ~InHand(u) /\ ~Stays(u) /\ ~Leaves(u) /\ ~Entering(u)
    BY <1>2 DEF Answered, InHand, Stays, Leaves, Entering
  <2>2. QuestionInv(u) /\ StateInv(u) /\ LeaveInv(u) /\ AimInv(u) /\ HearInv(u)
    BY <1>2, <2>1 DEF QuestionInv, StateInv, LeaveInv, AimInv, HearInv
  <2>3. NameInv(u) /\ PlaceInv(u)
    BY <1>2 DEF NameInv, PlaceInv, Owns, Unnamed
  <2> QED
    BY <2>2, <2>3 DEF Settled
<1> QED
  BY <1>1, <1>3, <1>4, <1>5 DEF PInv, Explained

LEMMA NextPInv ==
    ASSUME PInv, [Next]_vars
    PROVE  PInv'
<1>1. IInv'
  BY NextIInv DEF PInv
<1>2. \A u \in Users \ hasty' : Settled(u)'
  BY SettledStep DEF PInv, Explained
<1>3. Explained'
  BY ExplainedStep DEF PInv
<1> QED
  BY <1>1, <1>2, <1>3 DEF PInv

\* PInv is what the places rest on.
THEOREM PlaceInvariance == Spec => []PInv
<1>1. Init => PInv
  BY InitPInv
<1>2. PInv /\ [Next]_vars => PInv'
  BY NextPInv
<1> QED
  BY <1>1, <1>2, PTL DEF Spec

LEMMA RoomsFew ==
    ASSUME PInv, NEW id \in DOMAIN players, players[id].session \notin hasty
    PROVE  Cardinality(RoomsOf(id)) <= 1
<1>1. \A q, r \in RoomsOf(id) : q = r
  <2>1. CASE players[id].session = NoUser
    BY <2>1 DEF PInv, Explained, SessionInv, RoomsOf
  <2>2. CASE players[id].session # NoUser
    <3>1. players[id] \in Player
      BY DEF PInv, IInv, TypeInv, ServerTypes
    <3>2. PICK u \in Users \ hasty : u = players[id].session
      BY <2>2, <3>1 DEF Player
    <3>3. PlaceInv(u) /\ Owns(u, id)
      BY <3>2 DEF PInv, Settled, Owns
    <3> QED
      BY <3>3 DEF PlaceInv, RoomsOf
  <2> QED
    BY <2>1, <2>2
<1>2. CASE RoomsOf(id) = {}
  BY <1>2, FS_EmptySet
<1>3. CASE RoomsOf(id) # {}
  <2>1. PICK q : RoomsOf(id) = {q}
    BY <1>1, <1>3
  <2> QED
    BY <2>1, FS_Singleton
<1> QED
  BY <1>2, <1>3

LEMMA RecordsMatch ==
    ASSUME PInv, NEW u \in Users \ hasty, Served(u)
    PROVE  /\ state[u] = "InRoom" => RoomsOf(myId[u]) = {aim[u]} /\ players[myId[u]].roomId = aim[u]
           /\ state[u] = "Lobby" /\ ~asked[u] => RoomsOf(myId[u]) = {}
<1>1. /\ IInv /\ Settled(u) /\ QuestionInv(u) /\ AimInv(u) /\ PlaceInv(u)
      /\ crashed = {} /\ live[u] = "yes" /\ ~leaving[u] /\ DOMAIN c2s[u] = {} /\ handler[u].at = "idle"
  BY IdlePlace DEF PInv, Settled, Served
<1>2. Home(u) = players[myId[u]].roomId
  BY <1>1 DEF Home
<1>3. \A r : RoomExists(r) <=> r \in DOMAIN members
  BY <1>1, RoomsHaveMembers DEF IInv
<1>4. CASE state[u] = "InRoom"
  <2>1. Stays(u) /\ Within(u)
    BY <1>1, <1>4 DEF Stays, Within
  <2>2. Owns(u, myId[u]) /\ Home(u) = aim[u]
    BY <1>1, <2>1, WithinKnown DEF AimInv
  <2>3. RoomExists(Home(u)) /\ \A r \in DOMAIN members : myId[u] \in members[r] <=> r = Home(u)
    BY <1>1, <2>1, <2>2 DEF PlaceInv, Owns
  <2>4. RoomsOf(myId[u]) = {aim[u]}
    BY <1>3, <2>2, <2>3 DEF RoomsOf
  <2> QED
    BY <1>2, <1>4, <2>2, <2>4
<1>5. CASE state[u] = "Lobby" /\ ~asked[u]
  <2>1. ~Stays(u) /\ ~Leaves(u) /\ ~Enters(u) /\ ~Entering(u)
    BY <1>1, <1>5 DEF Stays, Leaves, Enters, Entering, EnterOk, QuestionInv, Answering
  <2>2. Owns(u, myId[u])
    BY <1>1, <1>5 DEF IInv, KnownInv, ClientKnown
  <2>3. \A r \in DOMAIN members : myId[u] \notin members[r]
    BY <1>1, <2>1, <2>2 DEF PlaceInv, Within, Owns
  <2> QED
    BY <1>5, <2>3 DEF RoomsOf
<1> QED
  BY <1>4, <1>5

\* Client and server agree on the one room of every user who waits for answers:
\* Player::roomId, Room::_players, GClient.state and the chat it shows.
THEOREM PlacesKept == Spec => []PlacesAgree
<1>1. PInv => PlacesAgree
  <2> SUFFICES ASSUME PInv
               PROVE  PlacesAgree
    OBVIOUS
  <2>1. OneRoomAtATime
    BY RoomsFew DEF OneRoomAtATime
  <2>2. RecordsAgree
    BY RecordsMatch DEF RecordsAgree
  <2>3. HearsOnlyItsRoom
    BY DEF HearsOnlyItsRoom, PInv, Settled, HearInv
  <2> QED
    BY <2>1, <2>2, <2>3 DEF PlacesAgree
<1> QED
  BY <1>1, PlaceInvariance, PTL

\* The server stops only where a member has lost its session, a room was not
\* found, or a user typed a chat line without waiting.
THEOREM CrashesExplained == Spec => []CrashHasCause
<1>1. PInv => CrashHasCause
  BY DEF PInv, Explained
<1> QED
  BY <1>1, PlaceInvariance, PTL
=============================================================================
