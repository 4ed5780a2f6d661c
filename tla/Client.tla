------------------------------- MODULE Client -------------------------------
(***************************************************************************)
(* One DummyClient and its user: the user interface thread (Client.cpp,    *)
(* ConsoleUI.cpp, ClientApp.cpp, ClientCommands.cpp) and the worker thread *)
(* (ServerPacketHandler.cpp), which share GClient and the log queue.       *)
(*                                                                         *)
(* ChatServer has the same client in one step per packet and per line;     *)
(* here a handler's statements and a line's way from the keyboard to Send  *)
(* are steps of their own.  The server answers requests in order with what *)
(* its handlers may answer.                                                *)
(*                                                                         *)
(* The user believes the state that the last answer on the screen means,   *)
(* and types lines for it.  Left out: the text of lines and logs,          *)
(* characters of an unfinished line, the list of players in the room, and  *)
(* what other users cause to be shown.                                     *)
(* Definitions named after another one and a fault are plausible bugs that *)
(* no action uses.                                                         *)
(***************************************************************************)
EXTENDS Naturals, Sequences, FiniteSets, SequencesExt

CONSTANTS
    Texts,    \* lines the user may type
    MaxLines, \* bound: how many
    MaxAhead  \* bound: how many of them the thread has yet to read

ASSUME LinesAssumption ==
    /\ Texts \subseteq {"list", "create", "join", "leave", "other", "blank"}
    /\ MaxLines \in Nat /\ MaxAhead \in Nat

VARIABLES
    state,    \* GClient.state
    session,  \* GClient.session was assigned
    link,     \* "up" until the connection ends and its session is destroyed
    c2s, s2c, \* packets on their way
    todo,     \* the statements of its handler the worker has yet to execute
    logQ,     \* g_logQ
    keyboard, \* finished lines that PumpInput has yet to read
    ui,       \* where the user interface thread is
    line,     \* main's variable line
    command,  \* the function of net:: that it calls for the line
    seen,     \* the state the user believes the client is in
    asked,    \* the user waits for the answer to a nickname or a join
    typed,    \* lines typed so far
    hasty,    \* the user typed while waiting, or before the first prompt
    burst,    \* lines that were still unread when another was finished
    fate      \* fate[n]: what became of the nth line

interface == <<ui, line, command>>
network == <<link, c2s, s2c>>
user == <<seen, asked, typed, hasty, burst>>
vars == <<state, session, todo, logQ, interface, network, keyboard, user, fate>>

States == {"Connecting", "WaitingNickname", "Lobby", "InRoom"}
NoLine == [number |-> 0, text |-> "blank", meant |-> "Connecting"]

Init ==
    /\ state = "Connecting" /\ session = FALSE
    /\ link = "up" /\ c2s = <<>> /\ s2c = <<"prompt">>
    /\ todo = <<>> /\ logQ = <<>>
    /\ keyboard = <<>> /\ ui = "pump" /\ line = NoLine /\ command = "none"
    /\ seen = "Connecting" /\ asked = FALSE /\ typed = 0
    /\ hasty = FALSE /\ burst = {} /\ fate = <<>>

-----------------------------------------------------------------------------
(* The worker thread: ServerPacketHandler *)

Log(what) == [do |-> "log", what |-> what]
SetState(s) == [do |-> "setState", to |-> s]
SetSession == [do |-> "setSession"]
Write(field) == [do |-> "write", field |-> field]

PromptForgetsSession == <<SetState("WaitingNickname"), Log("prompt")>>
HandleNicknamePrompt == <<SetState("WaitingNickname"), Log("prompt"), SetSession>>
NameTaken == <<Log("nameTaken"), SetState("WaitingNickname")>>
NameFreeWritesLast ==
    <<Log("nameFree"), SetState("Lobby"), Log("lobby"), Write("myId"), Write("nickname")>>
NameFreeLogsFirst ==
    <<Log("nameFree"), Write("myId"), Write("nickname"), Log("lobby"), SetState("Lobby")>>
NameFree ==
    <<Log("nameFree"), Write("myId"), Write("nickname"), SetState("Lobby"), Log("lobby")>>
EnterFailsQuietly == <<>>
EnterFails == <<Log("enterFails")>>
EnterOk == <<Log("entered"), Write("currentRoomId"), SetState("InRoom"), Log("inRoom")>>
HandleOther == <<Log("other")>>

\* What the handler of a packet does that the user or the interface thread sees.
Handler(packet) ==
    CASE packet = "prompt" -> HandleNicknamePrompt
      [] packet = "nameTaken" -> NameTaken
      [] packet = "nameFree" -> NameFree
      [] packet = "enterOk" -> EnterOk
      [] packet = "enterFails" -> EnterFails
      [] OTHER -> HandleOther

\* OnRecvPacket.
Receive ==
    /\ todo = <<>> /\ s2c # <<>>
    /\ todo' = Handler(Head(s2c))
    /\ s2c' = Tail(s2c)
    /\ UNCHANGED <<state, session, logQ, interface, link, c2s, keyboard, user, fate>>

Execute ==
    /\ todo # <<>>
    /\ todo' = Tail(todo)
    /\ LET step == Head(todo)
       IN  /\ state' = IF step.do = "setState" THEN step.to ELSE state
           /\ session' = (session \/ step.do = "setSession")
           /\ logQ' = IF step.do = "log" THEN Append(logQ, step.what) ELSE logQ
    /\ UNCHANGED <<interface, network, keyboard, user, fate>>

\* The connection ends: ProcessDisconnect drops the last reference to the
\* session.  Nothing tells GClient.
Disconnected ==
    /\ link = "up" /\ todo = <<>>
    /\ link' = "down" /\ c2s' = <<>> /\ s2c' = <<>>
    /\ UNCHANGED <<state, session, todo, logQ, interface, keyboard, user, fate>>

-----------------------------------------------------------------------------
(* The server, as GameServer/ClientPacketHandler.cpp answers *)

Answers(packet) ==
    CASE packet = "setNickname" -> {<<"nameFree">>, <<"nameTaken", "prompt">>}
      [] packet = "joinRoom" -> {<<"roomEvent", "enterOk">>, <<"enterFails">>}
      [] packet = "leaveRoom" -> {<<"roomEvent">>}
      [] OTHER -> {<<packet>>}

Serve ==
    /\ c2s # <<>>
    /\ \E answers \in Answers(Head(c2s)) : s2c' = s2c \o answers
    /\ c2s' = Tail(c2s)
    /\ UNCHANGED <<state, session, todo, logQ, interface, link, keyboard, user, fate>>

-----------------------------------------------------------------------------
(* The user interface thread *)

\* The line's way ends.
Done(l, how) == fate' = IF l = NoLine THEN fate ELSE [fate EXCEPT ![l.number] = how]
Finish(how) ==
    /\ Done(line, how)
    /\ ui' = "drain" /\ line' = NoLine /\ command' = "none"

PumpInputKeepsFirst ==
    /\ ui = "pump" /\ keyboard # <<>>
    /\ line' = IF line = NoLine THEN Head(keyboard) ELSE line
    /\ keyboard' = Tail(keyboard)
    /\ UNCHANGED <<state, session, todo, logQ, ui, command, network, user, fate>>

\* PumpInput reads on while there are keys: a finished line, even a blank one,
\* takes the place of the one before.
PumpInput ==
    /\ ui = "pump" /\ keyboard # <<>>
    /\ line' = Head(keyboard) /\ keyboard' = Tail(keyboard)
    /\ Done(line, "overwritten")
    /\ UNCHANGED <<state, session, todo, logQ, ui, command, network, user>>

PumpInputReturnsAnything ==
    /\ ui = "pump" /\ keyboard = <<>>
    /\ ui' = "handle"
    /\ UNCHANGED <<state, session, todo, logQ, line, command, network, keyboard, user, fate>>

\* No more keys.  Only a line that is not blank is handled.
PumpInputReturns ==
    /\ ui = "pump" /\ keyboard = <<>>
    /\ IF line.text = "blank"
       THEN Finish("blank")
       ELSE ui' = "handle" /\ UNCHANGED <<line, command, fate>>
    /\ UNCHANGED <<state, session, todo, logQ, network, keyboard, user>>

\* The command that a line is in a state; a blank line is none.
CommandIn(where, text) ==
    CASE text = "blank" -> "none"
      [] where = "WaitingNickname" /\ text # "blank" -> "setNickname"
      [] where = "Lobby" /\ text = "list" -> "requestRoomList"
      [] where = "Lobby" /\ text = "create" -> "createRoom"
      [] where = "Lobby" /\ text = "join" -> "joinRoom"
      [] where = "InRoom" /\ text = "leave" -> "leaveRoom"
      [] where = "InRoom" /\ text \notin {"leave", "blank"} -> "chatRoom"
      [] OTHER -> "none"

\* Lines that are no command are answered at once, in the log.
HandleInputLine ==
    /\ ui = "handle"
    /\ LET c == CommandIn(state, line.text)
       IN  /\ logQ' = IF c \in {"none", "setNickname"} THEN Append(logQ, "other") ELSE logQ
           /\ IF c = "none"
              THEN Finish("explained")
              ELSE ui' = "acquire" /\ command' = c /\ UNCHANGED <<line, fate>>
    /\ UNCHANGED <<state, session, todo, network, keyboard, user>>

Storing == todo # <<>> /\ Head(todo) = SetSession

\* Without a session the line is dropped without a word.  Nothing orders the
\* weak_ptr's lock and the worker's assignment of it: while it is assigned for
\* the first time the line may find it or not; later on the same is assigned.
AcquireSession ==
    /\ ui = "acquire"
    /\ \/ link = "down" /\ Finish("disconnected")
       \/ link = "up" /\ ~session /\ Finish("noSession")
       \/ link = "up" /\ (session \/ Storing) /\ ui' = "send" /\ UNCHANGED <<line, command, fate>>
    /\ UNCHANGED <<state, session, todo, logQ, network, keyboard, user>>

\* The packet is filled and sent; so is it, to nobody, when the connection just ended.
Send ==
    /\ ui = "send"
    /\ c2s' = IF link = "up" THEN Append(c2s, command) ELSE c2s
    /\ IF command = "leaveRoom"
       THEN ui' = "leave" /\ UNCHANGED <<line, command, fate>>
       ELSE Finish(IF link = "up" THEN "sent" ELSE "disconnected")
    /\ UNCHANGED <<state, session, todo, logQ, link, s2c, keyboard, user>>

LeaveRoomWaits ==
    /\ ui = "leave"
    /\ Finish(IF link = "up" THEN "sent" ELSE "disconnected")
    /\ UNCHANGED <<state, session, todo, logQ, network, keyboard, user>>

\* net::LeaveRoom does not wait for an answer.
LeaveRoom ==
    /\ ui = "leave"
    /\ state' = "Lobby"
    /\ Finish(IF link = "up" THEN "sent" ELSE "disconnected")
    /\ UNCHANGED <<session, todo, logQ, network, keyboard, user>>

\* What a line in the log means to the user, and which lines answer a question.
Meaning == [prompt |-> "WaitingNickname", nameTaken |-> "WaitingNickname", lobby |-> "Lobby",
            inRoom |-> "InRoom", enterFails |-> "Lobby"]
AnswerLines == DOMAIN Meaning \ {"prompt"}

\* All of the log is shown.
DrainLogs ==
    /\ ui = "drain"
    /\ LET telling == {n \in DOMAIN logQ : logQ[n] \in DOMAIN Meaning}
       IN  /\ \/ telling = {} /\ UNCHANGED seen
              \/ \E n \in telling : (\A m \in telling : m <= n) /\ seen' = Meaning[logQ[n]]
           /\ asked' = (asked /\ Range(logQ) \cap AnswerLines = {})
    /\ logQ' = <<>> /\ ui' = "pump"
    /\ UNCHANGED <<state, session, todo, line, command, network, keyboard, typed, hasty, burst, fate>>

-----------------------------------------------------------------------------
(* The user *)

\* A finished line, for the state the user believes in.  Who leaves the room
\* believes to be in the lobby.
Type(text) ==
    /\ typed < MaxLines /\ Len(keyboard) < MaxAhead
    /\ typed' = typed + 1
    /\ keyboard' = Append(keyboard, [number |-> typed + 1, text |-> text, meant |-> seen])
    /\ fate' = Append(fate, "typed")
    /\ burst' = burst \cup {l.number : l \in Range(keyboard)}
                      \cup (IF ui = "pump" THEN {line.number} \ {0} ELSE {})
    /\ asked' = (asked \/ CommandIn(seen, text) \in {"setNickname", "joinRoom"})
    /\ hasty' = (hasty \/ (text # "blank" /\ (asked \/ seen = "Connecting")))
    /\ seen' = IF CommandIn(seen, text) = "leaveRoom" THEN "Lobby" ELSE seen
    /\ UNCHANGED <<state, session, todo, logQ, interface, network>>

-----------------------------------------------------------------------------
Worker == Receive \/ Execute
Interface ==
    PumpInput \/ PumpInputReturns \/ HandleInputLine \/ AcquireSession \/ Send \/ LeaveRoom
        \/ DrainLogs

Next == Worker \/ Disconnected \/ Serve \/ Interface \/ \E text \in Texts : Type(text)

\* Both threads run.  The user need not type, the server need not answer, and
\* what it sends may stay on its way for ever: in a buffer of Windows, or in the
\* client's own with the packet before (Session.cpp:260).
Fairness == WF_vars(Execute) /\ WF_vars(Interface)
Spec == Init /\ [][Next]_vars /\ Fairness

-----------------------------------------------------------------------------
Commands == {"setNickname", "requestRoomList", "createRoom", "joinRoom", "chatRoom", "leaveRoom"}
Fates == {"typed", "blank", "overwritten", "explained", "noSession", "disconnected", "sent"}

\* Types; the thread has a line, and the command for it, when it needs one.
TypeOK ==
    /\ state \in States /\ session \in BOOLEAN /\ link \in {"up", "down"}
    /\ c2s \in Seq(Commands)
    /\ keyboard \in Seq([number : 1 .. MaxLines, text : Texts, meant : States])
    /\ ui \in {"pump", "handle", "acquire", "send", "leave", "drain"}
    /\ command \in Commands \cup {"none"} /\ (ui \in {"acquire", "send", "leave"} <=> command # "none")
    /\ (ui = "drain" => line = NoLine) /\ (ui \in {"handle", "acquire", "send", "leave"} => line # NoLine)
    /\ seen \in States /\ asked \in BOOLEAN /\ hasty \in BOOLEAN
    /\ typed \in 0 .. MaxLines /\ burst \subseteq 1 .. typed
    /\ fate \in Seq(Fates) /\ Len(fate) = typed

\* Nothing was typed that went nowhere.
NoLineLost == \A n \in DOMAIN fate : fate[n] \notin {"overwritten", "noSession", "disconnected"}

\* From the moment the thread looks at GClient.state until the packet is sent,
\* the state is the one that the user had on the screen and typed the line for,
\* as long as the user waits for answers and no line was lost: the worker logs
\* an answer's last line after the state it brings (ServerPacketHandler.cpp:17,
\* :40, :90), and the lobby is entered before the next line is read.
HandledAsMeant ==
    ~hasty /\ NoLineLost /\ link = "up" /\ ui \in {"handle", "acquire", "send", "leave"} => state = line.meant

\* No line vanishes.  It is overwritten only when the user typed ahead of the
\* thread, and finds no session only while the handler of the first prompt has
\* shown it but not yet stored the session, or once the connection has ended.
LinesAccountedFor ==
    /\ \A n \in DOMAIN fate :
          /\ fate[n] = "typed" => line.number = n \/ \E l \in Range(keyboard) : l.number = n
          /\ fate[n] = "overwritten" => n \in burst
          /\ fate[n] = "disconnected" => link = "down"
    /\ ui = "acquire" /\ ~session => SetSession \in Range(todo)

\* The plain fields that the thread reads next.
Reads ==
    CASE ui = "acquire" -> {"session"}
      [] ui = "send" /\ command \in {"joinRoom", "chatRoom"} -> {"myId", "nickname"}
      [] ui = "send" /\ command = "leaveRoom" -> {"myId", "nickname", "currentRoomId"}
      [] OTHER -> {}

\* The one the worker writes next.
Writes ==
    IF todo = <<>> THEN {}
    ELSE IF Head(todo) = SetSession THEN {"session"}
    ELSE {f \in {"myId", "nickname", "currentRoomId"} : Head(todo) = Write(f)}

\* GClient.session is shared without a lock, and one line does race for it: the
\* nickname typed for a prompt whose handler has not stored the session yet
\* (ServerPacketHandler.cpp:18-19, ClientCommands.cpp:9).  As long as the user
\* waits for answers no other line does, and no other plain field is read while
\* it is written (ServerPacketHandler.cpp:37-38, :89, ClientCommands.cpp:45, :60,
\* :73).
RacesOnlyAtPrompt ==
    ~hasty /\ Reads \cap Writes # {} =>
        Reads \cap Writes = {"session"} /\ command = "setNickname"

\* The state as the packets received so far make it, and whether an answer to
\* what was sent is due.
Coming == {todo[n].to : n \in {m \in DOMAIN todo : todo[m].do = "setState"}}
Mode == IF Coming = {} THEN state ELSE CHOOSE s \in Coming : TRUE
Waiting ==
    \/ \E n \in DOMAIN c2s : c2s[n] \in {"setNickname", "joinRoom"}
    \/ \E n \in DOMAIN s2c : s2c[n] \in {"nameTaken", "nameFree", "enterOk", "enterFails"}

Chat == INSTANCE ChatClient
    WITH mode <- Mode, leaving <- (ui = "leave"), waiting <- Waiting,
         toServer <- c2s, toClient <- s2c

\* As long as the user waits for answers and the connection lasts, client and
\* server behave as ChatServer has them, although both threads of the client are
\* anywhere in their handlers.
ImplementsChatClient ==
    /\ Chat!ChatInit
    /\ [][~hasty' /\ link' = "up" => Chat!ChatNext \/ UNCHANGED Chat!chat]_vars

\* Packets do not stay on their way for ever.
Delivered == []<>(c2s = <<>> /\ s2c = <<>>)

\* Where packets are delivered, a user who asks and waits is told the answer in
\* the end, unless the line was lost or the connection ends: neither thread drops
\* it on its way from the keyboard to the screen.
QuestionIsSettled ==
    Delivered => (asked ~> (~asked \/ hasty \/ ~NoLineLost \/ link = "down"))
=============================================================================
