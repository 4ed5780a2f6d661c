---------------------------- MODULE ClientProofs ----------------------------
(***************************************************************************)
(* Proofs about Client, for any number of lines and of lines typed ahead:  *)
(* no line vanishes, and as long as the user waits for answers, no field   *)
(* of GClient but its session, at a prompt, is read while it is written,   *)
(* and a line is handled in the state it was typed for.                    *)
(***************************************************************************)
EXTENDS Client, SequenceTheorems, TLAPS

USE LinesAssumption

-----------------------------------------------------------------------------
(* Types *)

AllTexts == {"list", "create", "join", "leave", "other", "blank"}
Line == [number : Nat, text : AllTexts, meant : States]
Questions == {"setNickname", "joinRoom"}
AnswerPackets == {"nameTaken", "nameFree", "enterOk", "enterFails"}
Packets == Commands \cup AnswerPackets \cup {"prompt", "roomEvent"}
Whats == {"prompt", "nameTaken", "nameFree", "lobby", "enterFails", "entered", "inRoom", "other"}
Steps ==
    {Log(w) : w \in Whats} \cup {SetState(s) : s \in States}
      \cup {Write(f) : f \in {"myId", "nickname", "currentRoomId"}} \cup {SetSession}

WorkerTypes ==
    /\ state \in States /\ session \in BOOLEAN /\ link \in {"up", "down"}
    /\ c2s \in Seq(Commands) /\ s2c \in Seq(Packets)
    /\ todo \in Seq(Steps) /\ logQ \in Seq(Whats)

UserTypes ==
    /\ keyboard \in Seq(Line) /\ \A n \in DOMAIN keyboard : keyboard[n].text \in Texts
    /\ line \in Line /\ (line = NoLine \/ line.text \in Texts)
    /\ seen \in States /\ asked \in BOOLEAN /\ hasty \in BOOLEAN
    /\ typed \in 0 .. MaxLines /\ burst \subseteq 1 .. typed
    /\ fate \in Seq(Fates) /\ Len(fate) = typed

Handling == {"handle", "acquire", "send", "leave"}

\* Where the thread is, it has what it needs there.
ThreadInv ==
    /\ ui \in {"pump", "drain"} \cup Handling
    /\ command \in Commands \cup {"none"} /\ (ui \in {"acquire", "send", "leave"} <=> command # "none")
    /\ ui = "drain" => line = NoLine
    /\ ui \in Handling => line.text # "blank"

\* Lines are numbered as they are typed.
NumberInv ==
    /\ Len(keyboard) <= typed
    /\ \A n \in DOMAIN keyboard : keyboard[n].number = (typed - Len(keyboard)) + n
    /\ line = NoLine \/ (line.number = typed - Len(keyboard) /\ line.number > 0)

TypeInv == WorkerTypes /\ UserTypes /\ ThreadInv /\ NumberInv

-----------------------------------------------------------------------------
(* What became of the lines *)

\* A line that will be overwritten is one that was typed ahead of.
FateInv ==
    /\ \A n \in DOMAIN fate :
          /\ fate[n] = "typed" <=> n > typed - Len(keyboard) \/ line.number = n
          /\ fate[n] = "overwritten" => n \in burst
          /\ fate[n] = "disconnected" => link = "down"
    /\ \A n \in DOMAIN keyboard : n < Len(keyboard) => keyboard[n].number \in burst
    /\ ui = "pump" /\ line # NoLine /\ keyboard # <<>> => line.number \in burst

\* Until the session is stored, the first prompt is on its way or at work.
SessionKept ==
    /\ ~session =>
          \/ \E n \in DOMAIN todo : todo[n] = SetSession
          \/ /\ state = "Connecting" /\ command = "none" /\ todo = <<>>
             /\ \A n \in DOMAIN s2c : n = 1 => s2c[n] = "prompt"
    /\ ~session => Storing \/ (c2s = <<>> /\ ui \notin {"send", "leave"})
    /\ link = "down" => todo = <<>> /\ s2c = <<>> /\ c2s = <<>>

-----------------------------------------------------------------------------
(* The question of a user who waits, past the keyboard *)

Has(s, E) == \E n \in DOMAIN s : s[n] \in E
Once(s, E) == \A m, n \in DOMAIN s : s[m] \in E /\ s[n] \in E => m = n

Tells == {Log(w) : w \in AnswerLines}
InC2s == Has(c2s, Questions)
InS2c == Has(s2c, AnswerPackets)
InTodo == Has(todo, Tells)
InLog == Has(logQ, AnswerLines)
Past == InC2s \/ InS2c \/ InTodo \/ InLog

\* No line that is not blank is on its way to the server.
Quiet ==
    /\ ui \in {"pump", "drain"} /\ line.text = "blank"
    /\ \A n \in DOMAIN keyboard : keyboard[n].text = "blank"

\* There is one question at most, and nothing is typed meanwhile.
OneQuestion ==
    /\ Past => asked /\ Quiet
    /\ Once(c2s, Questions) /\ Once(s2c, AnswerPackets) /\ Once(todo, Tells)
    /\ InC2s => ~InS2c /\ ~InTodo /\ ~InLog
    /\ InS2c => ~InTodo /\ ~InLog
    /\ InTodo => ~InLog

\* The state in which a question is asked lasts until its answer is handled.
AskedState ==
    /\ \A n \in DOMAIN c2s :
          /\ c2s[n] = "setNickname" => state = "WaitingNickname"
          /\ c2s[n] = "joinRoom" => state = "Lobby"
    /\ \A n \in DOMAIN s2c :
          /\ s2c[n] \in {"nameTaken", "nameFree"} => state = "WaitingNickname"
          /\ s2c[n] \in {"enterOk", "enterFails"} => state = "Lobby"
          /\ s2c[n] = "prompt" =>
                /\ state \in {"Connecting", "WaitingNickname"}
                /\ \A m \in DOMAIN s2c : s2c[m] = "nameFree" => n < m
                /\ \A m \in DOMAIN todo : todo[m] # Log("lobby")

\* A handler tells of a state after it has set it, and sets fields before.
StepState(n) ==
    /\ todo[n] \in {SetState("WaitingNickname"), Log("prompt"), SetSession} =>
          /\ state \in {"Connecting", "WaitingNickname"}
          /\ \A m \in DOMAIN todo : todo[m] \notin {Log("lobby"), Log("inRoom"), Log("enterFails")}
    /\ todo[n] \in {Log("prompt"), SetSession} =>
          state = "WaitingNickname" \/ \E m \in DOMAIN todo : m < n /\ todo[m] = SetState("WaitingNickname")
    /\ todo[n] = Log("nameTaken") => state = "WaitingNickname"
    /\ todo[n] = Log("enterFails") => state = "Lobby"
    /\ todo[n] = Log("lobby") =>
          \/ state = "Lobby"
          \/ state = "WaitingNickname" /\ \E m \in DOMAIN todo : m < n /\ todo[m] = SetState("Lobby")
    /\ todo[n] = Log("inRoom") =>
          \/ state = "InRoom"
          \/ state = "Lobby" /\ \E m \in DOMAIN todo : m < n /\ todo[m] = SetState("InRoom")
    /\ todo[n] \in {SetState("Lobby"), Write("myId"), Write("nickname")} =>
          \E m \in DOMAIN todo : m > n /\ todo[m] = Log("lobby")
    /\ todo[n] \in {SetState("InRoom"), Write("currentRoomId")} =>
          \E m \in DOMAIN todo : m > n /\ todo[m] = Log("inRoom")
    /\ todo[n] # SetState("Connecting")
HandlerState == \A n \in DOMAIN todo : StepState(n)

LogState ==
    \A n \in DOMAIN logQ :
        /\ logQ[n] \in AnswerLines => state = Meaning[logQ[n]]
        /\ logQ[n] = "prompt" =>
              \/ state = "WaitingNickname"
              \/ \E m \in DOMAIN logQ : m > n /\ logQ[m] = "lobby"
              \/ \E m \in DOMAIN todo : todo[m] = Log("lobby")

-----------------------------------------------------------------------------
(* The lines of a user who waits *)

\* The state, or the lobby that a user who has left the room takes it for.
Fits(s) == s = state \/ (s = "Lobby" /\ state = "InRoom")
\* From such a line on the user believes to be in the lobby.
Leads(l) == l.text # "blank" /\ (l.meant = "Lobby" \/ (l.meant = "InRoom" /\ l.text = "leave"))
Asks(l) == CommandIn(l.meant, l.text) \in Questions

\* A line typed before those that follow the nth of the keyboard.
Typed(l, n) ==
    /\ l.text # "blank" => ~Past /\ l.meant # "Connecting" /\ seen # "Connecting" /\ Fits(l.meant)
    /\ Leads(l) =>
          /\ seen = "Lobby"
          /\ \A m \in DOMAIN keyboard : m > n /\ keyboard[m].text # "blank" => keyboard[m].meant = "Lobby"
    /\ Asks(l) => asked /\ \A m \in DOMAIN keyboard : m > n => keyboard[m].text = "blank"

LineInv ==
    /\ Typed(line, 0)
    /\ \A n \in DOMAIN keyboard : Typed(keyboard[n], n)
    /\ ~Past => seen = "Connecting" \/ Fits(seen)
    /\ seen = "Connecting" => ~asked
    /\ ui \in {"acquire", "send", "leave"} => command = CommandIn(state, line.text)
    /\ ui = "leave" => command = "leaveRoom"

Calm == ~hasty /\ link = "up"
QuestionInv == Calm => OneQuestion /\ AskedState /\ HandlerState /\ LogState /\ LineInv

\* The state after a line, as the user has it.
Then(s, l) == IF CommandIn(s, l.text) = "leaveRoom" THEN "Lobby" ELSE s

\* What the line being handled finds, and what the user believes.
HandledMeant ==
    ui \in Handling =>
        /\ line.meant = state
        /\ keyboard = <<>> => seen = Then(state, line)
        /\ Len(keyboard) = 1 =>
              /\ keyboard[1].text # "blank" => keyboard[1].meant = Then(state, line)
              /\ seen = Then(Then(state, line), keyboard[1])
\* The same of a line that is yet to be handled.
NextMeant ==
    ui \in {"pump", "drain"} /\ ~Past =>
        /\ keyboard = <<>> =>
              /\ line.text # "blank" => line.meant = state
              /\ seen \in {"Connecting", Then(state, line)}
        /\ line = NoLine /\ Len(keyboard) = 1 =>
              /\ keyboard[1].text # "blank" => keyboard[1].meant = state
              /\ seen \in {"Connecting", Then(state, keyboard[1])}
\* As long as no line is lost.
MeantInv == Calm /\ NoLineLost => HandledMeant /\ NextMeant

-----------------------------------------------------------------------------
(* Queues *)

\* t is s without its first element.
Drops(s, t) ==
    /\ Len(s) \in Nat /\ Len(s) > 0 /\ DOMAIN s = 1 .. Len(s)
    /\ Len(t) = Len(s) - 1 /\ DOMAIN t = 1 .. Len(t)
    /\ \A n \in DOMAIN t : t[n] = s[n + 1]
    /\ \A n \in DOMAIN s : n # 1 => n - 1 \in DOMAIN t /\ t[n - 1] = s[n]

\* t is s and then x.
Appends(s, t, x) ==
    /\ Len(s) \in Nat /\ DOMAIN s = 1 .. Len(s)
    /\ Len(t) = Len(s) + 1 /\ DOMAIN t = 1 .. Len(t)
    /\ \A n \in DOMAIN s : t[n] = s[n]
    /\ t[Len(t)] = x

LEMMA HeadDrops ==
    ASSUME NEW S, NEW s \in Seq(S), s # <<>>
    PROVE  /\ Head(s) \in S /\ Head(s) = s[1] /\ 1 \in DOMAIN s
           /\ Tail(s) \in Seq(S) /\ Drops(s, Tail(s))
<1>1. PICK t : t = Tail(s)
  OBVIOUS
<1>2. /\ Head(s) \in S /\ t \in Seq(S) /\ Len(t) = Len(s) - 1
      /\ \A i \in 1 .. Len(t) : t[i] = s[i + 1]
  BY <1>1, HeadTailProperties
<1>3. Len(s) \in Nat /\ Len(s) > 0 /\ DOMAIN s = 1 .. Len(s) /\ DOMAIN t = 1 .. Len(t)
  BY <1>2, LenProperties, EmptySeq
<1>4. Head(s) = s[1]
  OBVIOUS
<1>5. ASSUME NEW n \in DOMAIN s, n # 1
      PROVE  n - 1 \in DOMAIN t /\ t[n - 1] = s[n]
  BY <1>2, <1>3, <1>5
<1> QED
  BY <1>1, <1>2, <1>3, <1>4, <1>5 DEF Drops

LEMMA LastAppends ==
    ASSUME NEW S, NEW s \in Seq(S), NEW x \in S
    PROVE  Append(s, x) \in Seq(S) /\ Appends(s, Append(s, x), x)
<1>1. PICK t : t = Append(s, x)
  OBVIOUS
<1>2. /\ t \in Seq(S) /\ Len(t) = Len(s) + 1 /\ t[Len(s) + 1] = x
      /\ \A i \in 1 .. Len(s) : t[i] = s[i]
  BY <1>1, AppendProperties
<1>3. Len(s) \in Nat /\ DOMAIN s = 1 .. Len(s) /\ DOMAIN t = 1 .. Len(t)
  BY <1>2, LenProperties
<1> QED
  BY <1>1, <1>2, <1>3 DEF Appends

\* The elements of a sequence decide what it is a sequence of.
LEMMA ElementsDecide ==
    ASSUME NEW S, NEW T, NEW s \in Seq(S), \A n \in DOMAIN s : s[n] \in T
    PROVE  s \in Seq(T)
<1>1. Len(s) \in Nat /\ DOMAIN s = 1 .. Len(s) /\ s \in [1 .. Len(s) -> S]
  BY LenProperties
<1>2. s \in [1 .. Len(s) -> T]
  BY <1>1
<1> QED
  BY <1>1, <1>2, SeqDef

\* The statements of a handler differ in what they do, and to what.
LEMMA StepFields ==
    /\ \A w : Log(w).do = "log" /\ Log(w).what = w
    /\ \A s : SetState(s).do = "setState" /\ SetState(s).to = s
    /\ \A f : Write(f).do = "write" /\ Write(f).field = f
    /\ SetSession.do = "setSession"
    /\ \A w \in Whats : Log(w) \in Steps
    /\ \A s \in States : SetState(s) \in Steps
    /\ \A f \in {"myId", "nickname", "currentRoomId"} : Write(f) \in Steps
    /\ SetSession \in Steps
    /\ \A step \in Steps :
          \/ \E w \in Whats : step = Log(w)
          \/ \E s \in States : step = SetState(s)
          \/ \E f \in {"myId", "nickname", "currentRoomId"} : step = Write(f)
          \/ step = SetSession
BY DEF Log, SetState, Write, SetSession, Steps

\* What a handler is made of.
Prompts(h) ==
    /\ Len(h) = 3 /\ DOMAIN h = 1 .. 3
    /\ h[1] = SetState("WaitingNickname") /\ h[2] = Log("prompt") /\ h[3] = SetSession
Refuses(h) ==
    /\ Len(h) = 2 /\ DOMAIN h = 1 .. 2
    /\ h[1] = Log("nameTaken") /\ h[2] = SetState("WaitingNickname")
Names(h) ==
    /\ Len(h) = 5 /\ DOMAIN h = 1 .. 5
    /\ h[1] = Log("nameFree") /\ h[2] = Write("myId") /\ h[3] = Write("nickname")
    /\ h[4] = SetState("Lobby") /\ h[5] = Log("lobby")
Enters(h) ==
    /\ Len(h) = 4 /\ DOMAIN h = 1 .. 4
    /\ h[1] = Log("entered") /\ h[2] = Write("currentRoomId")
    /\ h[3] = SetState("InRoom") /\ h[4] = Log("inRoom")
Says(h, what) == Len(h) = 1 /\ DOMAIN h = {1} /\ h[1] = Log(what)

LEMMA Handlers ==
    ASSUME NEW packet \in Packets
    PROVE  /\ Handler(packet) \in Seq(Steps)
           /\ packet = "prompt" => Prompts(Handler(packet))
           /\ packet = "nameTaken" => Refuses(Handler(packet))
           /\ packet = "nameFree" => Names(Handler(packet))
           /\ packet = "enterOk" => Enters(Handler(packet))
           /\ packet = "enterFails" => Says(Handler(packet), "enterFails")
           /\ packet \notin {"prompt", "nameTaken", "nameFree", "enterOk", "enterFails"} =>
                  Says(Handler(packet), "other")
<1>1. /\ Log("prompt") \in Steps /\ Log("nameTaken") \in Steps /\ Log("nameFree") \in Steps
      /\ Log("lobby") \in Steps /\ Log("enterFails") \in Steps /\ Log("entered") \in Steps
      /\ Log("inRoom") \in Steps /\ Log("other") \in Steps /\ SetSession \in Steps
      /\ SetState("WaitingNickname") \in Steps /\ SetState("Lobby") \in Steps
      /\ SetState("InRoom") \in Steps
      /\ Write("myId") \in Steps /\ Write("nickname") \in Steps /\ Write("currentRoomId") \in Steps
  BY StepFields DEF Whats, States
<1>2. HandleNicknamePrompt \in Seq(Steps) /\ Prompts(HandleNicknamePrompt)
  BY <1>1 DEF HandleNicknamePrompt, Prompts
<1>3. NameTaken \in Seq(Steps) /\ Refuses(NameTaken)
  BY <1>1 DEF NameTaken, Refuses
<1>4. NameFree \in Seq(Steps) /\ Names(NameFree)
  BY <1>1 DEF NameFree, Names
<1>5. EnterOk \in Seq(Steps) /\ Enters(EnterOk)
  BY <1>1 DEF EnterOk, Enters
<1>6. EnterFails \in Seq(Steps) /\ Says(EnterFails, "enterFails")
  BY <1>1 DEF EnterFails, Says
<1>7. HandleOther \in Seq(Steps) /\ Says(HandleOther, "other")
  BY <1>1 DEF HandleOther, Says
<1> QED
  BY <1>2, <1>3, <1>4, <1>5, <1>6, <1>7 DEF Handler

\* What the server answers.
LEMMA AnswersOf ==
    ASSUME NEW packet \in Commands, NEW answers \in Answers(packet)
    PROVE  /\ answers \in Seq(Packets)
           /\ \/ Len(answers) = 1 /\ DOMAIN answers = {1}
              \/ Len(answers) = 2 /\ DOMAIN answers = {1, 2}
           /\ packet = "setNickname" =>
                 \/ answers[1] = "nameFree" /\ Len(answers) = 1
                 \/ answers[1] = "nameTaken" /\ Len(answers) = 2 /\ answers[2] = "prompt"
           /\ packet = "joinRoom" =>
                 \/ answers[1] = "roomEvent" /\ Len(answers) = 2 /\ answers[2] = "enterOk"
                 \/ answers[1] = "enterFails" /\ Len(answers) = 1
           /\ packet \notin Questions =>
                 Len(answers) = 1 /\ answers[1] \notin AnswerPackets \cup {"prompt"}
<1>1. CASE packet = "setNickname"
  <2>1. answers = <<"nameFree">> \/ answers = <<"nameTaken", "prompt">>
    BY <1>1 DEF Answers
  <2>2. CASE answers = <<"nameFree">>
    BY <1>1, <2>2 DEF Packets, AnswerPackets, Questions
  <2>3. CASE answers = <<"nameTaken", "prompt">>
    BY <1>1, <2>3 DEF Packets, AnswerPackets, Questions
  <2> QED
    BY <2>1, <2>2, <2>3
<1>2. CASE packet = "joinRoom"
  <2>1. answers = <<"roomEvent", "enterOk">> \/ answers = <<"enterFails">>
    BY <1>2 DEF Answers
  <2>2. CASE answers = <<"roomEvent", "enterOk">>
    BY <1>2, <2>2 DEF Packets, AnswerPackets, Questions
  <2>3. CASE answers = <<"enterFails">>
    BY <1>2, <2>3 DEF Packets, AnswerPackets, Questions
  <2> QED
    BY <2>1, <2>2, <2>3
<1>3. CASE packet \notin Questions
  <2>1. answers = <<"roomEvent">> \/ (answers = <<packet>> /\ packet # "leaveRoom")
    BY <1>3 DEF Answers, Questions
  <2>2. CASE answers = <<"roomEvent">>
    BY <1>3, <2>2 DEF Packets, AnswerPackets, Questions
  <2>3. CASE answers = <<packet>>
    BY <1>3, <2>3 DEF Packets, AnswerPackets, Questions, Commands
  <2> QED
    BY <2>1, <2>2, <2>3
<1> QED
  BY <1>1, <1>2, <1>3 DEF Questions

-----------------------------------------------------------------------------
(* No line vanishes *)

KeptInv == TypeInv /\ FateInv /\ SessionKept

LEMMA NoLineFields ==
    NoLine \in Line /\ NoLine.number = 0 /\ NoLine.text = "blank" /\ NoLine.meant = "Connecting"
BY DEF NoLine, Line, AllTexts, States

LEMMA LineFields ==
    ASSUME NEW l \in Line
    PROVE  l.number \in Nat /\ l.text \in AllTexts /\ l.meant \in States
BY DEF Line

LEMMA InitKept == Init => KeptInv
<1> SUFFICES ASSUME Init PROVE KeptInv
  OBVIOUS
<1>1. WorkerTypes
  <2>1. session \in BOOLEAN
    BY Zenon DEF Init
  <2>2. <<"prompt">> \in Seq(Packets)
    BY DEF Packets
  <2>3. c2s \in Seq(Commands) /\ s2c \in Seq(Packets) /\ todo \in Seq(Steps) /\ logQ \in Seq(Whats)
    BY <2>2, EmptySeq DEF Init
  <2> QED
    BY <2>1, <2>3 DEF Init, WorkerTypes, States
<1>2. UserTypes
  <2>1. asked \in BOOLEAN /\ hasty \in BOOLEAN
    BY Zenon DEF Init
  <2>2. keyboard \in Seq(Line) /\ fate \in Seq(Fates) /\ Len(fate) = 0 /\ DOMAIN keyboard = {}
    BY EmptySeq DEF Init
  <2> QED
    BY <2>1, <2>2, NoLineFields DEF Init, UserTypes, States
<1>3. ThreadInv
  BY DEF Init, ThreadInv, Handling, Commands
<1>4. NumberInv
  BY DEF Init, NumberInv
<1>5. FateInv
  BY DEF Init, FateInv
<1>6. SessionKept
  BY DEF Init, SessionKept
<1> QED
  BY <1>1, <1>2, <1>3, <1>4, <1>5, <1>6 DEF KeptInv, TypeInv

\* The end of a line's way, for whatever reason.
LineEnds(how) ==
    /\ Finish(how) /\ UNCHANGED <<keyboard, user, link>>
    /\ how \in {"blank", "explained", "noSession", "disconnected", "sent"}
    /\ how = "disconnected" => link = "down"

LEMMA LineNumbered ==
    ASSUME TypeInv, line # NoLine
    PROVE  line.number \in 1 .. typed /\ line.number \in DOMAIN fate
<1>1. Len(keyboard) \in Nat /\ DOMAIN fate = 1 .. typed
  BY LenProperties DEF TypeInv, UserTypes
<1> QED
  BY <1>1 DEF TypeInv, NumberInv, UserTypes

LEMMA FinishKept ==
    ASSUME TypeInv, FateInv, NEW how, LineEnds(how)
    PROVE  UserTypes' /\ ThreadInv' /\ NumberInv' /\ FateInv'
<1>1. /\ fate' = IF line = NoLine THEN fate ELSE [fate EXCEPT ![line.number] = how]
      /\ ui' = "drain" /\ line' = NoLine /\ command' = "none"
      /\ UNCHANGED <<keyboard, seen, asked, typed, hasty, burst, link>>
      /\ how \in Fates \ {"typed", "overwritten"} /\ (how = "disconnected" => link = "down")
  BY DEF LineEnds, Finish, Done, user, Fates
<1>2. /\ fate \in Seq(Fates) /\ Len(fate) = typed /\ Len(keyboard) \in Nat /\ typed \in Nat
      /\ DOMAIN fate = 1 .. typed
  BY LenProperties DEF TypeInv, UserTypes
<1>3. /\ fate' \in Seq(Fates) /\ Len(fate') = typed /\ DOMAIN fate' = 1 .. typed
      /\ \A n \in 1 .. typed : fate'[n] = IF line # NoLine /\ n = line.number THEN how ELSE fate[n]
  <2>1. CASE line = NoLine
    BY <1>1, <1>2, <2>1
  <2>2. CASE line # NoLine
    <3>1. line.number \in 1 .. Len(fate)
      BY <1>2, <2>2, LineNumbered
    <3>2. PICK f : f = [fate EXCEPT ![line.number] = how]
      OBVIOUS
    <3>3. /\ f \in Seq(Fates) /\ Len(f) = Len(fate)
          /\ \A j \in 1 .. Len(fate) : f[j] = IF j = line.number THEN how ELSE fate[j]
      BY <1>1, <1>2, <3>1, <3>2, ExceptSeq
    <3>4. DOMAIN f = 1 .. typed
      BY <1>2, <3>3, LenProperties
    <3> QED
      BY <1>1, <1>2, <2>2, <3>2, <3>3, <3>4
  <2> QED
    BY <2>1, <2>2
<1>4. UserTypes'
  BY <1>1, <1>3, NoLineFields DEF TypeInv, UserTypes
<1>5. ThreadInv'
  BY <1>1 DEF ThreadInv, Handling
<1>6. NumberInv'
  BY <1>1 DEF TypeInv, NumberInv
<1>7. FateInv'
  <2>1. ASSUME NEW n \in DOMAIN fate'
        PROVE  /\ fate'[n] = "typed" <=> n > typed - Len(keyboard) \/ line'.number = n
               /\ fate'[n] = "overwritten" => n \in burst
               /\ fate'[n] = "disconnected" => link = "down"
    <3>1. n \in DOMAIN fate /\ n \in Nat /\ n > 0
      BY <1>2, <1>3, <2>1
    <3>0. line'.number # n
      BY <1>1, <3>1, NoLineFields
    <3>2. CASE line # NoLine /\ n = line.number
      <4>1. fate'[n] = how /\ n = typed - Len(keyboard)
        BY <1>2, <1>3, <3>1, <3>2 DEF TypeInv, NumberInv
      <4> QED
        BY <1>1, <1>2, <3>0, <4>1
    <3>3. CASE ~(line # NoLine /\ n = line.number)
      <4>1. fate'[n] = fate[n]
        BY <1>2, <1>3, <3>1, <3>3
      <4>2. line.number # n
        BY <3>1, <3>3, NoLineFields
      <4> QED
        BY <3>0, <3>1, <4>1, <4>2 DEF FateInv
    <3> QED
      BY <3>2, <3>3
  <2> QED
    BY <1>1, <2>1 DEF FateInv
<1> QED
  BY <1>4, <1>5, <1>6, <1>7

\* Steps that leave the lines where they are.
LEMMA LinesStay ==
    ASSUME TypeInv, FateInv, UNCHANGED <<keyboard, line, user, fate>>, link' = link \/ link' = "down"
    PROVE  UserTypes' /\ NumberInv' /\ (ui' = ui \/ ui' # "pump" => FateInv')
<1>1. UNCHANGED <<keyboard, line, seen, asked, typed, hasty, burst, fate>>
  BY DEF user
<1>2. UserTypes'
  BY <1>1 DEF TypeInv, UserTypes
<1>3. NumberInv'
  BY <1>1 DEF TypeInv, NumberInv
<1>4. ASSUME ui' = ui \/ ui' # "pump" PROVE FateInv'
  BY <1>1, <1>4 DEF FateInv
<1> QED
  BY <1>2, <1>3, <1>4

LEMMA ReceiveKept == ASSUME KeptInv, Receive PROVE KeptInv'
<1>1. /\ todo = <<>> /\ s2c # <<>> /\ todo' = Handler(Head(s2c)) /\ s2c' = Tail(s2c)
      /\ UNCHANGED <<state, session, logQ, ui, line, command, link, c2s, keyboard, user, fate>>
  BY DEF Receive, interface
<1>2. /\ Head(s2c) \in Packets /\ Head(s2c) = s2c[1] /\ 1 \in DOMAIN s2c /\ s2c' \in Seq(Packets)
  BY <1>1, HeadDrops DEF KeptInv, TypeInv, WorkerTypes
<1>3. PICK h : h = Handler(Head(s2c))
  OBVIOUS
<1>4. h \in Seq(Steps) /\ (s2c[1] = "prompt" => Prompts(h))
  BY <1>2, <1>3, Handlers
<1>5. todo' = h
  BY <1>1, <1>3
<1>6. WorkerTypes'
  BY <1>1, <1>2, <1>4, <1>5 DEF KeptInv, TypeInv, WorkerTypes
<1>7. UserTypes' /\ NumberInv' /\ FateInv'
  BY <1>1, LinesStay DEF KeptInv
<1>8. ThreadInv'
  BY <1>1 DEF KeptInv, TypeInv, ThreadInv
<1>9. ~session => \E n \in DOMAIN h : h[n] = SetSession
  <2> SUFFICES ASSUME ~session PROVE \E n \in DOMAIN h : h[n] = SetSession
    OBVIOUS
  <2>1. DOMAIN todo = {}
    BY <1>1
  <2>2. s2c[1] = "prompt"
    BY <1>2, <2>1 DEF KeptInv, SessionKept, Storing
  <2> QED
    BY <1>4, <2>2 DEF Prompts
<1>10. SessionKept'
  BY <1>1, <1>5, <1>9 DEF KeptInv, SessionKept, Storing
<1> QED
  BY <1>6, <1>7, <1>8, <1>10 DEF KeptInv, TypeInv

LEMMA ExecuteKept == ASSUME KeptInv, Execute PROVE KeptInv'
<1>1. PICK step : step = Head(todo)
  OBVIOUS
<1>2. /\ todo # <<>> /\ todo' = Tail(todo)
      /\ state' = IF step.do = "setState" THEN step.to ELSE state
      /\ session' = (session \/ step.do = "setSession")
      /\ logQ' = IF step.do = "log" THEN Append(logQ, step.what) ELSE logQ
      /\ UNCHANGED <<ui, line, command, link, c2s, s2c, keyboard, user, fate>>
  BY <1>1 DEF Execute, interface, network
<1>3. todo \in Seq(Steps) /\ logQ \in Seq(Whats) /\ state \in States
  BY DEF KeptInv, TypeInv, WorkerTypes
<1>4. step \in Steps /\ step = todo[1] /\ todo' \in Seq(Steps) /\ Drops(todo, todo')
  BY <1>1, <1>2, <1>3, HeadDrops
<1>5. state' \in States
  BY <1>2, <1>3, <1>4, StepFields
<1>6. logQ' \in Seq(Whats)
  <2>1. step.do = "log" => step.what \in Whats
    BY <1>4, StepFields
  <2> QED
    BY <1>2, <1>3, <2>1, LastAppends
<1>7. session' \in BOOLEAN
  BY <1>2, Zenon
<1>8. WorkerTypes'
  BY <1>2, <1>4, <1>5, <1>6, <1>7 DEF KeptInv, TypeInv, WorkerTypes
<1>9. UserTypes' /\ NumberInv' /\ FateInv'
  BY <1>2, LinesStay DEF KeptInv
<1>10. ThreadInv'
  BY <1>2 DEF KeptInv, TypeInv, ThreadInv
<1>11. ASSUME ~session'
       PROVE  \E n \in DOMAIN todo' : todo'[n] = SetSession
  <2>1. ~session /\ step.do # "setSession"
    BY <1>2, <1>11
  <2>2. PICK n \in DOMAIN todo : todo[n] = SetSession
    BY <1>2, <2>1 DEF KeptInv, SessionKept, Storing
  <2>3. n # 1
    BY <1>4, <2>1, <2>2, StepFields
  <2> QED
    BY <1>4, <2>2, <2>3 DEF Drops
<1>12. SessionKept'
  <2>1. link # "down"
    BY <1>2 DEF KeptInv, SessionKept
  <2>2. ~session' => c2s' = <<>> /\ ui' \notin {"send", "leave"}
    <3>1. Storing => step.do = "setSession"
      BY <1>1, StepFields DEF Storing
    <3> QED
      BY <1>2, <3>1 DEF KeptInv, SessionKept
  <2> QED
    BY <1>2, <1>11, <2>1, <2>2 DEF SessionKept
<1> QED
  BY <1>8, <1>9, <1>10, <1>12 DEF KeptInv, TypeInv

LEMMA DisconnectedKept == ASSUME KeptInv, Disconnected PROVE KeptInv'
<1>1. /\ link = "up" /\ todo = <<>> /\ link' = "down" /\ c2s' = <<>> /\ s2c' = <<>>
      /\ UNCHANGED <<state, session, todo, logQ, ui, line, command, keyboard, user, fate>>
  BY DEF Disconnected, interface
<1>2. WorkerTypes'
  <2>1. c2s' \in Seq(Commands) /\ s2c' \in Seq(Packets)
    BY <1>1, EmptySeq
  <2> QED
    BY <1>1, <2>1 DEF KeptInv, TypeInv, WorkerTypes
<1>3. UserTypes' /\ NumberInv' /\ FateInv'
  BY <1>1, LinesStay DEF KeptInv
<1>4. ThreadInv'
  BY <1>1 DEF KeptInv, TypeInv, ThreadInv
<1>5. SessionKept'
  <2>1. DOMAIN s2c' = {} /\ DOMAIN todo = {}
    BY <1>1
  <2> QED
    BY <1>1, <2>1 DEF KeptInv, SessionKept, Storing
<1> QED
  BY <1>2, <1>3, <1>4, <1>5 DEF KeptInv, TypeInv

LEMMA ServeKept == ASSUME KeptInv, Serve PROVE KeptInv'
<1>1. PICK answers \in Answers(Head(c2s)) : s2c' = s2c \o answers
  BY DEF Serve
<1>2. /\ c2s # <<>> /\ c2s' = Tail(c2s)
      /\ UNCHANGED <<state, session, todo, logQ, ui, line, command, link, keyboard, user, fate>>
  BY DEF Serve, interface
<1>3. Head(c2s) \in Commands /\ c2s' \in Seq(Commands)
  BY <1>2, HeadDrops DEF KeptInv, TypeInv, WorkerTypes
<1>4. answers \in Seq(Packets)
  BY <1>3, AnswersOf
<1>5. s2c' \in Seq(Packets)
  BY <1>1, <1>4, ConcatProperties DEF KeptInv, TypeInv, WorkerTypes
<1>6. WorkerTypes'
  BY <1>2, <1>3, <1>5 DEF KeptInv, TypeInv, WorkerTypes
<1>7. UserTypes' /\ NumberInv' /\ FateInv'
  BY <1>2, LinesStay DEF KeptInv
<1>8. ThreadInv'
  BY <1>2 DEF KeptInv, TypeInv, ThreadInv
<1>9. SessionKept'
  BY <1>2 DEF KeptInv, SessionKept, Storing
<1> QED
  BY <1>6, <1>7, <1>8, <1>9 DEF KeptInv, TypeInv

LEMMA PumpInputKept == ASSUME KeptInv, PumpInput PROVE KeptInv'
<1>1. /\ ui = "pump" /\ keyboard # <<>> /\ line' = Head(keyboard) /\ keyboard' = Tail(keyboard)
      /\ fate' = IF line = NoLine THEN fate ELSE [fate EXCEPT ![line.number] = "overwritten"]
      /\ UNCHANGED <<state, session, todo, logQ, ui, command, link, c2s, s2c>>
      /\ UNCHANGED <<seen, asked, typed, hasty, burst>>
  BY DEF PumpInput, Done, network, user
<1>2. /\ keyboard \in Seq(Line) /\ fate \in Seq(Fates) /\ Len(fate) = typed /\ typed \in Nat
      /\ DOMAIN fate = 1 .. typed /\ burst \subseteq 1 .. typed
  BY LenProperties DEF KeptInv, TypeInv, UserTypes
<1>3. /\ line' = keyboard[1] /\ line' \in Line /\ 1 \in DOMAIN keyboard
      /\ keyboard' \in Seq(Line) /\ Drops(keyboard, keyboard')
  BY <1>1, <1>2, HeadDrops
<1>4. keyboard[1].number = typed - Len(keyboard) + 1 /\ Len(keyboard) <= typed
  BY <1>3 DEF KeptInv, TypeInv, NumberInv
<1>5. /\ fate' \in Seq(Fates) /\ Len(fate') = typed /\ DOMAIN fate' = 1 .. typed
      /\ \A n \in 1 .. typed :
            fate'[n] = IF line # NoLine /\ n = line.number THEN "overwritten" ELSE fate[n]
  <2>1. CASE line = NoLine
    BY <1>1, <1>2, <2>1
  <2>2. CASE line # NoLine
    <3>1. line.number \in 1 .. Len(fate)
      BY <1>2, <2>2, LineNumbered DEF KeptInv
    <3>2. PICK f : f = [fate EXCEPT ![line.number] = "overwritten"]
      OBVIOUS
    <3>3. /\ f \in Seq(Fates) /\ Len(f) = Len(fate)
          /\ \A j \in 1 .. Len(fate) : f[j] = IF j = line.number THEN "overwritten" ELSE fate[j]
      BY <1>2, <3>1, <3>2, ExceptSeq DEF Fates
    <3>4. DOMAIN f = 1 .. typed
      BY <1>2, <3>3, LenProperties
    <3> QED
      BY <1>1, <1>2, <2>2, <3>2, <3>3, <3>4
  <2> QED
    BY <2>1, <2>2
<1>6. WorkerTypes'
  BY <1>1 DEF KeptInv, TypeInv, WorkerTypes
<1>7. UserTypes'
  <2>1. \A n \in DOMAIN keyboard' : keyboard'[n].text \in Texts
    BY <1>3 DEF Drops, KeptInv, TypeInv, UserTypes
  <2>2. line'.text \in Texts
    BY <1>3 DEF KeptInv, TypeInv, UserTypes
  <2> QED
    BY <1>1, <1>3, <1>5, <2>1, <2>2 DEF KeptInv, TypeInv, UserTypes
<1>8. ThreadInv'
  BY <1>1 DEF KeptInv, TypeInv, ThreadInv, Handling
<1>9. NumberInv'
  <2>1. Len(keyboard') <= typed /\ Len(keyboard) \in Nat /\ Len(keyboard') = Len(keyboard) - 1
    BY <1>2, <1>3, <1>4 DEF Drops
  <2>2. ASSUME NEW n \in DOMAIN keyboard'
        PROVE  keyboard'[n].number = (typed - Len(keyboard')) + n
    <3>1. n \in Nat /\ n + 1 \in DOMAIN keyboard /\ keyboard'[n] = keyboard[n + 1]
      BY <1>3, <2>1, <2>2 DEF Drops
    <3>2. keyboard[n + 1].number = (typed - Len(keyboard)) + (n + 1)
      BY <3>1 DEF KeptInv, TypeInv, NumberInv
    <3> QED
      BY <1>2, <2>1, <3>1, <3>2
  <2>3. line'.number = typed - Len(keyboard') /\ line'.number > 0
    BY <1>2, <1>3, <1>4, <2>1 DEF Drops
  <2> QED
    BY <1>1, <2>1, <2>2, <2>3 DEF NumberInv
<1>10. FateInv'
  <2>1. Len(keyboard) \in Nat /\ Len(keyboard') = Len(keyboard) - 1 /\ Len(keyboard) > 0
    BY <1>3 DEF Drops
  <2>2. line # NoLine => line.number \in burst /\ line.number \in Nat
    <3>1. line # NoLine => line.number \in burst
      BY <1>1 DEF KeptInv, FateInv
    <3>2. line.number \in Nat
      BY LineFields DEF KeptInv, TypeInv, UserTypes
    <3> QED
      BY <3>1, <3>2
  <2>3. ASSUME NEW n \in DOMAIN fate'
        PROVE  /\ fate'[n] = "typed" <=> n > typed - Len(keyboard') \/ line'.number = n
               /\ fate'[n] = "overwritten" => n \in burst
               /\ fate'[n] = "disconnected" => link = "down"
    <3>1. n \in DOMAIN fate /\ n \in Nat /\ n > 0
      BY <1>2, <1>5, <2>3
    <3>2. CASE line # NoLine /\ n = line.number
      <4>1. fate'[n] = "overwritten" /\ n = typed - Len(keyboard)
        BY <1>2, <1>5, <3>1, <3>2 DEF KeptInv, TypeInv, NumberInv
      <4> QED
        BY <1>2, <1>3, <1>4, <2>1, <2>2, <3>1, <3>2, <4>1
    <3>3. CASE ~(line # NoLine /\ n = line.number)
      <4>1. fate'[n] = fate[n]
        BY <1>2, <1>5, <3>1, <3>3
      <4>2. line.number # n
        BY <3>1, <3>3, NoLineFields
      <4>3. fate[n] = "typed" <=> n > typed - Len(keyboard)
        BY <3>1, <4>2 DEF KeptInv, FateInv
      <4>4. fate[n] = "typed" <=> n > typed - Len(keyboard') \/ line'.number = n
        BY <1>2, <1>3, <1>4, <2>1, <3>1, <4>3
      <4> QED
        BY <3>1, <4>1, <4>4 DEF KeptInv, FateInv
    <3> QED
      BY <3>2, <3>3
  <2>4. \A n \in DOMAIN keyboard' : n < Len(keyboard') => keyboard'[n].number \in burst
    BY <1>3, <2>1 DEF Drops, KeptInv, FateInv
  <2>5. keyboard' # <<>> => line'.number \in burst
    <3>1. keyboard' # <<>> => Len(keyboard') > 0
      BY <1>3, EmptySeq
    <3> QED
      BY <1>3, <2>1, <3>1 DEF KeptInv, FateInv
  <2> QED
    BY <1>1, <2>3, <2>4, <2>5 DEF FateInv
<1>11. SessionKept'
  BY <1>1 DEF KeptInv, SessionKept, Storing
<1> QED
  BY <1>6, <1>7, <1>8, <1>9, <1>10, <1>11 DEF KeptInv, TypeInv

LEMMA PumpInputReturnsKept == ASSUME KeptInv, PumpInputReturns PROVE KeptInv'
<1>1. /\ ui = "pump" /\ keyboard = <<>>
      /\ \/ line.text = "blank" /\ Finish("blank")
         \/ line.text # "blank" /\ ui' = "handle" /\ UNCHANGED <<line, command, fate>>
      /\ UNCHANGED <<state, session, todo, logQ, link, c2s, s2c, keyboard, user>>
  BY DEF PumpInputReturns, network
<1>2. WorkerTypes'
  BY <1>1 DEF KeptInv, TypeInv, WorkerTypes
<1>3. UserTypes' /\ ThreadInv' /\ NumberInv' /\ FateInv' /\ ui' \in {"drain", "handle"} /\ command' = "none"
  <2>0. command = "none"
    BY <1>1 DEF KeptInv, TypeInv, ThreadInv
  <2>1. CASE line.text = "blank"
    <3>1. LineEnds("blank")
      BY <1>1, <2>1 DEF LineEnds
    <3> QED
      BY <3>1, FinishKept DEF KeptInv, LineEnds, Finish
  <2>2. CASE line.text # "blank"
    <3>1. ThreadInv'
      BY <1>1, <2>0, <2>2 DEF ThreadInv, Handling
    <3> QED
      BY <1>1, <2>0, <2>2, <3>1, LinesStay DEF KeptInv
  <2> QED
    BY <2>1, <2>2
<1>4. SessionKept'
  BY <1>1, <1>3 DEF KeptInv, SessionKept, Storing
<1> QED
  BY <1>2, <1>3, <1>4 DEF KeptInv, TypeInv

LEMMA CommandIsOne ==
    ASSUME NEW where, NEW text
    PROVE  CommandIn(where, text) \in Commands \cup {"none"}
BY DEF CommandIn, Commands

LEMMA HandleInputLineKept == ASSUME KeptInv, HandleInputLine PROVE KeptInv'
<1>1. PICK c : c = CommandIn(state, line.text)
  OBVIOUS
<1>2. /\ ui = "handle"
      /\ logQ' = IF c \in {"none", "setNickname"} THEN Append(logQ, "other") ELSE logQ
      /\ \/ c = "none" /\ Finish("explained")
         \/ c # "none" /\ ui' = "acquire" /\ command' = c /\ UNCHANGED <<line, fate>>
      /\ UNCHANGED <<state, session, todo, link, c2s, s2c, keyboard, user>>
  BY <1>1 DEF HandleInputLine, network
<1>3. c \in Commands \cup {"none"}
  BY <1>1, CommandIsOne
<1>4. WorkerTypes'
  <2>1. logQ' \in Seq(Whats)
    BY <1>2, LastAppends DEF KeptInv, TypeInv, WorkerTypes, Whats
  <2> QED
    BY <1>2, <2>1 DEF KeptInv, TypeInv, WorkerTypes
<1>5. UserTypes' /\ ThreadInv' /\ NumberInv' /\ FateInv' /\ ui' \in {"drain", "acquire"}
  <2>1. CASE c = "none"
    <3>1. LineEnds("explained")
      BY <1>2, <2>1 DEF LineEnds
    <3> QED
      BY <3>1, FinishKept DEF KeptInv, LineEnds, Finish
  <2>2. CASE c # "none"
    <3>1. ThreadInv'
      BY <1>2, <1>3, <2>2 DEF KeptInv, TypeInv, ThreadInv, Handling
    <3> QED
      BY <1>2, <2>2, <3>1, LinesStay DEF KeptInv
  <2> QED
    BY <2>1, <2>2
<1>6. state = "Connecting" => c = "none" /\ command' = "none"
  BY <1>1, <1>2 DEF CommandIn, Finish
<1>7. SessionKept'
  <2>1. command = "none"
    BY <1>2 DEF KeptInv, TypeInv, ThreadInv
  <2> QED
    BY <1>2, <1>5, <1>6, <2>1 DEF KeptInv, SessionKept, Storing
<1> QED
  BY <1>4, <1>5, <1>7 DEF KeptInv, TypeInv

LEMMA AcquireSessionKept == ASSUME KeptInv, AcquireSession PROVE KeptInv'
<1>1. /\ ui = "acquire"
      /\ \/ link = "down" /\ Finish("disconnected")
         \/ ~session /\ Finish("noSession")
         \/ (session \/ Storing) /\ ui' = "send" /\ UNCHANGED <<line, command, fate>>
      /\ UNCHANGED <<state, session, todo, logQ, link, c2s, s2c, keyboard, user>>
  BY DEF AcquireSession, network
<1>2. WorkerTypes'
  BY <1>1 DEF KeptInv, TypeInv, WorkerTypes
<1>3. UserTypes' /\ ThreadInv' /\ NumberInv' /\ FateInv' /\ (ui' = "drain" \/ session \/ Storing)
  <2>1. CASE link = "down" /\ Finish("disconnected")
    <3>1. LineEnds("disconnected")
      BY <1>1, <2>1 DEF LineEnds
    <3> QED
      BY <3>1, FinishKept DEF KeptInv, LineEnds, Finish
  <2>2. CASE Finish("noSession")
    <3>1. LineEnds("noSession")
      BY <1>1, <2>2 DEF LineEnds
    <3> QED
      BY <3>1, FinishKept DEF KeptInv, LineEnds, Finish
  <2>3. CASE (session \/ Storing) /\ ui' = "send" /\ UNCHANGED <<line, command, fate>>
    <3>1. ThreadInv'
      BY <1>1, <2>3 DEF KeptInv, TypeInv, ThreadInv, Handling
    <3> QED
      BY <1>1, <2>3, <3>1, LinesStay DEF KeptInv
  <2> QED
    BY <1>1, <2>1, <2>2, <2>3
<1>4. SessionKept'
  <2>1. command # "none"
    BY <1>1 DEF KeptInv, TypeInv, ThreadInv
  <2> QED
    BY <1>1, <1>3, <2>1 DEF KeptInv, SessionKept, Storing
<1> QED
  BY <1>2, <1>3, <1>4 DEF KeptInv, TypeInv

LEMMA SendKept == ASSUME KeptInv, Send PROVE KeptInv'
<1>1. /\ ui = "send" /\ c2s' = IF link = "up" THEN Append(c2s, command) ELSE c2s
      /\ \/ command = "leaveRoom" /\ ui' = "leave" /\ UNCHANGED <<line, command, fate>>
         \/ command # "leaveRoom" /\ Finish(IF link = "up" THEN "sent" ELSE "disconnected")
      /\ UNCHANGED <<state, session, todo, logQ, link, s2c, keyboard, user>>
  BY DEF Send
<1>2. command \in Commands /\ link \in {"up", "down"} /\ (session \/ Storing)
  BY <1>1 DEF KeptInv, TypeInv, ThreadInv, WorkerTypes, SessionKept
<1>3. c2s' \in Seq(Commands)
  BY <1>1, <1>2, LastAppends DEF KeptInv, TypeInv, WorkerTypes
<1>4. WorkerTypes'
  BY <1>1, <1>3 DEF KeptInv, TypeInv, WorkerTypes
<1>5. UserTypes' /\ ThreadInv' /\ NumberInv' /\ FateInv'
  <2>1. CASE command = "leaveRoom" /\ ui' = "leave" /\ UNCHANGED <<line, command, fate>>
    <3>1. ThreadInv'
      BY <1>1, <2>1 DEF KeptInv, TypeInv, ThreadInv, Handling
    <3> QED
      BY <1>1, <2>1, <3>1, LinesStay DEF KeptInv
  <2>2. CASE Finish(IF link = "up" THEN "sent" ELSE "disconnected")
    <3>1. LineEnds(IF link = "up" THEN "sent" ELSE "disconnected")
      BY <1>1, <1>2, <2>2 DEF LineEnds
    <3> QED
      BY <3>1, FinishKept DEF KeptInv
  <2> QED
    BY <1>1, <2>1, <2>2
<1>6. SessionKept'
  BY <1>1, <1>2 DEF KeptInv, SessionKept, Storing
<1> QED
  BY <1>4, <1>5, <1>6 DEF KeptInv, TypeInv

LEMMA LeaveRoomKept == ASSUME KeptInv, LeaveRoom PROVE KeptInv'
<1>1. /\ ui = "leave" /\ state' = "Lobby" /\ Finish(IF link = "up" THEN "sent" ELSE "disconnected")
      /\ UNCHANGED <<session, todo, logQ, link, c2s, s2c, keyboard, user>>
  BY DEF LeaveRoom, network
<1>2. link \in {"up", "down"} /\ (session \/ Storing)
  BY <1>1 DEF KeptInv, TypeInv, WorkerTypes, SessionKept
<1>3. WorkerTypes'
  BY <1>1 DEF KeptInv, TypeInv, WorkerTypes, States
<1>4. UserTypes' /\ ThreadInv' /\ NumberInv' /\ FateInv'
  <2>1. LineEnds(IF link = "up" THEN "sent" ELSE "disconnected")
    BY <1>1, <1>2 DEF LineEnds
  <2> QED
    BY <2>1, FinishKept DEF KeptInv
<1>5. SessionKept'
  BY <1>1, <1>2 DEF KeptInv, SessionKept, Storing
<1> QED
  BY <1>3, <1>4, <1>5 DEF KeptInv, TypeInv

LEMMA DrainLogsKept == ASSUME KeptInv, DrainLogs PROVE KeptInv'
<1>1. PICK telling : telling = {n \in DOMAIN logQ : logQ[n] \in DOMAIN Meaning}
  OBVIOUS
<1>2. /\ ui = "drain" /\ ui' = "pump" /\ logQ' = <<>>
      /\ seen' = seen \/ \E n \in telling : seen' = Meaning[logQ[n]]
      /\ asked' = (asked /\ Range(logQ) \cap AnswerLines = {})
      /\ UNCHANGED <<state, session, todo, line, command, link, c2s, s2c, keyboard>>
      /\ UNCHANGED <<typed, hasty, burst, fate>>
  BY <1>1 DEF DrainLogs, network
<1>3. WorkerTypes'
  <2>1. logQ' \in Seq(Whats)
    BY <1>2, EmptySeq
  <2> QED
    BY <1>2, <2>1 DEF KeptInv, TypeInv, WorkerTypes
<1>4. UserTypes'
  <2>1. seen' \in States
    BY <1>1, <1>2 DEF Meaning, States, KeptInv, TypeInv, UserTypes
  <2>2. asked' \in BOOLEAN
    BY <1>2, Zenon
  <2> QED
    BY <1>2, <2>1, <2>2 DEF KeptInv, TypeInv, UserTypes
<1>5. line = NoLine /\ command = "none"
  BY <1>2 DEF KeptInv, TypeInv, ThreadInv
<1>6. ThreadInv'
  BY <1>2, <1>5 DEF ThreadInv, Handling
<1>7. NumberInv'
  BY <1>2 DEF KeptInv, TypeInv, NumberInv
<1>8. FateInv'
  BY <1>2, <1>5 DEF KeptInv, FateInv
<1>9. SessionKept'
  BY <1>2 DEF KeptInv, SessionKept, Storing
<1> QED
  BY <1>3, <1>4, <1>6, <1>7, <1>8, <1>9 DEF KeptInv, TypeInv

LEMMA TypeKept == ASSUME KeptInv, NEW text \in Texts, Type(text) PROVE KeptInv'
<1>1. PICK new : new = [number |-> typed + 1, text |-> text, meant |-> seen]
  OBVIOUS
<1>2. PICK c : c = CommandIn(seen, text)
  OBVIOUS
<1>3. PICK ahead : ahead = {l.number : l \in Range(keyboard)}
                             \cup (IF ui = "pump" THEN {line.number} \ {0} ELSE {})
  OBVIOUS
<1>4. /\ typed < MaxLines /\ typed' = typed + 1 /\ keyboard' = Append(keyboard, new)
      /\ fate' = Append(fate, "typed") /\ burst' = burst \cup ahead
      /\ asked' = (asked \/ c \in {"setNickname", "joinRoom"})
      /\ hasty' = (hasty \/ (text # "blank" /\ (asked \/ seen = "Connecting")))
      /\ seen' = IF c = "leaveRoom" THEN "Lobby" ELSE seen
      /\ UNCHANGED <<state, session, todo, logQ, ui, line, command, link, c2s, s2c>>
  BY <1>1, <1>2, <1>3 DEF Type, interface, network
<1>5. /\ keyboard \in Seq(Line) /\ fate \in Seq(Fates) /\ Len(fate) = typed /\ typed \in Nat
      /\ line \in Line /\ line.number \in Nat /\ Len(keyboard) \in Nat /\ DOMAIN keyboard = 1 .. Len(keyboard)
      /\ burst \subseteq 1 .. typed /\ seen \in States
  BY LenProperties, LineFields DEF KeptInv, TypeInv, UserTypes
<1>6. new \in Line /\ new.number = typed + 1 /\ new.text = text
  BY <1>1, <1>5 DEF Line, AllTexts
<1>7. keyboard' \in Seq(Line) /\ Appends(keyboard, keyboard', new)
  BY <1>4, <1>5, <1>6, LastAppends
<1>8. fate' \in Seq(Fates) /\ Appends(fate, fate', "typed")
  BY <1>4, <1>5, LastAppends DEF Fates
<1>9. ahead \subseteq 1 .. typed
  <2>1. ASSUME NEW n \in DOMAIN keyboard PROVE keyboard[n].number \in 1 .. typed
    <3>1. keyboard[n].number = (typed - Len(keyboard)) + n /\ Len(keyboard) <= typed
      BY DEF KeptInv, TypeInv, NumberInv
    <3> QED
      BY <1>5, <3>1
  <2>2. line.number \in 0 .. typed
    BY <1>5, LineNumbered, NoLineFields DEF KeptInv
  <2>3. \A x \in ahead : (\E n \in DOMAIN keyboard : x = keyboard[n].number) \/ (x = line.number /\ x # 0)
    BY <1>3 DEF Range
  <2> QED
    BY <1>5, <2>1, <2>2, <2>3
<1>10. WorkerTypes'
  BY <1>4 DEF KeptInv, TypeInv, WorkerTypes
<1>11. UserTypes'
  <2>1. asked' \in BOOLEAN /\ hasty' \in BOOLEAN
    BY <1>4, Zenon
  <2>2. seen' \in States
    BY <1>4, <1>5 DEF States
  <2>3. typed' \in 0 .. MaxLines /\ burst' \subseteq 1 .. typed' /\ Len(fate') = typed'
    BY <1>4, <1>5, <1>8, <1>9 DEF Appends
  <2>4. ASSUME NEW n \in DOMAIN keyboard' PROVE keyboard'[n].text \in Texts
    <3>1. CASE n \in DOMAIN keyboard
      BY <1>7, <3>1 DEF Appends, KeptInv, TypeInv, UserTypes
    <3>2. CASE n \notin DOMAIN keyboard
      <4>1. n = Len(keyboard')
        BY <1>7, <2>4, <3>2 DEF Appends
      <4> QED
        BY <1>6, <1>7, <4>1 DEF Appends
    <3> QED
      BY <3>1, <3>2
  <2>5. line' \in Line /\ (line' = NoLine \/ line'.text \in Texts)
    BY <1>4 DEF KeptInv, TypeInv, UserTypes
  <2> QED
    BY <1>7, <1>8, <2>1, <2>2, <2>3, <2>4, <2>5 DEF UserTypes
<1>12. ThreadInv'
  BY <1>4 DEF KeptInv, TypeInv, ThreadInv
<1>13. NumberInv'
  <2>1. Len(keyboard) <= typed /\ Len(keyboard') = Len(keyboard) + 1
    BY <1>7 DEF Appends, KeptInv, TypeInv, NumberInv
  <2>2. ASSUME NEW n \in DOMAIN keyboard'
        PROVE  keyboard'[n].number = (typed' - Len(keyboard')) + n
    <3>1. CASE n \in DOMAIN keyboard
      <4>1. keyboard'[n] = keyboard[n] /\ keyboard[n].number = (typed - Len(keyboard)) + n
        BY <1>7, <3>1 DEF Appends, KeptInv, TypeInv, NumberInv
      <4> QED
        BY <1>4, <1>5, <2>1, <3>1, <4>1
    <3>2. CASE n \notin DOMAIN keyboard
      <4>1. n = Len(keyboard') /\ keyboard'[n] = new
        BY <1>7, <2>2, <3>2 DEF Appends
      <4> QED
        BY <1>4, <1>5, <1>6, <2>1, <4>1
    <3> QED
      BY <3>1, <3>2
  <2>3. line = NoLine \/ (line.number = typed - Len(keyboard) /\ line.number > 0)
    BY DEF KeptInv, TypeInv, NumberInv
  <2>4. line' = NoLine \/ (line'.number = typed' - Len(keyboard') /\ line'.number > 0)
    BY <1>4, <1>5, <2>1, <2>3
  <2> QED
    BY <1>4, <1>5, <2>1, <2>2, <2>4 DEF NumberInv
<1>14. FateInv'
  <2>1. Len(keyboard') = Len(keyboard) + 1 /\ typed' - Len(keyboard') = typed - Len(keyboard)
    BY <1>4, <1>5, <1>7 DEF Appends
  <2>2. ASSUME NEW n \in DOMAIN fate'
        PROVE  /\ fate'[n] = "typed" <=> n > typed' - Len(keyboard') \/ line'.number = n
               /\ fate'[n] = "overwritten" => n \in burst'
               /\ fate'[n] = "disconnected" => link' = "down"
    <3>1. CASE n \in DOMAIN fate
      <4>1. fate'[n] = fate[n]
        BY <1>8, <3>1 DEF Appends
      <4> QED
        BY <1>4, <2>1, <3>1, <4>1 DEF KeptInv, FateInv
    <3>2. CASE n \notin DOMAIN fate
      <4>1. n = Len(fate') /\ fate'[n] = "typed" /\ n = typed + 1
        BY <1>5, <1>8, <2>2, <3>2 DEF Appends
      <4> QED
        BY <1>5, <2>1, <4>1
    <3> QED
      BY <3>1, <3>2
  <2>3. ASSUME NEW n \in DOMAIN keyboard', n < Len(keyboard')
        PROVE  keyboard'[n].number \in burst'
    <3>1. n \in DOMAIN keyboard /\ keyboard'[n] = keyboard[n]
      BY <1>7, <2>3 DEF Appends
    <3>2. keyboard[n] \in Range(keyboard)
      BY <3>1 DEF Range
    <3> QED
      BY <1>3, <1>4, <3>1, <3>2
  <2>4. ASSUME ui' = "pump", line' # NoLine PROVE line'.number \in burst'
    <3>1. line.number # 0
      BY <1>4, <1>5, <2>4, LineNumbered DEF KeptInv
    <3> QED
      BY <1>3, <1>4, <2>4, <3>1
  <2> QED
    BY <2>2, <2>3, <2>4 DEF FateInv
<1>15. SessionKept'
  BY <1>4 DEF KeptInv, SessionKept, Storing
<1> QED
  BY <1>10, <1>11, <1>12, <1>13, <1>14, <1>15 DEF KeptInv, TypeInv

LEMMA NextKept == ASSUME KeptInv, [Next]_vars PROVE KeptInv'
<1>1. CASE UNCHANGED vars
  <2>1. /\ UNCHANGED <<state, session, todo, logQ, ui, line, command, link, c2s, s2c>>
        /\ UNCHANGED <<keyboard, seen, asked, typed, hasty, burst, fate>>
    BY <1>1 DEF vars, interface, network, user
  <2> QED
    BY <2>1 DEF KeptInv, TypeInv, WorkerTypes, UserTypes, ThreadInv, NumberInv, FateInv, SessionKept, Storing
<1>2. CASE Next
  BY <1>2, ReceiveKept, ExecuteKept, DisconnectedKept, ServeKept, PumpInputKept,
     PumpInputReturnsKept, HandleInputLineKept, AcquireSessionKept, SendKept, LeaveRoomKept,
     DrainLogsKept, TypeKept DEF Next, Worker, Interface
<1> QED
  BY <1>1, <1>2

LEMMA LinesInvariant == Spec => []KeptInv
<1>1. Init => KeptInv
  BY InitKept
<1>2. KeptInv /\ [Next]_vars => KeptInv'
  BY NextKept
<1> QED
  BY <1>1, <1>2, PTL DEF Spec

LEMMA KeptTypes == KeptInv => TypeOK
<1> SUFFICES ASSUME KeptInv PROVE TypeOK
  OBVIOUS
<1>1. WorkerTypes /\ UserTypes /\ ThreadInv /\ NumberInv
  BY DEF KeptInv, TypeInv
<1>2. keyboard \in Seq([number : 1 .. MaxLines, text : Texts, meant : States])
  <2>1. Len(keyboard) \in Nat /\ DOMAIN keyboard = 1 .. Len(keyboard) /\ typed \in 0 .. MaxLines
    BY <1>1, LenProperties DEF UserTypes
  <2>2. ASSUME NEW n \in DOMAIN keyboard
        PROVE  keyboard[n] \in [number : 1 .. MaxLines, text : Texts, meant : States]
    <3>1. keyboard[n] \in Line /\ keyboard[n].text \in Texts
      BY <1>1, <2>1, ElementOfSeq DEF UserTypes
    <3>2. keyboard[n].number = (typed - Len(keyboard)) + n /\ Len(keyboard) <= typed
      BY <1>1 DEF NumberInv
    <3>3. keyboard[n].number \in 1 .. MaxLines
      BY <2>1, <3>2
    <3> QED
      BY <3>1, <3>3 DEF Line
  <2> QED
    BY <1>1, <2>2, ElementsDecide DEF UserTypes
<1>3. ui \in Handling => line # NoLine
  BY <1>1, NoLineFields DEF ThreadInv
<1> QED
  BY <1>1, <1>2, <1>3 DEF TypeOK, WorkerTypes, UserTypes, ThreadInv, Handling

LEMMA KeptLines == KeptInv => LinesAccountedFor
<1> SUFFICES ASSUME KeptInv PROVE LinesAccountedFor
  OBVIOUS
<1>1. /\ Len(keyboard) \in Nat /\ DOMAIN keyboard = 1 .. Len(keyboard)
      /\ typed \in Nat /\ DOMAIN fate = 1 .. typed
  BY LenProperties DEF KeptInv, TypeInv, UserTypes
<1>2. ASSUME NEW n \in DOMAIN fate, fate[n] = "typed", line.number # n
      PROVE  \E l \in Range(keyboard) : l.number = n
  <2>1. n > typed - Len(keyboard)
    BY <1>2 DEF KeptInv, FateInv
  <2>2. PICK i : i = n - (typed - Len(keyboard))
    OBVIOUS
  <2>3. i \in DOMAIN keyboard
    BY <1>1, <2>1, <2>2
  <2>4. keyboard[i].number = (typed - Len(keyboard)) + i
    BY <2>3 DEF KeptInv, TypeInv, NumberInv
  <2>5. keyboard[i].number = n /\ keyboard[i] \in Range(keyboard)
    BY <1>1, <2>2, <2>3, <2>4 DEF Range
  <2> QED
    BY <2>5
<1>3. ASSUME ui = "acquire", ~session PROVE SetSession \in Range(todo)
  <2>1. command # "none"
    BY <1>3 DEF KeptInv, TypeInv, ThreadInv
  <2> QED
    BY <1>3, <2>1 DEF KeptInv, SessionKept, Range
<1> QED
  BY <1>2, <1>3 DEF LinesAccountedFor, KeptInv, FateInv

\* Types, and what the user interface thread has at each of its places.
THEOREM TypeCorrect == Spec => []TypeOK
<1>1. KeptInv => TypeOK
  BY KeptTypes
<1> QED
  BY <1>1, LinesInvariant, PTL

\* However many lines the user types, and however far ahead of the thread, none
\* vanishes without one of the reasons that LinesAccountedFor names.
THEOREM LinesKept == Spec => []LinesAccountedFor
<1>1. KeptInv => LinesAccountedFor
  BY KeptLines
<1> QED
  BY <1>1, LinesInvariant, PTL

-----------------------------------------------------------------------------
(* What is in a queue *)

LEMMA DropsHas ==
    ASSUME NEW s, NEW t, Drops(s, t), NEW E
    PROVE  /\ Has(s, E) <=> s[1] \in E \/ Has(t, E)
           /\ Once(s, E) => Once(t, E) /\ (s[1] \in E => ~Has(t, E))
<1>1. 1 \in DOMAIN s
  BY DEF Drops
<1>2. ASSUME NEW n \in DOMAIN t PROVE n \in Int /\ n + 1 \in DOMAIN s /\ n + 1 # 1 /\ t[n] = s[n + 1]
  BY <1>2 DEF Drops
<1>3. ASSUME NEW n \in DOMAIN s, n # 1 PROVE n - 1 \in DOMAIN t /\ t[n - 1] = s[n]
  BY <1>3 DEF Drops
<1>4. Has(s, E) <=> s[1] \in E \/ Has(t, E)
  BY <1>1, <1>2, <1>3 DEF Has
<1>5. ASSUME Once(s, E) PROVE Once(t, E)
  BY <1>2, <1>5 DEF Once
<1>6. ASSUME Once(s, E), s[1] \in E PROVE ~Has(t, E)
  BY <1>1, <1>2, <1>6 DEF Once, Has
<1> QED
  BY <1>4, <1>5, <1>6

LEMMA AppendsHas ==
    ASSUME NEW s, NEW t, NEW x, Appends(s, t, x), NEW E
    PROVE  /\ Has(t, E) <=> Has(s, E) \/ x \in E
           /\ Once(s, E) /\ ~(Has(s, E) /\ x \in E) => Once(t, E)
<1>1. Len(t) \in DOMAIN t /\ t[Len(t)] = x
  BY DEF Appends
<1>2. ASSUME NEW n \in DOMAIN t, n # Len(t) PROVE n \in DOMAIN s /\ t[n] = s[n]
  BY <1>2 DEF Appends
<1>3. ASSUME NEW n \in DOMAIN s PROVE n \in DOMAIN t /\ t[n] = s[n]
  BY <1>3 DEF Appends
<1>4. Has(t, E) <=> Has(s, E) \/ x \in E
  BY <1>1, <1>2, <1>3 DEF Has
<1>5. ASSUME Once(s, E), ~(Has(s, E) /\ x \in E) PROVE Once(t, E)
  BY <1>1, <1>2, <1>5 DEF Once, Has
<1> QED
  BY <1>4, <1>5

\* t is s and then q.
Extends(s, t, q) ==
    /\ \A n \in DOMAIN s : n \in DOMAIN t /\ t[n] = s[n]
    /\ \A n \in DOMAIN t : n \notin DOMAIN s =>
          \E i \in DOMAIN q : t[n] = q[i] /\ n = Len(s) + i
    /\ \A i \in DOMAIN q : Len(s) + i \in DOMAIN t /\ t[Len(s) + i] = q[i]
    /\ \A n \in DOMAIN s : n \in Nat /\ n <= Len(s)
    /\ \A i \in DOMAIN q : i \in Nat /\ i > 0
    /\ Len(s) \in Nat

LEMMA ConcatExtends ==
    ASSUME NEW S, NEW s \in Seq(S), NEW q \in Seq(S)
    PROVE  s \o q \in Seq(S) /\ Extends(s, s \o q, q)
<1>1. PICK t : t = s \o q
  OBVIOUS
<1>2. /\ t \in Seq(S) /\ Len(s) \in Nat /\ Len(q) \in Nat /\ Len(t) = Len(s) + Len(q)
      /\ DOMAIN s = 1 .. Len(s) /\ DOMAIN q = 1 .. Len(q) /\ DOMAIN t = 1 .. Len(t)
      /\ \A i \in 1 .. Len(s) + Len(q) : t[i] = IF i <= Len(s) THEN s[i] ELSE q[i - Len(s)]
  BY <1>1, ConcatProperties, LenProperties
<1>3. \A n \in DOMAIN s : n \in DOMAIN t /\ t[n] = s[n] /\ n \in Nat /\ n <= Len(s)
  BY <1>2
<1>4. ASSUME NEW n \in DOMAIN t, n \notin DOMAIN s
      PROVE  \E i \in DOMAIN q : t[n] = q[i] /\ n = Len(s) + i
  <2>1. n - Len(s) \in DOMAIN q /\ t[n] = q[n - Len(s)] /\ n = Len(s) + (n - Len(s))
    BY <1>2, <1>4
  <2> QED
    BY <2>1
<1>5. ASSUME NEW i \in DOMAIN q
      PROVE  Len(s) + i \in DOMAIN t /\ t[Len(s) + i] = q[i] /\ i \in Nat /\ i > 0
  <2>1. Len(s) + i \in 1 .. Len(s) + Len(q) /\ ~(Len(s) + i <= Len(s)) /\ (Len(s) + i) - Len(s) = i
    BY <1>2, <1>5
  <2> QED
    BY <1>2, <1>5, <2>1
<1> QED
  BY <1>1, <1>2, <1>3, <1>4, <1>5 DEF Extends

LEMMA ExtendsHas ==
    ASSUME NEW s, NEW t, NEW q, Extends(s, t, q), NEW E
    PROVE  /\ Has(t, E) <=> Has(s, E) \/ Has(q, E)
           /\ Once(s, E) /\ Once(q, E) /\ ~(Has(s, E) /\ Has(q, E)) => Once(t, E)
<1>1. Has(t, E) <=> Has(s, E) \/ Has(q, E)
  BY DEF Extends, Has
<1>2. ASSUME Once(s, E), Once(q, E), ~(Has(s, E) /\ Has(q, E)),
             NEW m \in DOMAIN t, NEW n \in DOMAIN t, t[m] \in E, t[n] \in E
      PROVE  m = n
  <2>1. CASE m \in DOMAIN s /\ n \in DOMAIN s
    BY <1>2, <2>1 DEF Extends, Once
  <2>2. CASE m \notin DOMAIN s /\ n \notin DOMAIN s
    <3>1. PICK i \in DOMAIN q : t[m] = q[i] /\ m = Len(s) + i
      BY <2>2 DEF Extends
    <3>2. PICK j \in DOMAIN q : t[n] = q[j] /\ n = Len(s) + j
      BY <2>2 DEF Extends
    <3>3. i = j
      BY <1>2, <3>1, <3>2 DEF Once
    <3> QED
      BY <3>1, <3>2, <3>3
  <2>3. CASE ~(m \in DOMAIN s <=> n \in DOMAIN s)
    <3>1. Has(s, E) /\ Has(q, E)
      BY <1>2, <2>3 DEF Extends, Has
    <3> QED
      BY <1>2, <3>1
  <2> QED
    BY <2>1, <2>2, <2>3
<1> QED
  BY <1>1, <1>2 DEF Once

\* Which statements answer.
LEMMA TellsWhat ==
    /\ AnswerLines = {"nameTaken", "lobby", "inRoom", "enterFails"}
    /\ \A w : Log(w) \in Tells <=> w \in AnswerLines
    /\ \A s : SetState(s) \notin Tells
    /\ \A f : Write(f) \notin Tells
    /\ SetSession \notin Tells
<1>1. AnswerLines = {"nameTaken", "lobby", "inRoom", "enterFails"}
  BY DEF AnswerLines, Meaning
<1> QED
  BY <1>1, StepFields DEF Tells

\* Different statements.
LEMMA StepsDiffer ==
    /\ \A w, s : Log(w) # SetState(s)
    /\ \A w, f : Log(w) # Write(f)
    /\ \A s, f : SetState(s) # Write(f)
    /\ \A w : Log(w) # SetSession
    /\ \A s : SetState(s) # SetSession
    /\ \A f : Write(f) # SetSession
    /\ \A v, w : Log(v) = Log(w) <=> v = w
    /\ \A r, s : SetState(r) = SetState(s) <=> r = s
    /\ \A f, g : Write(f) = Write(g) <=> f = g
<1>1. \A w : Log(w).do = "log" /\ Log(w).what = w
  BY StepFields
<1>2. \A s : SetState(s).do = "setState" /\ SetState(s).to = s
  BY StepFields
<1>3. \A f : Write(f).do = "write" /\ Write(f).field = f
  BY StepFields
<1>4. SetSession.do = "setSession"
  BY StepFields
<1>5. \A w, s : Log(w) # SetState(s)
  <2> SUFFICES ASSUME NEW w, NEW s, Log(w) = SetState(s) PROVE FALSE
    OBVIOUS
  <2>1. Log(w).do = "log" /\ SetState(s).do = "setState"
    BY <1>1, <1>2
  <2> QED
    BY <2>1
<1>6. \A w, f : Log(w) # Write(f)
  <2> SUFFICES ASSUME NEW w, NEW f, Log(w) = Write(f) PROVE FALSE
    OBVIOUS
  <2>1. Log(w).do = "log" /\ Write(f).do = "write"
    BY <1>1, <1>3
  <2> QED
    BY <2>1
<1>7. \A s, f : SetState(s) # Write(f)
  <2> SUFFICES ASSUME NEW s, NEW f, SetState(s) = Write(f) PROVE FALSE
    OBVIOUS
  <2>1. SetState(s).do = "setState" /\ Write(f).do = "write"
    BY <1>2, <1>3
  <2> QED
    BY <2>1
<1>8. \A w : Log(w) # SetSession
  BY <1>1, <1>4
<1>9. \A s : SetState(s) # SetSession
  BY <1>2, <1>4
<1>10. \A f : Write(f) # SetSession
  BY <1>3, <1>4
<1>11. \A v, w : Log(v) = Log(w) <=> v = w
  BY <1>1
<1>12. \A r, s : SetState(r) = SetState(s) <=> r = s
  BY <1>2
<1>13. \A f, g : Write(f) = Write(g) <=> f = g
  BY <1>3
<1> QED
  BY <1>5, <1>6, <1>7, <1>8, <1>9, <1>10, <1>11, <1>12, <1>13

LEMMA InitQuestion == Init => QuestionInv
<1> SUFFICES ASSUME Init PROVE QuestionInv
  OBVIOUS
<1>1. /\ state = "Connecting" /\ c2s = <<>> /\ s2c = <<"prompt">> /\ todo = <<>> /\ logQ = <<>>
      /\ keyboard = <<>> /\ ui = "pump" /\ line.text = "blank" /\ seen = "Connecting" /\ ~asked
  BY NoLineFields DEF Init
<1>2. /\ DOMAIN c2s = {} /\ DOMAIN todo = {} /\ DOMAIN logQ = {} /\ DOMAIN keyboard = {}
      /\ DOMAIN s2c = {1} /\ s2c[1] = "prompt"
  BY <1>1
<1>3. ~Past /\ ~InC2s /\ ~InS2c /\ ~InTodo /\ ~InLog
  BY <1>2 DEF Past, InC2s, InS2c, InTodo, InLog, Has, AnswerPackets
<1>4. OneQuestion
  BY <1>2, <1>3 DEF OneQuestion, Once
<1>5. AskedState
  BY <1>1, <1>2 DEF AskedState
<1>6. HandlerState /\ LogState
  BY <1>2 DEF HandlerState, LogState
<1>7. LineInv
  <2>1. ~Asks(line) /\ ~Leads(line)
    BY <1>1 DEF Asks, Leads, CommandIn, Questions
  <2> QED
    BY <1>1, <1>2, <2>1 DEF LineInv, Typed
<1> QED
  BY <1>4, <1>5, <1>6, <1>7 DEF QuestionInv

\* Steps that the interface thread and the user have no part in.
LEMMA LinesLeft ==
    ASSUME LineInv, UNCHANGED <<state, ui, line, command, keyboard, seen, asked>>, Past' <=> Past
    PROVE  LineInv'
<1>1. \A l, n : Typed(l, n) => Typed(l, n)'
  BY DEF Typed, Fits, Leads, Asks, CommandIn
<1>2. Typed(line, 0)' /\ \A n \in DOMAIN keyboard' : Typed(keyboard[n], n)'
  BY <1>1 DEF LineInv
<1>3. ~Past' => seen' = "Connecting" \/ Fits(seen)'
  BY DEF LineInv, Fits
<1>4. /\ seen' = "Connecting" => ~asked'
      /\ ui' \in {"acquire", "send", "leave"} => command' = CommandIn(state', line'.text)
      /\ ui' = "leave" => command' = "leaveRoom"
  BY DEF LineInv
<1> QED
  BY <1>2, <1>3, <1>4 DEF LineInv, Typed

LEMMA ReceiveQuestion ==
    ASSUME KeptInv, QuestionInv, Receive
    PROVE  QuestionInv' /\ (Calm' => Calm /\ (Past' <=> Past))
<1> SUFFICES ASSUME Calm'
             PROVE  /\ Calm /\ (Past' <=> Past)
                    /\ OneQuestion' /\ AskedState' /\ HandlerState' /\ LogState' /\ LineInv'
  BY DEF QuestionInv
<1>1. /\ todo = <<>> /\ s2c # <<>> /\ todo' = Handler(Head(s2c)) /\ s2c' = Tail(s2c)
      /\ UNCHANGED <<state, session, logQ, ui, line, command, link, c2s, keyboard, fate>>
      /\ UNCHANGED <<seen, asked, typed, hasty, burst>>
  BY DEF Receive, interface, user
<1>2. Calm /\ OneQuestion /\ AskedState /\ HandlerState /\ LogState /\ LineInv
  BY <1>1 DEF Calm, QuestionInv
<1>3. PICK p : p = s2c[1]
  OBVIOUS
<1>4. Head(s2c) = p /\ p \in Packets /\ 1 \in DOMAIN s2c /\ Drops(s2c, s2c')
  BY <1>1, <1>3, HeadDrops DEF KeptInv, TypeInv, WorkerTypes
<1>5. PICK h : h = Handler(p)
  OBVIOUS
<1>6. /\ p = "prompt" => Prompts(h)
      /\ p = "nameTaken" => Refuses(h)
      /\ p = "nameFree" => Names(h)
      /\ p = "enterOk" => Enters(h)
      /\ p = "enterFails" => Says(h, "enterFails")
      /\ p \notin {"prompt", "nameTaken", "nameFree", "enterOk", "enterFails"} => Says(h, "other")
  BY <1>4, <1>5, Handlers
<1>7. todo' = h
  BY <1>1, <1>4, <1>5
<1>8. Once(h, Tells) /\ (Has(h, Tells) <=> p \in AnswerPackets)
  <2>1. CASE p = "prompt"
    <3>1. \A n \in DOMAIN h : h[n] \notin Tells
      BY <1>6, <2>1, TellsWhat DEF Prompts
    <3> QED
      BY <2>1, <3>1 DEF Once, Has, AnswerPackets
  <2>2. CASE p = "nameTaken"
    <3>1. 1 \in DOMAIN h /\ h[1] \in Tells /\ \A n \in DOMAIN h : h[n] \in Tells => n = 1
      BY <1>6, <2>2, TellsWhat DEF Refuses
    <3> QED
      BY <2>2, <3>1 DEF Once, Has, AnswerPackets
  <2>3. CASE p = "nameFree"
    <3>1. 5 \in DOMAIN h /\ h[5] \in Tells /\ \A n \in DOMAIN h : h[n] \in Tells => n = 5
      BY <1>6, <2>3, TellsWhat DEF Names
    <3> QED
      BY <2>3, <3>1 DEF Once, Has, AnswerPackets
  <2>4. CASE p = "enterOk"
    <3>1. 4 \in DOMAIN h /\ h[4] \in Tells /\ \A n \in DOMAIN h : h[n] \in Tells => n = 4
      BY <1>6, <2>4, TellsWhat DEF Enters
    <3> QED
      BY <2>4, <3>1 DEF Once, Has, AnswerPackets
  <2>5. CASE p = "enterFails"
    <3>1. 1 \in DOMAIN h /\ h[1] \in Tells /\ \A n \in DOMAIN h : n = 1
      BY <1>6, <2>5, TellsWhat DEF Says
    <3> QED
      BY <2>5, <3>1 DEF Once, Has, AnswerPackets
  <2>6. CASE p \notin {"prompt", "nameTaken", "nameFree", "enterOk", "enterFails"}
    <3>1. \A n \in DOMAIN h : h[n] \notin Tells
      BY <1>6, <2>6, TellsWhat DEF Says
    <3> QED
      BY <2>6, <3>1 DEF Once, Has, AnswerPackets
  <2> QED
    BY <2>1, <2>2, <2>3, <2>4, <2>5, <2>6
<1>9. /\ ~InTodo /\ (InTodo' <=> p \in AnswerPackets) /\ (InC2s' <=> InC2s) /\ (InLog' <=> InLog)
      /\ (InS2c <=> p \in AnswerPackets \/ InS2c') /\ (p \in AnswerPackets => ~InS2c')
      /\ Once(s2c', AnswerPackets)
  <2>1. ~InTodo
    BY <1>1 DEF InTodo, Has
  <2>2. InTodo' <=> p \in AnswerPackets
    BY <1>7, <1>8 DEF InTodo
  <2>3. (InC2s' <=> InC2s) /\ (InLog' <=> InLog)
    BY <1>1 DEF InC2s, InLog
  <2>4. Has(s2c, AnswerPackets) <=> s2c[1] \in AnswerPackets \/ Has(s2c', AnswerPackets)
    BY <1>4, DropsHas
  <2>5. Once(s2c, AnswerPackets) => Once(s2c', AnswerPackets)
                                   /\ (s2c[1] \in AnswerPackets => ~Has(s2c', AnswerPackets))
    BY <1>4, DropsHas
  <2> QED
    BY <1>2, <1>3, <2>1, <2>2, <2>3, <2>4, <2>5 DEF InS2c, OneQuestion
<1>10. Past' <=> Past
  BY <1>9 DEF Past
<1>11. OneQuestion'
  <2>1. Past' => asked' /\ Quiet'
    BY <1>1, <1>2, <1>10 DEF OneQuestion, Quiet
  <2>2. Once(c2s', Questions) /\ Once(todo', Tells)
    BY <1>1, <1>2, <1>7, <1>8 DEF OneQuestion
  <2> QED
    BY <1>2, <1>9, <2>1, <2>2 DEF OneQuestion
<1>12. AskedState'
  <2>1. ASSUME NEW n \in DOMAIN s2c'
        PROVE  /\ s2c'[n] \in {"nameTaken", "nameFree"} => state' = "WaitingNickname"
               /\ s2c'[n] \in {"enterOk", "enterFails"} => state' = "Lobby"
               /\ s2c'[n] = "prompt" =>
                     /\ state' \in {"Connecting", "WaitingNickname"}
                     /\ \A m \in DOMAIN s2c' : s2c'[m] = "nameFree" => n < m
                     /\ \A m \in DOMAIN todo' : todo'[m] # Log("lobby")
    <3>1. n + 1 \in DOMAIN s2c /\ s2c'[n] = s2c[n + 1] /\ n \in Nat /\ n > 0
      BY <1>4, <2>1 DEF Drops
    <3>2. ASSUME s2c'[n] = "prompt", NEW m \in DOMAIN s2c', s2c'[m] = "nameFree"
          PROVE  n < m
      <4>1. m + 1 \in DOMAIN s2c /\ s2c'[m] = s2c[m + 1] /\ m \in Nat
        BY <1>4, <3>2 DEF Drops
      <4>2. n + 1 < m + 1
        BY <1>2, <3>1, <3>2, <4>1 DEF AskedState
      <4> QED
        BY <3>1, <4>1, <4>2
    <3>3. ASSUME s2c'[n] = "prompt", NEW m \in DOMAIN h, h[m] = Log("lobby")
          PROVE  FALSE
      <4>1. p = "nameFree"
        BY <1>6, <3>3, StepsDiffer DEF Prompts, Refuses, Enters, Says
      <4>2. n + 1 < 1
        BY <1>2, <1>3, <1>4, <3>1, <3>3, <4>1 DEF AskedState
      <4> QED
        BY <3>1, <4>2
    <3> QED
      BY <1>1, <1>2, <1>7, <3>1, <3>2, <3>3 DEF AskedState
  <2>2. \A n \in DOMAIN c2s' :
           /\ c2s'[n] = "setNickname" => state' = "WaitingNickname"
           /\ c2s'[n] = "joinRoom" => state' = "Lobby"
    BY <1>1, <1>2 DEF AskedState
  <2> QED
    BY <2>1, <2>2 DEF AskedState
<1>13. HandlerState'
  <2>1. /\ p = "prompt" => state \in {"Connecting", "WaitingNickname"}
        /\ p \in {"nameTaken", "nameFree"} => state = "WaitingNickname"
        /\ p \in {"enterOk", "enterFails"} => state = "Lobby"
    BY <1>2, <1>3, <1>4 DEF AskedState
  <2>2. CASE p = "prompt"
    <3>1. \A n \in DOMAIN h : StepState(n)'
      BY <1>1, <1>6, <1>7, <2>1, <2>2, StepsDiffer DEF Prompts, StepState
    <3> QED
      BY <1>7, <3>1 DEF HandlerState
  <2>3. CASE p = "nameTaken"
    <3>1. \A n \in DOMAIN h : StepState(n)'
      BY <1>1, <1>6, <1>7, <2>1, <2>3, StepsDiffer DEF Refuses, StepState
    <3> QED
      BY <1>7, <3>1 DEF HandlerState
  <2>4. CASE p = "nameFree"
    <3>1. \A n \in DOMAIN h : StepState(n)'
      BY <1>1, <1>6, <1>7, <2>1, <2>4, StepsDiffer DEF Names, StepState
    <3> QED
      BY <1>7, <3>1 DEF HandlerState
  <2>5. CASE p = "enterOk"
    <3>1. \A n \in DOMAIN h : StepState(n)'
      BY <1>1, <1>6, <1>7, <2>1, <2>5, StepsDiffer DEF Enters, StepState
    <3> QED
      BY <1>7, <3>1 DEF HandlerState
  <2>6. CASE p = "enterFails"
    <3>1. \A n \in DOMAIN h : StepState(n)'
      BY <1>1, <1>6, <1>7, <2>1, <2>6, StepsDiffer DEF Says, StepState
    <3> QED
      BY <1>7, <3>1 DEF HandlerState
  <2>7. CASE p \notin {"prompt", "nameTaken", "nameFree", "enterOk", "enterFails"}
    <3>1. \A n \in DOMAIN h : StepState(n)'
      BY <1>1, <1>6, <1>7, <2>7, StepsDiffer DEF Says, StepState
    <3> QED
      BY <1>7, <3>1 DEF HandlerState
  <2> QED
    BY <2>2, <2>3, <2>4, <2>5, <2>6, <2>7
<1>14. LogState'
  <2>1. DOMAIN todo = {}
    BY <1>1
  <2> QED
    BY <1>1, <1>2, <2>1 DEF LogState
<1>15. LineInv'
  BY <1>1, <1>2, <1>10, LinesLeft
<1> QED
  BY <1>2, <1>10, <1>11, <1>12, <1>13, <1>14, <1>15

\* Only on the first prompt and while an answer is handled does the state change.
LEMMA ExecuteQuestion ==
    ASSUME KeptInv, QuestionInv, Execute
    PROVE  /\ QuestionInv'
           /\ Calm' => /\ Calm /\ (Past' <=> Past)
                       /\ state' = state \/ (state = "Connecting" /\ ui \notin Handling) \/ Past
<1> SUFFICES ASSUME Calm'
             PROVE  /\ Calm /\ (Past' <=> Past)
                    /\ state' = state \/ (state = "Connecting" /\ ui \notin Handling) \/ Past
                    /\ OneQuestion' /\ AskedState' /\ HandlerState' /\ LogState' /\ LineInv'
  BY DEF QuestionInv
<1>1. PICK step : step = Head(todo)
  OBVIOUS
<1>2. /\ todo # <<>> /\ todo' = Tail(todo)
      /\ state' = IF step.do = "setState" THEN step.to ELSE state
      /\ logQ' = IF step.do = "log" THEN Append(logQ, step.what) ELSE logQ
      /\ UNCHANGED <<ui, line, command, link, c2s, s2c, keyboard, fate>>
      /\ UNCHANGED <<seen, asked, typed, hasty, burst>>
  BY <1>1 DEF Execute, interface, network, user
<1>3. Calm /\ OneQuestion /\ AskedState /\ HandlerState /\ LogState /\ LineInv
  BY <1>2 DEF Calm, QuestionInv
<1>4. step \in Steps /\ step = todo[1] /\ 1 \in DOMAIN todo /\ Drops(todo, todo')
  BY <1>1, <1>2, HeadDrops DEF KeptInv, TypeInv, WorkerTypes
<1>5. StepState(1)
  BY <1>3, <1>4 DEF HandlerState
<1>6. /\ \A m \in DOMAIN todo' : m \in Nat /\ m > 0 /\ m + 1 \in DOMAIN todo /\ todo'[m] = todo[m + 1]
      /\ \A n \in DOMAIN todo : n # 1 => n \in Nat /\ n - 1 \in DOMAIN todo' /\ todo'[n - 1] = todo[n]
      /\ \A n \in DOMAIN todo : n \in Nat /\ n > 0
  BY <1>4 DEF Drops
<1>7. /\ InTodo <=> step \in Tells \/ InTodo'
      /\ Once(todo', Tells) /\ (step \in Tells => ~InTodo')
  <2>1. Has(todo, Tells) <=> todo[1] \in Tells \/ Has(todo', Tells)
    BY <1>4, DropsHas
  <2>2. Once(todo, Tells) => Once(todo', Tells) /\ (todo[1] \in Tells => ~Has(todo', Tells))
    BY <1>4, DropsHas
  <2> QED
    BY <1>3, <1>4, <2>1, <2>2 DEF InTodo, OneQuestion
<1>8. CASE \E w \in Whats : step = Log(w)
  <2>1. PICK w \in Whats : step = Log(w)
    BY <1>8
  <2>2. state' = state /\ logQ' = Append(logQ, w)
    BY <1>2, <2>1, StepFields
  <2>3. Appends(logQ, logQ', w)
    BY <2>2, LastAppends DEF KeptInv, TypeInv, WorkerTypes
  <2>4. InLog' <=> InLog \/ w \in AnswerLines
    BY <2>3, AppendsHas DEF InLog
  <2>5. step \in Tells <=> w \in AnswerLines
    BY <2>1, TellsWhat
  <2>6. (InC2s' <=> InC2s) /\ (InS2c' <=> InS2c)
    BY <1>2 DEF InC2s, InS2c
  <2>7. Past' <=> Past
    BY <1>7, <2>4, <2>5, <2>6 DEF Past
  <2>8. OneQuestion'
    <3>1. Past' => asked' /\ Quiet'
      BY <1>2, <1>3, <2>7 DEF OneQuestion, Quiet
    <3>2. Once(c2s', Questions) /\ Once(s2c', AnswerPackets)
      BY <1>2, <1>3 DEF OneQuestion
    <3>3. InC2s' => ~InS2c' /\ ~InTodo' /\ ~InLog'
      BY <1>3, <1>7, <2>4, <2>5, <2>6 DEF OneQuestion
    <3>4. InS2c' => ~InTodo' /\ ~InLog'
      BY <1>3, <1>7, <2>4, <2>5, <2>6 DEF OneQuestion
    <3>5. InTodo' => ~InLog'
      BY <1>3, <1>7, <2>4, <2>5 DEF OneQuestion
    <3> QED
      BY <1>7, <3>1, <3>2, <3>3, <3>4, <3>5 DEF OneQuestion
  <2>9. AskedState'
    BY <1>2, <1>3, <1>6, <2>2 DEF AskedState
  <2>10. ASSUME NEW n \in DOMAIN todo' PROVE StepState(n)'
    <3>1. StepState(n + 1) /\ todo'[n] = todo[n + 1] /\ n \in Nat /\ n > 0
      BY <1>3, <1>6, <2>10 DEF HandlerState
    <3>2. todo[1] = Log(w) /\ \A s : todo[1] # SetState(s)
      BY <1>4, <2>1, StepsDiffer
    <3>3. ASSUME NEW s, \E m \in DOMAIN todo : m < n + 1 /\ todo[m] = SetState(s)
          PROVE  \E m \in DOMAIN todo' : m < n /\ todo'[m] = SetState(s)
      <4>1. PICK m \in DOMAIN todo : m < n + 1 /\ todo[m] = SetState(s)
        BY <3>3
      <4>2. m # 1 /\ m - 1 \in DOMAIN todo' /\ todo'[m - 1] = SetState(s) /\ m - 1 < n
        BY <1>6, <3>1, <3>2, <4>1
      <4> QED
        BY <4>2
    <3>4. ASSUME NEW v, \E m \in DOMAIN todo : m > n + 1 /\ todo[m] = Log(v)
          PROVE  \E m \in DOMAIN todo' : m > n /\ todo'[m] = Log(v)
      <4>1. PICK m \in DOMAIN todo : m > n + 1 /\ todo[m] = Log(v)
        BY <3>4
      <4>2. m # 1 /\ m - 1 \in DOMAIN todo' /\ todo'[m - 1] = Log(v) /\ m - 1 > n
        BY <1>6, <3>1, <4>1
      <4> QED
        BY <4>2
    <3>5. \A m \in DOMAIN todo' : m + 1 \in DOMAIN todo /\ todo'[m] = todo[m + 1]
      BY <1>6
    <3> QED
      BY <2>2, <3>1, <3>3, <3>4, <3>5 DEF StepState
  <2>11. HandlerState'
    BY <2>10 DEF HandlerState
  <2>12. ASSUME NEW n \in DOMAIN logQ'
         PROVE  /\ logQ'[n] \in AnswerLines => state' = Meaning[logQ'[n]]
                /\ logQ'[n] = "prompt" =>
                      \/ state' = "WaitingNickname"
                      \/ \E m \in DOMAIN logQ' : m > n /\ logQ'[m] = "lobby"
                      \/ \E m \in DOMAIN todo' : todo'[m] = Log("lobby")
    <3>1. \A m \in DOMAIN todo : m # 1 => ~(m < 1)
      BY <1>6
    <3>2. CASE n \in DOMAIN logQ
      <4>1. logQ'[n] = logQ[n] /\ \A m \in DOMAIN logQ : m \in DOMAIN logQ' /\ logQ'[m] = logQ[m]
        BY <2>3, <3>2 DEF Appends
      <4>2. logQ[n] \in AnswerLines => state' = Meaning[logQ'[n]]
        BY <1>3, <2>2, <3>2, <4>1 DEF LogState
      <4>3. ASSUME NEW m \in DOMAIN todo, todo[m] = Log("lobby")
            PROVE  \/ \E i \in DOMAIN logQ' : i > n /\ logQ'[i] = "lobby"
                   \/ \E i \in DOMAIN todo' : todo'[i] = Log("lobby")
        <5>1. CASE m = 1
          <6>1. w = "lobby"
            BY <1>4, <2>1, <4>3, <5>1, StepsDiffer
          <6>2. Len(logQ') \in DOMAIN logQ' /\ Len(logQ') > n /\ logQ'[Len(logQ')] = w
            BY <2>3, <3>2 DEF Appends
          <6> QED
            BY <6>1, <6>2
        <5>2. CASE m # 1
          BY <1>6, <4>3, <5>2
        <5> QED
          BY <5>1, <5>2
      <4> QED
        BY <1>3, <2>2, <3>2, <4>1, <4>2, <4>3 DEF LogState
    <3>3. CASE n \notin DOMAIN logQ
      <4>1. logQ'[n] = w
        BY <2>3, <2>12, <3>3 DEF Appends
      <4>2. \A m \in DOMAIN todo : ~(m < 1)
        BY <1>6
      <4>3. w = "prompt" => state = "WaitingNickname"
        BY <1>4, <1>5, <2>1, <4>2 DEF StepState
      <4>4. /\ w = "nameTaken" => state = "WaitingNickname"
            /\ w = "enterFails" => state = "Lobby"
            /\ w = "lobby" => state = "Lobby"
            /\ w = "inRoom" => state = "InRoom"
        BY <1>4, <1>5, <2>1, <4>2 DEF StepState
      <4>5. w \in AnswerLines => state = Meaning[w]
        BY <4>4, TellsWhat DEF Meaning
      <4> QED
        BY <2>2, <4>1, <4>3, <4>5
    <3> QED
      BY <3>2, <3>3
  <2>13. LogState'
    BY <2>12 DEF LogState
  <2>14. LineInv'
    BY <1>2, <1>3, <2>2, <2>7, LinesLeft
  <2> QED
    BY <1>3, <2>2, <2>7, <2>8, <2>9, <2>11, <2>13, <2>14
<1>9. CASE \/ \E f \in {"myId", "nickname", "currentRoomId"} : step = Write(f)
           \/ step = SetSession
           \/ \E s \in States : step = SetState(s)
  <2>1. step.do # "log" /\ logQ' = logQ /\ step \notin Tells
    BY <1>2, <1>9, StepFields, TellsWhat
  <2>2. (InTodo' <=> InTodo) /\ (InLog' <=> InLog) /\ (InC2s' <=> InC2s) /\ (InS2c' <=> InS2c)
    BY <1>2, <1>7, <2>1 DEF InC2s, InS2c, InLog
  <2>3. Past' <=> Past
    BY <2>2 DEF Past
  <2>4. OneQuestion'
    <3>1. Past' => asked' /\ Quiet'
      BY <1>2, <1>3, <2>3 DEF OneQuestion, Quiet
    <3>2. Once(c2s', Questions) /\ Once(s2c', AnswerPackets)
      BY <1>2, <1>3 DEF OneQuestion
    <3> QED
      BY <1>3, <1>7, <2>2, <3>1, <3>2 DEF OneQuestion
  <2>5. \A v : todo[1] # Log(v)
    BY <1>4, <1>9, StepsDiffer
  <2>6. ASSUME NEW v, NEW n \in Nat, \E m \in DOMAIN todo : m > n + 1 /\ todo[m] = Log(v)
        PROVE  \E m \in DOMAIN todo' : m > n /\ todo'[m] = Log(v)
    <3>1. PICK m \in DOMAIN todo : m > n + 1 /\ todo[m] = Log(v)
      BY <2>6
    <3>2. m # 1 /\ m - 1 \in DOMAIN todo' /\ todo'[m - 1] = Log(v) /\ m - 1 > n
      BY <1>6, <3>1
    <3> QED
      BY <3>2
  <2>7. ASSUME NEW v, \E m \in DOMAIN todo : todo[m] = Log(v)
        PROVE  \E m \in DOMAIN todo' : todo'[m] = Log(v)
    BY <1>6, <2>5, <2>7
  <2>8. CASE state' = state /\ \A s : step # SetState(s)
    <3>1. AskedState'
      BY <1>2, <1>3, <1>6, <2>8 DEF AskedState
    <3>2. ASSUME NEW n \in DOMAIN todo' PROVE StepState(n)'
      <4>1. StepState(n + 1) /\ todo'[n] = todo[n + 1] /\ n \in Nat /\ n > 0
        BY <1>3, <1>6, <3>2 DEF HandlerState
      <4>2. ASSUME NEW s, \E m \in DOMAIN todo : m < n + 1 /\ todo[m] = SetState(s)
            PROVE  \E m \in DOMAIN todo' : m < n /\ todo'[m] = SetState(s)
        <5>1. PICK m \in DOMAIN todo : m < n + 1 /\ todo[m] = SetState(s)
          BY <4>2
        <5>2. m # 1
          BY <1>4, <2>8, <5>1
        <5>3. m - 1 \in DOMAIN todo' /\ todo'[m - 1] = SetState(s) /\ m - 1 < n
          BY <1>6, <4>1, <5>1, <5>2
        <5> QED
          BY <5>3
      <4>3. \A m \in DOMAIN todo' : m + 1 \in DOMAIN todo /\ todo'[m] = todo[m + 1]
        BY <1>6
      <4> QED
        BY <2>6, <2>8, <4>1, <4>2, <4>3 DEF StepState
    <3>3. HandlerState'
      BY <3>2 DEF HandlerState
    <3>4. LogState'
      BY <1>3, <2>1, <2>7, <2>8 DEF LogState
    <3>5. LineInv'
      BY <1>2, <1>3, <2>3, <2>8, LinesLeft
    <3> QED
      BY <1>3, <2>3, <2>4, <2>8, <3>1, <3>3, <3>4, <3>5
  <2>9. CASE step = SetState("WaitingNickname")
    <3>1. /\ state' = "WaitingNickname" /\ state \in {"Connecting", "WaitingNickname"}
          /\ \A m \in DOMAIN todo : todo[m] \notin {Log("lobby"), Log("inRoom"), Log("enterFails")}
      BY <1>2, <1>4, <1>5, <2>9, StepFields DEF StepState
    <3>2. \A m \in DOMAIN todo' : m + 1 \in DOMAIN todo /\ todo'[m] = todo[m + 1] /\ m \in Nat
      BY <1>6
    <3>3. AskedState'
      BY <1>2, <1>3, <3>1, <3>2 DEF AskedState
    <3>4. ASSUME NEW n \in DOMAIN todo' PROVE StepState(n)'
      <4>1. StepState(n + 1) /\ todo'[n] = todo[n + 1] /\ n \in Nat
        BY <1>3, <3>2, <3>4 DEF HandlerState
      <4> QED
        BY <2>6, <3>1, <3>2, <4>1 DEF StepState
    <3>5. HandlerState'
      BY <3>4 DEF HandlerState
    <3>6. LogState'
      <4>1. ASSUME NEW n \in DOMAIN logQ, logQ[n] \in AnswerLines PROVE Meaning[logQ[n]] = "WaitingNickname"
        <5>1. state = Meaning[logQ[n]]
          BY <1>3, <4>1 DEF LogState
        <5>2. Meaning[logQ[n]] # "Connecting"
          BY <4>1, TellsWhat DEF Meaning
        <5> QED
          BY <3>1, <5>1, <5>2
      <4> QED
        BY <2>1, <3>1, <4>1 DEF LogState
    <3>7. CASE state = "WaitingNickname"
      <4>1. LineInv'
        BY <1>2, <1>3, <2>3, <3>1, <3>7, LinesLeft
      <4> QED
        BY <1>3, <2>3, <2>4, <3>1, <3>3, <3>5, <3>6, <3>7, <4>1
    <3>8. CASE state = "Connecting"
      <4>1. \A s : Fits(s) => s = "Connecting"
        BY <3>8 DEF Fits
      <4>2. line.text = "blank" /\ \A n \in DOMAIN keyboard : keyboard[n].text = "blank"
        BY <1>3, <4>1 DEF LineInv, Typed
      <4>3. \A s : CommandIn(s, "blank") = "none"
        BY DEF CommandIn
      <4>4. ~Leads(line) /\ \A n \in DOMAIN keyboard : ~Leads(keyboard[n])
        BY <4>2 DEF Leads
      <4>5. Typed(line, 0)' /\ \A n \in DOMAIN keyboard' : Typed(keyboard[n], n)'
        BY <1>2, <1>3, <4>2, <4>3, <4>4 DEF LineInv, Typed, Leads, Asks, Questions
      <4>6. ui \notin Handling
        BY <4>2 DEF KeptInv, TypeInv, ThreadInv
      <4>7. ~Past' => seen' = "Connecting" \/ Fits(seen)'
        BY <1>2, <1>3, <2>3, <4>1 DEF LineInv
      <4>8. LineInv'
        BY <1>2, <1>3, <4>5, <4>6, <4>7 DEF LineInv, Handling
      <4> QED
        BY <1>3, <2>3, <2>4, <3>3, <3>5, <3>6, <3>8, <4>6, <4>8
    <3> QED
      BY <3>1, <3>7, <3>8
  <2>10. CASE step \in {SetState("Lobby"), SetState("InRoom")}
    <3>1. PICK w : w = IF step = SetState("Lobby") THEN "lobby" ELSE "inRoom"
      OBVIOUS
    <3>2. PICK k \in DOMAIN todo : k > 1 /\ todo[k] = Log(w)
      BY <1>4, <1>5, <2>10, <3>1 DEF StepState
    <3>3. Log(w) \in Tells /\ w \in {"lobby", "inRoom"}
      BY <3>1, TellsWhat
    <3>4. InTodo /\ Past /\ Quiet /\ asked /\ ~InC2s /\ ~InS2c /\ ~InLog
      BY <1>3, <3>2, <3>3 DEF InTodo, Has, Past, OneQuestion
    <3>5. \A m \in DOMAIN todo, v \in AnswerLines : todo[m] = Log(v) => v = w
      <4>1. ASSUME NEW m \in DOMAIN todo, NEW v \in AnswerLines, todo[m] = Log(v)
            PROVE  v = w
        <5>1. todo[m] \in Tells
          BY <4>1, TellsWhat
        <5>2. m = k
          BY <1>3, <3>2, <3>3, <5>1 DEF OneQuestion, Once
        <5> QED
          BY <3>2, <4>1, <5>2, StepsDiffer
      <4> QED
        BY <4>1
    <3>6. /\ state' = IF w = "lobby" THEN "Lobby" ELSE "InRoom"
          /\ w = "lobby" => state \in {"Lobby", "WaitingNickname"}
          /\ w = "inRoom" => state \in {"Lobby", "InRoom"}
      <4>1. StepState(k)
        BY <1>3, <3>2 DEF HandlerState
      <4> QED
        BY <1>2, <2>10, <3>1, <3>2, <4>1, StepFields, StepsDiffer DEF StepState
    <3>7. \A m \in DOMAIN todo' : m + 1 \in DOMAIN todo /\ todo'[m] = todo[m + 1] /\ m \in Nat
      BY <1>6
    <3>8. AskedState'
      <4>1. \A n \in DOMAIN s2c : s2c[n] # "prompt"
        BY <1>3, <3>2, <3>3, <3>6 DEF AskedState
      <4>2. \A n \in DOMAIN s2c : s2c[n] \notin AnswerPackets
        BY <3>4 DEF InS2c, Has
      <4>3. \A n \in DOMAIN c2s : c2s[n] \notin Questions
        BY <3>4 DEF InC2s, Has
      <4> QED
        BY <1>2, <4>1, <4>2, <4>3 DEF AskedState, AnswerPackets, Questions
    <3>9. ASSUME NEW n \in DOMAIN todo' PROVE StepState(n)'
      <4>1. StepState(n + 1) /\ todo'[n] = todo[n + 1] /\ n \in Nat
        BY <1>3, <3>7, <3>9 DEF HandlerState
      <4>2. todo'[n] \notin {SetState("WaitingNickname"), Log("prompt"), SetSession}
        BY <3>2, <3>3, <4>1 DEF StepState
      <4>3. \A v \in AnswerLines : todo'[n] = Log(v) => v = w
        BY <3>5, <3>7, <3>9
      <4>4. /\ todo'[n] # Log("nameTaken") /\ todo'[n] # Log("enterFails")
            /\ todo'[n] = Log("lobby") => state' = "Lobby"
            /\ todo'[n] = Log("inRoom") => state' = "InRoom"
        BY <3>3, <3>6, <4>3, TellsWhat
      <4> QED
        BY <2>6, <4>1, <4>2, <4>4 DEF StepState
    <3>10. HandlerState'
      BY <3>9 DEF HandlerState
    <3>11. LogState'
      <4>1. \A n \in DOMAIN logQ : logQ[n] \notin AnswerLines
        BY <3>4 DEF InLog, Has
      <4>2. ASSUME NEW n \in DOMAIN logQ, logQ[n] = "prompt"
            PROVE  \E m \in DOMAIN todo' : todo'[m] = Log("lobby")
        <5>1. \A m \in DOMAIN logQ : logQ[m] # "lobby"
          BY <4>1, TellsWhat
        <5>2. state = "WaitingNickname" => w = "lobby"
          BY <3>3, <3>6
        <5>3. \E m \in DOMAIN todo : todo[m] = Log("lobby")
          BY <1>3, <3>2, <4>2, <5>1, <5>2 DEF LogState
        <5> QED
          BY <2>7, <5>3
      <4> QED
        BY <2>1, <4>1, <4>2 DEF LogState
    <3>12. LineInv'
      <4>1. \A s : CommandIn(s, "blank") = "none"
        BY DEF CommandIn
      <4>2. line.text = "blank" /\ \A n \in DOMAIN keyboard : keyboard[n].text = "blank"
        BY <3>4 DEF Quiet
      <4>3. Typed(line, 0)' /\ \A n \in DOMAIN keyboard' : Typed(keyboard[n], n)'
        BY <1>2, <4>1, <4>2 DEF Typed, Leads, Asks, Questions
      <4> QED
        BY <1>2, <1>3, <2>3, <3>4, <4>3 DEF LineInv, Quiet
    <3> QED
      BY <1>3, <2>3, <2>4, <3>4, <3>8, <3>10, <3>11, <3>12
  <2>11. step # SetState("Connecting")
    BY <1>4, <1>5 DEF StepState
  <2>12. CASE \A s : step # SetState(s)
    <3>1. step.do # "setState"
      BY <1>9, <2>12, StepFields
    <3> QED
      BY <1>2, <2>8, <2>12, <3>1
  <2>13. CASE \E s \in States : step = SetState(s)
    BY <2>9, <2>10, <2>11, <2>13 DEF States
  <2> QED
    BY <1>9, <2>12, <2>13, StepsDiffer
<1> QED
  BY <1>4, <1>8, <1>9, StepFields

LEMMA ServeQuestion ==
    ASSUME KeptInv, QuestionInv, Serve
    PROVE  QuestionInv' /\ (Calm' => Calm /\ (Past' <=> Past))
<1> SUFFICES ASSUME Calm'
             PROVE  /\ Calm /\ (Past' <=> Past)
                    /\ OneQuestion' /\ AskedState' /\ HandlerState' /\ LogState' /\ LineInv'
  BY DEF QuestionInv
<1>1. PICK p : p = c2s[1]
  OBVIOUS
<1>2. c2s # <<>> /\ Head(c2s) = p /\ p \in Commands /\ 1 \in DOMAIN c2s /\ Drops(c2s, Tail(c2s))
  BY <1>1, HeadDrops DEF Serve, KeptInv, TypeInv, WorkerTypes
<1>3. PICK q \in Answers(p) : s2c' = s2c \o q
  BY <1>2 DEF Serve
<1>4. /\ c2s' = Tail(c2s)
      /\ UNCHANGED <<state, session, todo, logQ, ui, line, command, link, keyboard, fate>>
      /\ UNCHANGED <<seen, asked, typed, hasty, burst>>
  BY DEF Serve, interface, user
<1>5. Calm /\ OneQuestion /\ AskedState /\ HandlerState /\ LogState /\ LineInv
  BY <1>4 DEF Calm, QuestionInv
<1>6. /\ q \in Seq(Packets)
      /\ \/ Len(q) = 1 /\ DOMAIN q = {1}
         \/ Len(q) = 2 /\ DOMAIN q = {1, 2}
      /\ p = "setNickname" =>
            \/ q[1] = "nameFree" /\ Len(q) = 1
            \/ q[1] = "nameTaken" /\ Len(q) = 2 /\ q[2] = "prompt"
      /\ p = "joinRoom" =>
            \/ q[1] = "roomEvent" /\ Len(q) = 2 /\ q[2] = "enterOk"
            \/ q[1] = "enterFails" /\ Len(q) = 1
      /\ p \notin Questions => Len(q) = 1 /\ q[1] \notin AnswerPackets \cup {"prompt"}
  BY <1>2, AnswersOf
<1>7. Extends(s2c, s2c', q)
  BY <1>3, <1>6, ConcatExtends DEF KeptInv, TypeInv, WorkerTypes
<1>8. Drops(c2s, c2s')
  BY <1>2, <1>4
<1>9. Once(q, AnswerPackets) /\ (Has(q, AnswerPackets) <=> p \in Questions)
  <2>1. CASE p = "setNickname"
    <3>1. 1 \in DOMAIN q /\ q[1] \in AnswerPackets /\ \A n \in DOMAIN q : q[n] \in AnswerPackets => n = 1
      BY <1>6, <2>1 DEF AnswerPackets
    <3> QED
      BY <2>1, <3>1 DEF Once, Has, Questions
  <2>2. CASE p = "joinRoom" /\ q[1] = "roomEvent" /\ Len(q) = 2
    <3>1. 2 \in DOMAIN q /\ q[2] \in AnswerPackets /\ \A n \in DOMAIN q : q[n] \in AnswerPackets => n = 2
      BY <1>6, <2>2 DEF AnswerPackets
    <3> QED
      BY <2>2, <3>1 DEF Once, Has, Questions
  <2>3. CASE p = "joinRoom" /\ q[1] = "enterFails" /\ Len(q) = 1
    <3>1. 1 \in DOMAIN q /\ q[1] \in AnswerPackets /\ \A n \in DOMAIN q : n = 1
      BY <1>6, <2>3 DEF AnswerPackets
    <3> QED
      BY <2>3, <3>1 DEF Once, Has, Questions
  <2>4. CASE p \notin Questions
    <3>1. \A n \in DOMAIN q : q[n] \notin AnswerPackets
      BY <1>6, <2>4
    <3> QED
      BY <2>4, <3>1 DEF Once, Has
  <2> QED
    BY <1>6, <2>1, <2>2, <2>3, <2>4 DEF Questions
<1>10. /\ (InC2s <=> p \in Questions \/ InC2s') /\ Once(c2s', Questions)
       /\ p \in Questions => ~InC2s'
  <2>1. Has(c2s, Questions) <=> c2s[1] \in Questions \/ Has(c2s', Questions)
    BY <1>8, DropsHas
  <2>2. Once(c2s, Questions) => Once(c2s', Questions) /\ (c2s[1] \in Questions => ~Has(c2s', Questions))
    BY <1>8, DropsHas
  <2> QED
    BY <1>1, <1>5, <2>1, <2>2 DEF InC2s, OneQuestion
<1>11. InS2c' <=> InS2c \/ p \in Questions
  BY <1>7, <1>9, ExtendsHas DEF InS2c
<1>12. Once(s2c', AnswerPackets)
  <2>1. ~(Has(s2c, AnswerPackets) /\ Has(q, AnswerPackets))
    BY <1>5, <1>9, <1>10 DEF OneQuestion, InS2c
  <2> QED
    BY <1>5, <1>7, <1>9, <2>1, ExtendsHas DEF OneQuestion
<1>13. (InTodo' <=> InTodo) /\ (InLog' <=> InLog)
  BY <1>4 DEF InTodo, InLog
<1>14. Past' <=> Past
  BY <1>10, <1>11, <1>13 DEF Past
<1>15. OneQuestion'
  <2>1. Past' => asked' /\ Quiet'
    BY <1>4, <1>5, <1>14 DEF OneQuestion, Quiet
  <2>2. Once(todo', Tells)
    BY <1>4, <1>5 DEF OneQuestion
  <2> QED
    BY <1>5, <1>10, <1>11, <1>12, <1>13, <2>1, <2>2 DEF OneQuestion
<1>16. AskedState'
  <2>1. /\ p = "setNickname" => state = "WaitingNickname"
        /\ p = "joinRoom" => state = "Lobby"
    BY <1>1, <1>2, <1>5 DEF AskedState
  <2>2. p \in Questions => ~InS2c /\ ~InTodo
    BY <1>5, <1>10 DEF OneQuestion
  <2>3. \A n \in DOMAIN c2s' :
           /\ c2s'[n] = "setNickname" => state' = "WaitingNickname"
           /\ c2s'[n] = "joinRoom" => state' = "Lobby"
    BY <1>4, <1>5, <1>8 DEF AskedState, Drops
  <2>4. ASSUME NEW n \in DOMAIN s2c'
        PROVE  /\ s2c'[n] \in {"nameTaken", "nameFree"} => state' = "WaitingNickname"
               /\ s2c'[n] \in {"enterOk", "enterFails"} => state' = "Lobby"
               /\ s2c'[n] = "prompt" =>
                     /\ state' \in {"Connecting", "WaitingNickname"}
                     /\ \A m \in DOMAIN s2c' : s2c'[m] = "nameFree" => n < m
                     /\ \A m \in DOMAIN todo' : todo'[m] # Log("lobby")
    <3>1. CASE n \in DOMAIN s2c
      <4>1. s2c'[n] = s2c[n]
        BY <1>7, <3>1 DEF Extends
      <4>2. ASSUME s2c'[n] = "prompt", NEW m \in DOMAIN s2c', s2c'[m] = "nameFree"
            PROVE  n < m
        <5>1. CASE m \in DOMAIN s2c
          BY <1>5, <1>7, <3>1, <4>1, <4>2, <5>1 DEF Extends, AskedState
        <5>2. CASE m \notin DOMAIN s2c
          BY <1>7, <3>1, <4>2, <5>2 DEF Extends
        <5> QED
          BY <5>1, <5>2
      <4> QED
        BY <1>4, <1>5, <3>1, <4>1, <4>2 DEF AskedState
    <3>2. CASE n \notin DOMAIN s2c
      <4>1. PICK i \in DOMAIN q : s2c'[n] = q[i]
        BY <1>7, <2>4, <3>2 DEF Extends
      <4>2. /\ q[i] \in {"nameTaken", "nameFree"} => p = "setNickname"
            /\ q[i] \in {"enterOk", "enterFails"} => p = "joinRoom"
            /\ q[i] = "prompt" => p = "setNickname" /\ q[1] = "nameTaken" /\ q[2] = "prompt"
        BY <1>6, <4>1 DEF AnswerPackets, Questions
      <4>3. ASSUME q[i] = "prompt", NEW m \in DOMAIN s2c', s2c'[m] = "nameFree"
            PROVE  FALSE
        <5>1. CASE m \in DOMAIN s2c
          BY <1>7, <2>2, <4>2, <4>3, <5>1 DEF Extends, InS2c, Has, AnswerPackets, Questions
        <5>2. CASE m \notin DOMAIN s2c
          <6>1. PICK j \in DOMAIN q : s2c'[m] = q[j]
            BY <1>7, <4>3, <5>2 DEF Extends
          <6> QED
            BY <1>6, <4>2, <4>3, <6>1
        <5> QED
          BY <5>1, <5>2
      <4>4. q[i] = "prompt" => \A m \in DOMAIN todo' : todo'[m] # Log("lobby")
        BY <1>4, <2>2, <4>2, TellsWhat DEF InTodo, Has, Questions
      <4> QED
        BY <1>4, <2>1, <4>1, <4>2, <4>3, <4>4
    <3> QED
      BY <3>1, <3>2
  <2> QED
    BY <2>3, <2>4 DEF AskedState
<1>17. HandlerState'
  BY <1>4, <1>5 DEF HandlerState, StepState
<1>18. LogState'
  BY <1>4, <1>5 DEF LogState
<1>19. LineInv'
  BY <1>4, <1>5, <1>14, LinesLeft
<1> QED
  BY <1>5, <1>14, <1>15, <1>16, <1>17, <1>18, <1>19

\* Where the queues and the state stay.
LEMMA QueuesStay ==
    ASSUME OneQuestion, AskedState, HandlerState, LogState, UNCHANGED <<state, todo, logQ, c2s, s2c>>,
           asked => asked', Past => Quiet'
    PROVE  (Past' <=> Past) /\ OneQuestion' /\ AskedState' /\ HandlerState' /\ LogState'
<1>1. (InC2s' <=> InC2s) /\ (InS2c' <=> InS2c) /\ (InTodo' <=> InTodo) /\ (InLog' <=> InLog)
  BY DEF InC2s, InS2c, InTodo, InLog
<1>2. Past' <=> Past
  BY <1>1 DEF Past
<1>3. OneQuestion'
  BY <1>1, <1>2 DEF OneQuestion
<1>4. AskedState'
  BY DEF AskedState
<1>5. HandlerState'
  BY DEF HandlerState, StepState
<1>6. LogState'
  BY DEF LogState
<1> QED
  BY <1>2, <1>3, <1>4, <1>5, <1>6

\* Of a line that is blank nothing is said.
LEMMA BlankTyped ==
    ASSUME NEW l, l.text = "blank", NEW n
    PROVE  Typed(l, n) /\ Typed(l, n)'
<1>1. CommandIn(l.meant, l.text) = "none"
  BY DEF CommandIn
<1> QED
  BY <1>1 DEF Typed, Leads, Asks, Questions

\* A line that is not blank is on its way only while no question is.
LEMMA LineAlone ==
    ASSUME KeptInv, OneQuestion, LineInv, ui \in Handling
    PROVE  ~Past /\ line.meant # "Connecting" /\ Fits(line.meant) /\ seen # "Connecting"
<1>1. line.text # "blank"
  BY DEF KeptInv, TypeInv, ThreadInv
<1> QED
  BY <1>1 DEF LineInv, Typed

LEMMA FinishLines ==
    ASSUME LineInv, UNCHANGED <<state, keyboard, seen, asked>>, Past' <=> Past,
           line' = NoLine, ui' = "drain"
    PROVE  LineInv'
<1>1. \A l, n : Typed(l, n) => Typed(l, n)'
  BY DEF Typed, Fits, Leads, Asks, CommandIn
<1>2. Typed(NoLine, 0)'
  BY NoLineFields, BlankTyped
<1>3. Typed(line, 0)' /\ \A n \in DOMAIN keyboard' : Typed(keyboard[n], n)'
  BY <1>1, <1>2 DEF LineInv
<1>4. ~Past' => seen' = "Connecting" \/ Fits(seen)'
  BY DEF LineInv, Fits
<1> QED
  BY <1>3, <1>4 DEF LineInv, Typed

LEMMA PumpInputQuestion ==
    ASSUME KeptInv, QuestionInv, PumpInput
    PROVE  QuestionInv' /\ (Calm' => Calm /\ (Past' <=> Past))
<1> SUFFICES ASSUME Calm'
             PROVE  /\ Calm /\ (Past' <=> Past)
                    /\ OneQuestion' /\ AskedState' /\ HandlerState' /\ LogState' /\ LineInv'
  BY DEF QuestionInv
<1>1. /\ ui = "pump" /\ keyboard # <<>> /\ line' = Head(keyboard) /\ keyboard' = Tail(keyboard)
      /\ UNCHANGED <<state, session, todo, logQ, ui, command, link, c2s, s2c>>
      /\ UNCHANGED <<seen, asked, typed, hasty, burst>>
  BY DEF PumpInput, network, user
<1>2. Calm /\ OneQuestion /\ AskedState /\ HandlerState /\ LogState /\ LineInv
  BY <1>1 DEF Calm, QuestionInv
<1>3. line' = keyboard[1] /\ 1 \in DOMAIN keyboard /\ Drops(keyboard, keyboard')
  BY <1>1, HeadDrops DEF KeptInv, TypeInv, UserTypes
<1>4. \A n \in DOMAIN keyboard' :
         n \in Nat /\ n > 0 /\ n + 1 \in DOMAIN keyboard /\ keyboard'[n] = keyboard[n + 1]
  BY <1>3 DEF Drops
<1>5. Past => Quiet'
  BY <1>1, <1>2, <1>3, <1>4 DEF OneQuestion, Quiet
<1>6. (Past' <=> Past) /\ OneQuestion' /\ AskedState' /\ HandlerState' /\ LogState'
  BY <1>1, <1>2, <1>5, QueuesStay
<1>7. ASSUME NEW l, NEW n \in Nat, Typed(l, n + 1) PROVE Typed(l, n)'
  <2>1. l.text # "blank" => ~Past' /\ l.meant # "Connecting" /\ seen' # "Connecting" /\ Fits(l.meant)'
    BY <1>1, <1>6, <1>7 DEF Typed, Fits
  <2>2. ASSUME NEW m \in DOMAIN keyboard', m > n
        PROVE  m + 1 \in DOMAIN keyboard /\ m + 1 > n + 1 /\ keyboard'[m] = keyboard[m + 1]
    BY <1>4, <1>7, <2>2
  <2>3. Leads(l) =>
          /\ seen' = "Lobby"
          /\ \A m \in DOMAIN keyboard' : m > n /\ keyboard'[m].text # "blank" => keyboard'[m].meant = "Lobby"
    BY <1>1, <1>7, <2>2 DEF Typed
  <2>4. Asks(l) => asked' /\ \A m \in DOMAIN keyboard' : m > n => keyboard'[m].text = "blank"
    BY <1>1, <1>7, <2>2 DEF Typed
  <2> QED
    BY <2>1, <2>3, <2>4 DEF Typed, Leads, Asks
<1>8. Typed(line, 0)'
  <2>1. Typed(keyboard[1], 0 + 1)
    BY <1>2, <1>3 DEF LineInv
  <2>2. PICK l : l = keyboard[1]
    OBVIOUS
  <2>3. Typed(l, 0)' /\ line' = l
    BY <1>3, <1>7, <2>1, <2>2
  <2> QED
    BY <2>3 DEF Typed
<1>9. ASSUME NEW n \in DOMAIN keyboard' PROVE Typed(keyboard[n], n)'
  <2>1. PICK l : l = keyboard[n + 1]
    OBVIOUS
  <2>2. Typed(l, n + 1) /\ n \in Nat
    BY <1>2, <1>4, <1>9, <2>1 DEF LineInv
  <2>3. Typed(l, n)'
    BY <1>7, <2>2
  <2>4. keyboard'[n] = l
    BY <1>4, <1>9, <2>1
  <2> QED
    BY <2>3, <2>4 DEF Typed
<1>10. LineInv'
  BY <1>1, <1>2, <1>6, <1>8, <1>9 DEF LineInv, Fits
<1> QED
  BY <1>2, <1>6, <1>10

LEMMA PumpInputReturnsQuestion ==
    ASSUME KeptInv, QuestionInv, PumpInputReturns
    PROVE  QuestionInv' /\ (Calm' => Calm /\ (Past' <=> Past))
<1> SUFFICES ASSUME Calm'
             PROVE  /\ Calm /\ (Past' <=> Past)
                    /\ OneQuestion' /\ AskedState' /\ HandlerState' /\ LogState' /\ LineInv'
  BY DEF QuestionInv
<1>1. /\ ui = "pump" /\ keyboard = <<>>
      /\ \/ line.text = "blank" /\ line' = NoLine /\ ui' = "drain"
         \/ line.text # "blank" /\ ui' = "handle" /\ UNCHANGED <<line, command>>
      /\ UNCHANGED <<state, session, todo, logQ, link, c2s, s2c, keyboard>>
      /\ UNCHANGED <<seen, asked, typed, hasty, burst>>
  BY DEF PumpInputReturns, Finish, network, user
<1>2. Calm /\ OneQuestion /\ AskedState /\ HandlerState /\ LogState /\ LineInv
  BY <1>1 DEF Calm, QuestionInv
<1>3. Past => Quiet'
  BY <1>1, <1>2, NoLineFields DEF OneQuestion, Quiet
<1>4. (Past' <=> Past) /\ OneQuestion' /\ AskedState' /\ HandlerState' /\ LogState'
  BY <1>1, <1>2, <1>3, QueuesStay
<1>5. CASE line' = NoLine /\ ui' = "drain"
  <2>1. LineInv'
    BY <1>1, <1>2, <1>4, <1>5, FinishLines
  <2> QED
    BY <1>2, <1>4, <2>1
<1>6. CASE ui' = "handle" /\ UNCHANGED <<line, command>>
  <2>1. \A l, n : Typed(l, n) => Typed(l, n)'
    BY <1>1, <1>4 DEF Typed, Fits, Leads, Asks, CommandIn
  <2>2. Typed(line, 0)' /\ \A n \in DOMAIN keyboard' : Typed(keyboard[n], n)'
    BY <1>1, <1>2, <1>6, <2>1 DEF LineInv, Typed
  <2>3. LineInv'
    BY <1>1, <1>2, <1>4, <1>6, <2>2 DEF LineInv, Fits
  <2> QED
    BY <1>2, <1>4, <2>3
<1> QED
  BY <1>1, <1>5, <1>6

LEMMA HandleInputLineQuestion ==
    ASSUME KeptInv, QuestionInv, HandleInputLine
    PROVE  QuestionInv' /\ (Calm' => Calm /\ (Past' <=> Past))
<1> SUFFICES ASSUME Calm'
             PROVE  /\ Calm /\ (Past' <=> Past)
                    /\ OneQuestion' /\ AskedState' /\ HandlerState' /\ LogState' /\ LineInv'
  BY DEF QuestionInv
<1>1. PICK c : c = CommandIn(state, line.text)
  OBVIOUS
<1>2. /\ ui = "handle"
      /\ logQ' = IF c \in {"none", "setNickname"} THEN Append(logQ, "other") ELSE logQ
      /\ \/ c = "none" /\ line' = NoLine /\ ui' = "drain"
         \/ c # "none" /\ ui' = "acquire" /\ command' = c /\ UNCHANGED line
      /\ UNCHANGED <<state, session, todo, link, c2s, s2c, keyboard>>
      /\ UNCHANGED <<seen, asked, typed, hasty, burst>>
  BY <1>1 DEF HandleInputLine, Finish, network, user
<1>3. Calm /\ OneQuestion /\ AskedState /\ HandlerState /\ LogState /\ LineInv
  BY <1>2 DEF Calm, QuestionInv
<1>4. ~Past
  BY <1>2, <1>3, LineAlone DEF Handling
<1>5. /\ \A n \in DOMAIN logQ' : (n \in DOMAIN logQ /\ logQ'[n] = logQ[n]) \/ logQ'[n] = "other"
      /\ \A n \in DOMAIN logQ : n \in DOMAIN logQ' /\ logQ'[n] = logQ[n]
  <2>1. CASE c \in {"none", "setNickname"}
    <3>1. Appends(logQ, logQ', "other")
      BY <1>2, <2>1, LastAppends DEF KeptInv, TypeInv, WorkerTypes, Whats
    <3> QED
      BY <3>1 DEF Appends
  <2>2. CASE c \notin {"none", "setNickname"}
    BY <1>2, <2>2
  <2> QED
    BY <2>1, <2>2
<1>6. ~Past' /\ ~InC2s' /\ ~InS2c' /\ ~InTodo' /\ ~InLog'
  <2>1. ~InC2s' /\ ~InS2c' /\ ~InTodo'
    BY <1>2, <1>4 DEF Past, InC2s, InS2c, InTodo
  <2>2. ~InLog'
    BY <1>4, <1>5, TellsWhat DEF Past, InLog, Has
  <2> QED
    BY <2>1, <2>2 DEF Past
<1>7. OneQuestion'
  BY <1>2, <1>3, <1>6 DEF OneQuestion
<1>8. AskedState'
  BY <1>2, <1>3 DEF AskedState
<1>9. HandlerState'
  BY <1>2, <1>3 DEF HandlerState, StepState
<1>10. LogState'
  <2>1. "other" \notin AnswerLines
    BY TellsWhat
  <2> QED
    BY <1>2, <1>3, <1>5, <2>1 DEF LogState
<1>11. CASE line' = NoLine /\ ui' = "drain"
  <2>1. LineInv'
    BY <1>2, <1>3, <1>4, <1>6, <1>11, FinishLines
  <2> QED
    BY <1>3, <1>4, <1>6, <1>7, <1>8, <1>9, <1>10, <2>1
<1>12. CASE c # "none" /\ ui' = "acquire" /\ command' = c /\ UNCHANGED line
  <2>1. \A l, n : Typed(l, n) => Typed(l, n)'
    BY <1>2, <1>6 DEF Typed, Fits, Leads, Asks, CommandIn
  <2>2. Typed(line, 0)' /\ \A n \in DOMAIN keyboard' : Typed(keyboard[n], n)'
    BY <1>2, <1>3, <1>12, <2>1 DEF LineInv, Typed
  <2>3. LineInv'
    BY <1>1, <1>2, <1>3, <1>4, <1>12, <2>2 DEF LineInv, Fits
  <2> QED
    BY <1>3, <1>4, <1>6, <1>7, <1>8, <1>9, <1>10, <2>3
<1> QED
  BY <1>2, <1>11, <1>12

LEMMA AcquireSessionQuestion ==
    ASSUME KeptInv, QuestionInv, AcquireSession
    PROVE  QuestionInv' /\ (Calm' => Calm /\ (Past' <=> Past))
<1> SUFFICES ASSUME Calm'
             PROVE  /\ Calm /\ (Past' <=> Past)
                    /\ OneQuestion' /\ AskedState' /\ HandlerState' /\ LogState' /\ LineInv'
  BY DEF QuestionInv
<1>1. /\ ui = "acquire"
      /\ \/ line' = NoLine /\ ui' = "drain"
         \/ ui' = "send" /\ UNCHANGED <<line, command>>
      /\ UNCHANGED <<state, session, todo, logQ, link, c2s, s2c, keyboard>>
      /\ UNCHANGED <<seen, asked, typed, hasty, burst>>
  BY DEF AcquireSession, Finish, network, user
<1>2. Calm /\ OneQuestion /\ AskedState /\ HandlerState /\ LogState /\ LineInv
  BY <1>1 DEF Calm, QuestionInv
<1>3. ~Past
  BY <1>1, <1>2, LineAlone DEF Handling
<1>4. (Past' <=> Past) /\ OneQuestion' /\ AskedState' /\ HandlerState' /\ LogState'
  BY <1>1, <1>2, <1>3, QueuesStay
<1>5. CASE line' = NoLine /\ ui' = "drain"
  <2>1. LineInv'
    BY <1>1, <1>2, <1>4, <1>5, FinishLines
  <2> QED
    BY <1>2, <1>4, <2>1
<1>6. CASE ui' = "send" /\ UNCHANGED <<line, command>>
  <2>1. \A l, n : Typed(l, n) => Typed(l, n)'
    BY <1>1, <1>4 DEF Typed, Fits, Leads, Asks, CommandIn
  <2>2. Typed(line, 0)' /\ \A n \in DOMAIN keyboard' : Typed(keyboard[n], n)'
    BY <1>1, <1>2, <1>6, <2>1 DEF LineInv, Typed
  <2>3. LineInv'
    BY <1>1, <1>2, <1>4, <1>6, <2>2 DEF LineInv, Fits
  <2> QED
    BY <1>2, <1>4, <2>3
<1> QED
  BY <1>1, <1>5, <1>6

\* A question is sent in the state that it was typed for, and nothing follows it.
LEMMA SendQuestion ==
    ASSUME KeptInv, QuestionInv, Send
    PROVE  QuestionInv' /\ (Calm' => Calm)
<1> SUFFICES ASSUME Calm'
             PROVE  /\ Calm
                    /\ OneQuestion' /\ AskedState' /\ HandlerState' /\ LogState' /\ LineInv'
  BY DEF QuestionInv
<1>1. /\ ui = "send" /\ link = "up" /\ c2s' = Append(c2s, command)
      /\ \/ command = "leaveRoom" /\ ui' = "leave" /\ UNCHANGED <<line, command>>
         \/ command # "leaveRoom" /\ line' = NoLine /\ ui' = "drain"
      /\ UNCHANGED <<state, session, todo, logQ, link, s2c, keyboard>>
      /\ UNCHANGED <<seen, asked, typed, hasty, burst>>
  BY DEF Send, Finish, Calm, user
<1>2. Calm /\ OneQuestion /\ AskedState /\ HandlerState /\ LogState /\ LineInv
  BY <1>1 DEF Calm, QuestionInv
<1>3. ~Past /\ line.meant # "Connecting" /\ Fits(line.meant)
  BY <1>1, <1>2, LineAlone DEF Handling
<1>4. command = CommandIn(state, line.text) /\ Typed(line, 0)
  BY <1>1, <1>2 DEF LineInv
<1>5. Appends(c2s, c2s', command)
  <2>1. command \in Commands
    BY <1>1 DEF KeptInv, TypeInv, ThreadInv
  <2> QED
    BY <1>1, <2>1, LastAppends DEF KeptInv, TypeInv, WorkerTypes
<1>6. ASSUME command \in Questions
      PROVE  asked /\ (\A n \in DOMAIN keyboard : keyboard[n].text = "blank") /\ command # "leaveRoom"
  <2>1. line.meant = state
    BY <1>3, <1>4, <1>6 DEF Fits, CommandIn, Questions
  <2>2. Asks(line)
    BY <1>4, <1>6, <2>1 DEF Asks
  <2>3. \A n \in DOMAIN keyboard : n > 0
    BY LenProperties DEF KeptInv, TypeInv, UserTypes
  <2> QED
    BY <1>4, <1>6, <2>2, <2>3 DEF Typed, Questions
<1>7. /\ ~InC2s /\ ~InS2c /\ ~InTodo /\ ~InLog /\ ~InS2c' /\ ~InTodo' /\ ~InLog'
      /\ InC2s' <=> command \in Questions
  <2>1. ~InC2s /\ ~InS2c /\ ~InTodo /\ ~InLog
    BY <1>3 DEF Past
  <2>2. InC2s' <=> command \in Questions
    BY <1>5, <2>1, AppendsHas DEF InC2s
  <2> QED
    BY <1>1, <2>1, <2>2 DEF InS2c, InTodo, InLog
<1>8. Past' <=> command \in Questions
  BY <1>7 DEF Past
<1>9. OneQuestion'
  <2>1. Past' => asked' /\ Quiet'
    BY <1>1, <1>6, <1>8, NoLineFields DEF Quiet
  <2>2. Once(c2s', Questions)
    BY <1>2, <1>5, <1>7, AppendsHas DEF OneQuestion, InC2s
  <2>3. Once(s2c', AnswerPackets) /\ Once(todo', Tells)
    BY <1>1, <1>2 DEF OneQuestion
  <2> QED
    BY <1>7, <2>1, <2>2, <2>3 DEF OneQuestion
<1>10. AskedState'
  <2>1. /\ command = "setNickname" => state = "WaitingNickname"
        /\ command = "joinRoom" => state = "Lobby"
    BY <1>4 DEF CommandIn
  <2>2. \A n \in DOMAIN c2s' : (n \in DOMAIN c2s /\ c2s'[n] = c2s[n]) \/ c2s'[n] = command
    BY <1>5 DEF Appends
  <2> QED
    BY <1>1, <1>2, <2>1, <2>2 DEF AskedState
<1>11. HandlerState'
  BY <1>1, <1>2 DEF HandlerState, StepState
<1>12. LogState'
  BY <1>1, <1>2 DEF LogState
<1>13. CASE command \in Questions
  <2>1. line'.text = "blank" /\ ui' = "drain" /\ \A n \in DOMAIN keyboard' : keyboard'[n].text = "blank"
    BY <1>1, <1>6, <1>13, NoLineFields
  <2>2. Typed(line, 0)' /\ \A n \in DOMAIN keyboard' : Typed(keyboard[n], n)'
    <3>1. \A l, n : l.text = "blank" => Typed(l, n)'
      BY BlankTyped
    <3> QED
      BY <2>1, <3>1 DEF Typed
  <2>3. LineInv'
    BY <1>1, <1>2, <1>8, <1>13, <2>1, <2>2 DEF LineInv
  <2> QED
    BY <1>2, <1>3, <1>9, <1>10, <1>11, <1>12, <2>3
<1>14. CASE command \notin Questions /\ line' = NoLine /\ ui' = "drain"
  <2>1. LineInv'
    BY <1>1, <1>2, <1>3, <1>8, <1>14, FinishLines
  <2> QED
    BY <1>2, <1>3, <1>9, <1>10, <1>11, <1>12, <2>1
<1>15. CASE command = "leaveRoom" /\ ui' = "leave" /\ UNCHANGED <<line, command>>
  <2>1. ~Past'
    BY <1>8, <1>15 DEF Questions
  <2>2. \A l, n : Typed(l, n) => Typed(l, n)'
    BY <1>1, <2>1 DEF Typed, Fits, Leads, Asks, CommandIn
  <2>3. Typed(line, 0)' /\ \A n \in DOMAIN keyboard' : Typed(keyboard[n], n)'
    BY <1>1, <1>2, <1>15, <2>2 DEF LineInv, Typed
  <2>4. LineInv'
    BY <1>1, <1>2, <1>3, <1>4, <1>15, <2>1, <2>3 DEF LineInv, Fits
  <2> QED
    BY <1>2, <1>3, <1>9, <1>10, <1>11, <1>12, <2>4
<1> QED
  BY <1>1, <1>13, <1>14, <1>15

LEMMA LeaveRoomQuestion ==
    ASSUME KeptInv, QuestionInv, LeaveRoom
    PROVE  QuestionInv' /\ (Calm' => Calm /\ ~Past /\ ~Past')
<1> SUFFICES ASSUME Calm'
             PROVE  /\ Calm /\ ~Past /\ ~Past'
                    /\ OneQuestion' /\ AskedState' /\ HandlerState' /\ LogState' /\ LineInv'
  BY DEF QuestionInv
<1>1. /\ ui = "leave" /\ state' = "Lobby" /\ line' = NoLine /\ ui' = "drain"
      /\ UNCHANGED <<session, todo, logQ, link, c2s, s2c, keyboard>>
      /\ UNCHANGED <<seen, asked, typed, hasty, burst>>
  BY DEF LeaveRoom, Finish, network, user
<1>2. Calm /\ OneQuestion /\ AskedState /\ HandlerState /\ LogState /\ LineInv
  BY <1>1 DEF Calm, QuestionInv
<1>3. ~Past /\ Fits(line.meant)
  BY <1>1, <1>2, LineAlone DEF Handling
<1>4. ~InC2s /\ ~InS2c /\ ~InTodo /\ ~InLog
  BY <1>3 DEF Past
<1>5. ~InC2s' /\ ~InS2c' /\ ~InTodo' /\ ~InLog' /\ ~Past'
  BY <1>1, <1>4 DEF Past, InC2s, InS2c, InTodo, InLog
<1>6. state = "InRoom" /\ line.text = "leave" /\ Typed(line, 0)
  BY <1>1, <1>2 DEF LineInv, CommandIn
<1>7. OneQuestion'
  BY <1>1, <1>2, <1>5 DEF OneQuestion
<1>8. AskedState'
  <2>1. \A n \in DOMAIN c2s : c2s[n] \notin Questions
    BY <1>4 DEF InC2s, Has
  <2>2. \A n \in DOMAIN s2c : s2c[n] \notin AnswerPackets
    BY <1>4 DEF InS2c, Has
  <2>3. \A n \in DOMAIN s2c : s2c[n] # "prompt"
    BY <1>2, <1>6 DEF AskedState
  <2> QED
    BY <1>1, <2>1, <2>2, <2>3 DEF AskedState, Questions, AnswerPackets
<1>9. HandlerState'
  <2>1. \A n \in DOMAIN todo : todo[n] \notin Tells
    BY <1>4 DEF InTodo, Has
  <2>2. \A n \in DOMAIN todo :
           /\ todo[n] # Log("lobby") /\ todo[n] # Log("inRoom")
           /\ todo[n] # Log("nameTaken") /\ todo[n] # Log("enterFails")
    BY <2>1, TellsWhat
  <2> QED
    BY <1>1, <1>2, <1>6, <2>2 DEF HandlerState, StepState
<1>10. LogState'
  <2>1. \A n \in DOMAIN logQ : logQ[n] \notin AnswerLines
    BY <1>4 DEF InLog, Has
  <2>2. \A n \in DOMAIN todo : todo[n] # Log("lobby")
    BY <1>4, TellsWhat DEF InTodo, Has
  <2> QED
    BY <1>1, <1>2, <1>6, <2>1, <2>2 DEF LogState
<1>11. /\ seen = "Lobby"
       /\ \A n \in DOMAIN keyboard : keyboard[n].text # "blank" => keyboard[n].meant = "Lobby"
  <2>1. Leads(line)
    BY <1>3, <1>6 DEF Fits, Leads
  <2>2. \A n \in DOMAIN keyboard : n > 0
    BY LenProperties DEF KeptInv, TypeInv, UserTypes
  <2> QED
    BY <1>6, <2>1, <2>2 DEF Typed
<1>12. LineInv'
  <2>1. \A l, n : Typed(l, n) /\ (l.text # "blank" => l.meant = "Lobby") => Typed(l, n)'
    BY <1>1, <1>5 DEF Typed, Fits, Leads, Asks, CommandIn
  <2>2. Typed(NoLine, 0)'
    BY NoLineFields, BlankTyped
  <2>3. Typed(line, 0)' /\ \A n \in DOMAIN keyboard' : Typed(keyboard[n], n)'
    BY <1>1, <1>2, <1>11, <2>1, <2>2 DEF LineInv
  <2> QED
    BY <1>1, <1>2, <1>11, <2>3 DEF LineInv, Typed, Fits
<1> QED
  BY <1>2, <1>3, <1>5, <1>7, <1>8, <1>9, <1>10, <1>12

\* What the user believes after looking at the log.
LEMMA DrainTells ==
    ASSUME KeptInv, QuestionInv, DrainLogs, Calm
    PROVE  /\ asked' = (asked /\ ~InLog)
           /\ \/ seen' = seen /\ ~InLog
              \/ seen' = state /\ InLog
              \/ seen' = "WaitingNickname" /\ (state = "WaitingNickname" \/ InTodo)
           /\ seen' = "Connecting" => seen = "Connecting"
<1>1. OneQuestion /\ LogState
  BY DEF QuestionInv
<1>2. PICK telling : telling = {n \in DOMAIN logQ : logQ[n] \in DOMAIN Meaning}
  OBVIOUS
<1>3. /\ \/ telling = {} /\ seen' = seen
         \/ \E n \in telling : (\A m \in telling : m <= n) /\ seen' = Meaning[logQ[n]]
      /\ asked' = (asked /\ Range(logQ) \cap AnswerLines = {})
  BY <1>2 DEF DrainLogs
<1>4. Range(logQ) \cap AnswerLines = {} <=> ~InLog
  BY DEF Range, InLog, Has
<1>5. DOMAIN Meaning = AnswerLines \cup {"prompt"}
  BY TellsWhat DEF Meaning
<1>6. CASE telling = {} /\ seen' = seen
  <2>1. ~InLog
    BY <1>2, <1>5, <1>6 DEF InLog, Has
  <2> QED
    BY <1>3, <1>4, <1>6, <2>1
<1>7. CASE \E n \in telling : (\A m \in telling : m <= n) /\ seen' = Meaning[logQ[n]]
  <2>1. PICK n \in telling : (\A m \in telling : m <= n) /\ seen' = Meaning[logQ[n]]
    BY <1>7
  <2>2. n \in DOMAIN logQ /\ logQ[n] \in AnswerLines \cup {"prompt"} /\ n \in Int
    BY <1>2, <1>5, <2>1, LenProperties DEF KeptInv, TypeInv, WorkerTypes
  <2>3. seen' # "Connecting"
    BY <2>1, <2>2, TellsWhat DEF Meaning
  <2>4. CASE logQ[n] \in AnswerLines
    <3>1. InLog /\ state = Meaning[logQ[n]]
      BY <1>1, <2>2, <2>4 DEF LogState, InLog, Has
    <3> QED
      BY <1>3, <1>4, <2>1, <2>3, <3>1
  <2>5. CASE logQ[n] = "prompt"
    <3>1. seen' = "WaitingNickname"
      BY <2>1, <2>5 DEF Meaning
    <3>2. ASSUME NEW m \in DOMAIN logQ, m > n, logQ[m] = "lobby"
          PROVE  FALSE
      <4>1. m \in telling /\ m \in Int
        BY <1>2, <1>5, <3>2, TellsWhat, LenProperties DEF KeptInv, TypeInv, WorkerTypes
      <4> QED
        BY <2>1, <2>2, <3>2, <4>1
    <3>3. state = "WaitingNickname" \/ \E m \in DOMAIN todo : todo[m] = Log("lobby")
      BY <1>1, <2>2, <2>5, <3>2 DEF LogState
    <3>4. state = "WaitingNickname" \/ InTodo
      BY <3>3, TellsWhat DEF InTodo, Has
    <3> QED
      BY <1>3, <1>4, <2>3, <3>1, <3>4
  <2> QED
    BY <2>2, <2>4, <2>5
<1> QED
  BY <1>3, <1>6, <1>7

LEMMA DrainLogsQuestion ==
    ASSUME KeptInv, QuestionInv, DrainLogs
    PROVE  QuestionInv' /\ (Calm' => Calm /\ (Past' <=> Past /\ ~InLog))
<1> SUFFICES ASSUME Calm'
             PROVE  /\ Calm /\ (Past' <=> Past /\ ~InLog)
                    /\ OneQuestion' /\ AskedState' /\ HandlerState' /\ LogState' /\ LineInv'
  BY DEF QuestionInv
<1>1. /\ ui = "drain" /\ ui' = "pump" /\ logQ' = <<>>
      /\ UNCHANGED <<state, session, todo, line, command, link, c2s, s2c, keyboard>>
      /\ UNCHANGED <<typed, hasty, burst, fate>>
  BY DEF DrainLogs, network
<1>2. Calm /\ OneQuestion /\ AskedState /\ HandlerState /\ LogState /\ LineInv
  BY <1>1 DEF Calm, QuestionInv
<1>3. /\ asked' = (asked /\ ~InLog)
      /\ \/ seen' = seen /\ ~InLog
         \/ seen' = state /\ InLog
         \/ seen' = "WaitingNickname" /\ (state = "WaitingNickname" \/ InTodo)
      /\ seen' = "Connecting" => seen = "Connecting"
  BY <1>2, DrainTells
<1>4. line = NoLine /\ line.text = "blank"
  BY <1>1, NoLineFields DEF KeptInv, TypeInv, ThreadInv
<1>5. ~InLog' /\ (InC2s' <=> InC2s) /\ (InS2c' <=> InS2c) /\ (InTodo' <=> InTodo)
  <2>1. DOMAIN logQ' = {}
    BY <1>1
  <2> QED
    BY <1>1, <2>1 DEF InLog, InC2s, InS2c, InTodo, Has
<1>6. Past' <=> Past /\ ~InLog
  BY <1>2, <1>5 DEF Past, OneQuestion
<1>7. OneQuestion'
  <2>1. Past' => asked' /\ Quiet'
    BY <1>1, <1>2, <1>3, <1>6 DEF OneQuestion, Quiet
  <2>2. Once(c2s', Questions) /\ Once(s2c', AnswerPackets) /\ Once(todo', Tells)
    BY <1>1, <1>2 DEF OneQuestion
  <2> QED
    BY <1>2, <1>5, <2>1, <2>2 DEF OneQuestion
<1>8. AskedState'
  BY <1>1, <1>2 DEF AskedState
<1>9. HandlerState'
  BY <1>1, <1>2 DEF HandlerState, StepState
<1>10. LogState'
  <2>1. DOMAIN logQ' = {}
    BY <1>1
  <2> QED
    BY <2>1 DEF LogState
<1>11. CASE InLog
  <2>1. /\ Past /\ line'.text = "blank" /\ \A n \in DOMAIN keyboard' : keyboard'[n].text = "blank"
        /\ ~asked' /\ ~InTodo
    BY <1>1, <1>2, <1>3, <1>4, <1>11 DEF OneQuestion, Quiet, Past
  <2>2. Typed(line, 0)' /\ \A n \in DOMAIN keyboard' : Typed(keyboard[n], n)'
    <3>1. \A l, n : l.text = "blank" => Typed(l, n)'
      BY BlankTyped
    <3> QED
      BY <2>1, <3>1 DEF Typed
  <2>3. seen' = state
    BY <1>3, <1>11, <2>1
  <2> QED
    BY <1>1, <1>2, <1>6, <1>7, <1>8, <1>9, <1>10, <2>1, <2>2, <2>3 DEF LineInv, Fits
<1>12. CASE ~InLog
  <2>1. (Past' <=> Past) /\ asked' = asked
    BY <1>2, <1>3, <1>6, <1>12, Zenon DEF KeptInv, TypeInv, UserTypes
  <2>2. seen' = seen \/ (seen' = "WaitingNickname" /\ (state = "WaitingNickname" \/ Past))
    BY <1>3, <1>12 DEF Past
  <2>3. ASSUME NEW l, NEW n, Typed(l, n) PROVE Typed(l, n)'
    <3>1. CASE l.text = "blank"
      BY <3>1, BlankTyped
    <3>2. CASE l.text # "blank"
      <4>1. ~Past /\ Fits(l.meant) /\ l.meant # "Connecting"
        BY <2>3, <3>2 DEF Typed
      <4>2. seen' # seen => state = "WaitingNickname" /\ seen' = state /\ ~Leads(l)
        BY <2>2, <4>1 DEF Fits, Leads
      <4> QED
        BY <1>1, <1>3, <2>1, <2>3, <4>1, <4>2 DEF Typed, Fits, Leads, Asks
    <3> QED
      BY <3>1, <3>2
  <2>4. Typed(line, 0)' /\ \A n \in DOMAIN keyboard' : Typed(keyboard[n], n)'
    BY <1>1, <1>2, <2>3 DEF LineInv, Typed
  <2>5. ~Past' => seen' = "Connecting" \/ Fits(seen)'
    BY <1>1, <1>2, <2>1, <2>2 DEF LineInv, Fits
  <2>6. LineInv'
    BY <1>1, <1>2, <1>3, <2>1, <2>4, <2>5 DEF LineInv
  <2> QED
    BY <1>2, <1>6, <1>7, <1>8, <1>9, <1>10, <2>6
<1> QED
  BY <1>11, <1>12

LEMMA TypeQuestion ==
    ASSUME KeptInv, QuestionInv, NEW text \in Texts, Type(text)
    PROVE  QuestionInv' /\ (Calm' => Calm /\ (Past' <=> Past))
<1> SUFFICES ASSUME Calm'
             PROVE  /\ Calm /\ (Past' <=> Past)
                    /\ OneQuestion' /\ AskedState' /\ HandlerState' /\ LogState' /\ LineInv'
  BY DEF QuestionInv
<1>1. PICK new : new = [number |-> typed + 1, text |-> text, meant |-> seen]
  OBVIOUS
<1>2. PICK c : c = CommandIn(seen, text)
  OBVIOUS
<1>3. /\ keyboard' = Append(keyboard, new)
      /\ asked' = (asked \/ c \in {"setNickname", "joinRoom"})
      /\ hasty' = (hasty \/ (text # "blank" /\ (asked \/ seen = "Connecting")))
      /\ seen' = IF c = "leaveRoom" THEN "Lobby" ELSE seen
      /\ UNCHANGED <<state, session, todo, logQ, ui, line, command, link, c2s, s2c>>
  BY <1>1, <1>2 DEF Type, interface, network
<1>4. ~hasty' /\ link' = "up"
  BY DEF Calm
<1>5. Calm /\ ~(text # "blank" /\ (asked \/ seen = "Connecting"))
  BY <1>3, <1>4 DEF Calm
<1>6. OneQuestion /\ AskedState /\ HandlerState /\ LogState /\ LineInv
  BY <1>5 DEF QuestionInv
<1>7. new \in Line /\ new.text = text /\ new.meant = seen
  BY <1>1 DEF KeptInv, TypeInv, UserTypes, Line, AllTexts
<1>8. Appends(keyboard, keyboard', new)
  BY <1>3, <1>7, LastAppends DEF KeptInv, TypeInv, UserTypes
<1>9. /\ \A n \in DOMAIN keyboard : n \in DOMAIN keyboard' /\ keyboard'[n] = keyboard[n] /\ n < Len(keyboard')
      /\ \A n \in DOMAIN keyboard' : n <= Len(keyboard')
      /\ \A n \in DOMAIN keyboard' : n \in DOMAIN keyboard \/ (n = Len(keyboard') /\ keyboard'[n] = new)
      /\ Len(keyboard') \in Nat
  BY <1>8 DEF Appends
<1>10. asked => asked'
  BY <1>3
<1>11. Past => Quiet'
  <2>1. Past => text = "blank" /\ Quiet
    BY <1>5, <1>6 DEF OneQuestion
  <2> QED
    BY <1>3, <1>7, <1>9, <2>1 DEF Quiet
<1>12. (Past' <=> Past) /\ OneQuestion' /\ AskedState' /\ HandlerState' /\ LogState'
  BY <1>3, <1>6, <1>10, <1>11, QueuesStay
<1>13. /\ c = "leaveRoom" => seen = "InRoom" /\ text = "leave"
       /\ c \in Questions => text # "blank" /\ seen # "Connecting"
       /\ seen = "InRoom" /\ text = "leave" => c = "leaveRoom"
  BY <1>2 DEF CommandIn, Questions
<1>14. seen' = "Connecting" <=> seen = "Connecting"
  BY <1>3, <1>13
<1>15. ASSUME NEW l, NEW n, Typed(l, n), n = 0 \/ n \in DOMAIN keyboard
       PROVE  Typed(l, n)'
  <2>1. l.text # "blank" => ~Past' /\ l.meant # "Connecting" /\ seen' # "Connecting" /\ Fits(l.meant)'
    BY <1>3, <1>12, <1>14, <1>15 DEF Typed, Fits
  <2>2. ASSUME Leads(l)
        PROVE  /\ seen' = "Lobby"
               /\ \A m \in DOMAIN keyboard' :
                     m > n /\ keyboard'[m].text # "blank" => keyboard'[m].meant = "Lobby"
    <3>1. /\ seen = "Lobby"
          /\ \A m \in DOMAIN keyboard : m > n /\ keyboard[m].text # "blank" => keyboard[m].meant = "Lobby"
      BY <1>15, <2>2 DEF Typed
    <3>2. seen' = "Lobby"
      BY <1>3, <3>1
    <3> QED
      BY <1>7, <1>9, <3>1, <3>2
  <2>3. ASSUME Asks(l)
        PROVE  asked' /\ \A m \in DOMAIN keyboard' : m > n => keyboard'[m].text = "blank"
    <3>1. asked /\ \A m \in DOMAIN keyboard : m > n => keyboard[m].text = "blank"
      BY <1>15, <2>3 DEF Typed
    <3>2. text = "blank"
      BY <1>5, <3>1
    <3> QED
      BY <1>7, <1>9, <1>10, <3>1, <3>2
  <2> QED
    BY <2>1, <2>2, <2>3 DEF Typed, Leads, Asks
<1>16. Typed(line, 0)'
  <2>1. Typed(line, 0)
    BY <1>6 DEF LineInv
  <2>2. PICK l : l = line
    OBVIOUS
  <2>3. Typed(l, 0)' /\ line' = l
    BY <1>3, <1>15, <2>1, <2>2
  <2> QED
    BY <2>3 DEF Typed
<1>0. PICK k : k = Len(keyboard')
  OBVIOUS
<1>17. Typed(new, k)'
  <2>1. \A m \in DOMAIN keyboard' : ~(m > k)
    <3>1. \A m \in DOMAIN keyboard' : m \in Nat
      BY <1>8 DEF Appends
    <3> QED
      BY <1>0, <1>9, <3>1
  <2>2. ASSUME text # "blank"
        PROVE  ~Past' /\ new.meant # "Connecting" /\ seen' # "Connecting" /\ Fits(new.meant)'
    <3>1. ~asked /\ seen # "Connecting" /\ ~Past
      BY <1>5, <1>6, <2>2 DEF OneQuestion
    <3>2. Fits(seen)
      BY <1>6, <3>1 DEF LineInv
    <3>3. Fits(seen) => Fits(new.meant)'
      BY <1>3, <1>7 DEF Fits, Line
    <3> QED
      BY <1>7, <1>12, <1>14, <3>1, <3>2, <3>3
  <2>3. Leads(new) => seen' = "Lobby"
    BY <1>3, <1>7, <1>13 DEF Leads
  <2>4. Asks(new) => asked'
    BY <1>2, <1>3, <1>7 DEF Asks, Questions
  <2> QED
    BY <1>7, <2>1, <2>2, <2>3, <2>4 DEF Typed, Leads, Asks
<1>18. ASSUME NEW n \in DOMAIN keyboard' PROVE Typed(keyboard[n], n)'
  <2>1. CASE n \in DOMAIN keyboard
    <3>1. PICK l : l = keyboard[n]
      OBVIOUS
    <3>2. Typed(l, n)
      BY <1>6, <2>1, <3>1 DEF LineInv
    <3>3. Typed(l, n)' /\ keyboard'[n] = l
      BY <1>9, <1>15, <2>1, <3>1, <3>2
    <3> QED
      BY <3>3 DEF Typed
  <2>2. CASE n = Len(keyboard') /\ keyboard'[n] = new
    BY <1>0, <1>17, <2>2 DEF Typed
  <2> QED
    BY <1>9, <2>1, <2>2
<1>19. ~Past' => seen' = "Connecting" \/ Fits(seen)'
  <2>1. ASSUME ~Past PROVE seen = "Connecting" \/ Fits(seen)
    BY <1>6, <2>1 DEF LineInv
  <2> QED
    BY <1>3, <1>12, <1>13, <2>1 DEF Fits
<1>20. seen' = "Connecting" => ~asked'
  BY <1>3, <1>6, <1>13, <1>14 DEF LineInv, Questions
<1>21. LineInv'
  BY <1>3, <1>6, <1>16, <1>18, <1>19, <1>20 DEF LineInv
<1> QED
  BY <1>5, <1>12, <1>21

LEMMA NextQuestion == ASSUME KeptInv, QuestionInv, [Next]_vars PROVE QuestionInv'
<1>1. CASE UNCHANGED vars
  <2>1. /\ UNCHANGED <<state, todo, logQ, ui, line, command, link, c2s, s2c>>
        /\ UNCHANGED <<keyboard, seen, asked, hasty>>
    BY <1>1 DEF vars, interface, network, user
  <2>2. ASSUME Calm' PROVE Calm /\ (Past => Quiet')
    BY <2>1, <2>2 DEF Calm, QuestionInv, OneQuestion, Quiet
  <2> QED
    BY <2>1, <2>2, QueuesStay, LinesLeft DEF QuestionInv
<1>2. CASE Disconnected
  BY <1>2 DEF Disconnected, QuestionInv, Calm
<1>3. CASE Next /\ ~Disconnected
  BY <1>3, ReceiveQuestion, ExecuteQuestion, ServeQuestion, PumpInputQuestion,
     PumpInputReturnsQuestion, HandleInputLineQuestion, AcquireSessionQuestion, SendQuestion,
     LeaveRoomQuestion, DrainLogsQuestion, TypeQuestion DEF Next, Worker, Interface
<1> QED
  BY <1>1, <1>2, <1>3

LEMMA QuestionInvariant == Spec => [](KeptInv /\ QuestionInv)
<1>1. Init => KeptInv /\ QuestionInv
  BY InitKept, InitQuestion
<1>2. KeptInv /\ QuestionInv /\ [Next]_vars => KeptInv' /\ QuestionInv'
  BY NextKept, NextQuestion
<1> QED
  BY <1>1, <1>2, PTL DEF Spec

LEMMA QuestionRaces == KeptInv /\ QuestionInv => RacesOnlyAtPrompt
<1> SUFFICES ASSUME KeptInv, QuestionInv, ~hasty, NEW f, f \in Reads, f \in Writes
             PROVE  f = "session" /\ command = "setNickname"
  BY DEF RacesOnlyAtPrompt
<1>1. /\ ui \in {"acquire", "send"} /\ (f = "session" <=> ui = "acquire")
      /\ f \in {"session", "myId", "nickname", "currentRoomId"}
  BY DEF Reads
<1>2. /\ todo # <<>> /\ (f = "session" => Head(todo) = SetSession)
      /\ (f # "session" => Head(todo) = Write(f))
  BY DEF Writes
<1>3. link = "up"
  BY <1>2 DEF KeptInv, TypeInv, WorkerTypes, SessionKept
<1>4. OneQuestion /\ HandlerState /\ LineInv
  BY <1>3 DEF QuestionInv, Calm
<1>5. ~InTodo
  BY <1>1, <1>4, LineAlone DEF Handling, Past
<1>6. 1 \in DOMAIN todo /\ todo[1] = Head(todo)
  BY <1>2, HeadDrops DEF KeptInv, TypeInv, WorkerTypes
<1>7. f = "session"
  <2> SUFFICES ASSUME f # "session" PROVE FALSE
    OBVIOUS
  <2>1. \E m \in DOMAIN todo : todo[m] \in {Log("lobby"), Log("inRoom")}
    BY <1>1, <1>2, <1>4, <1>6 DEF HandlerState, StepState
  <2> QED
    BY <1>5, <2>1, TellsWhat DEF InTodo, Has
<1>8. state = "WaitingNickname"
  <2>1. \A m \in DOMAIN todo : ~(m < 1)
    BY DEF KeptInv, TypeInv, WorkerTypes
  <2> QED
    BY <1>2, <1>4, <1>6, <1>7, <2>1 DEF HandlerState, StepState
<1>9. ui = "acquire" /\ command = CommandIn(state, line.text) /\ command # "none"
  BY <1>1, <1>4, <1>7 DEF LineInv, KeptInv, TypeInv, ThreadInv
<1> QED
  BY <1>7, <1>8, <1>9 DEF CommandIn

\* As long as the user waits for answers, no plain field of GClient is read while
\* the worker writes it, but for the session by the nickname typed for a prompt
\* that is still being handled (ServerPacketHandler.cpp:18-19).
THEOREM RacesConfined == Spec => []RacesOnlyAtPrompt
<1>1. KeptInv /\ QuestionInv => RacesOnlyAtPrompt
  BY QuestionRaces
<1> QED
  BY <1>1, QuestionInvariant, PTL

-----------------------------------------------------------------------------
(* Lines are handled as they are meant *)

Losses == {"overwritten", "noSession", "disconnected"}

\* A line that was lost stays lost.
LEMMA DoneLost ==
    ASSUME KeptInv, NEW how, Done(line, how), NoLineLost'
    PROVE  NoLineLost /\ (line # NoLine => how \notin Losses)
<1>1. CASE line = NoLine
  BY <1>1 DEF Done, NoLineLost
<1>2. CASE line # NoLine
  <2>1. line.number \in DOMAIN fate /\ fate[line.number] = "typed"
    BY <1>2, LineNumbered DEF KeptInv, FateInv
  <2>2. fate' = [fate EXCEPT ![line.number] = how]
    BY <1>2 DEF Done
  <2>3. DOMAIN fate' = DOMAIN fate /\ fate'[line.number] = how
    BY <2>1, <2>2
  <2>4. \A n \in DOMAIN fate : n # line.number => fate'[n] = fate[n]
    BY <2>2
  <2>5. how \notin Losses
    BY <2>1, <2>3 DEF NoLineLost, Losses
  <2>6. NoLineLost
    BY <2>1, <2>3, <2>4 DEF NoLineLost
  <2> QED
    BY <2>5, <2>6
<1> QED
  BY <1>1, <1>2

LEMMA ThenStays ==
    /\ \A s, l : l.text = "blank" => Then(s, l) = s
    /\ \A s, l : s # "InRoom" => Then(s, l) = s
    /\ \A s, l : CommandIn(s, l.text) # "leaveRoom" => Then(s, l) = s
    /\ \A s, l : CommandIn(s, l.text) = "leaveRoom" => Then(s, l) = "Lobby"
BY DEF Then, CommandIn

\* Steps that the interface thread and the user have no part in.
LEMMA MeantLeft ==
    ASSUME MeantInv, Calm, NoLineLost, UNCHANGED <<state, ui, line, keyboard, seen>>, Past' <=> Past
    PROVE  HandledMeant' /\ NextMeant'
BY DEF MeantInv, HandledMeant, NextMeant, Then

LEMMA WorkerMeant ==
    ASSUME KeptInv, QuestionInv, MeantInv, Receive \/ Serve \/ Execute
    PROVE  MeantInv'
<1> SUFFICES ASSUME Calm', NoLineLost' PROVE HandledMeant' /\ NextMeant'
  BY DEF MeantInv
<1>1. UNCHANGED <<ui, line, keyboard, seen, fate>>
  BY DEF Receive, Serve, Execute, interface, user
<1>2. NoLineLost
  BY <1>1 DEF NoLineLost
<1>3. CASE Receive \/ Serve
  <2>1. state' = state
    BY <1>3 DEF Receive, Serve
  <2> QED
    BY <1>1, <1>2, <1>3, <2>1, ReceiveQuestion, ServeQuestion, MeantLeft
<1>4. CASE Execute
  <2>1. /\ Calm /\ (Past' <=> Past)
        /\ state' = state \/ (state = "Connecting" /\ ui \notin Handling) \/ Past
    BY <1>4, ExecuteQuestion
  <2>2. CASE state' = state
    BY <1>1, <1>2, <2>1, <2>2, MeantLeft
  <2>3. CASE Past
    <3>1. ui \notin Handling
      BY <2>1, <2>3 DEF QuestionInv, OneQuestion, Quiet, Handling
    <3> QED
      BY <1>1, <2>1, <2>3, <3>1 DEF HandledMeant, NextMeant
  <2>4. CASE state = "Connecting" /\ ui \notin Handling /\ ~Past
    <3>1. LineInv
      BY <2>1 DEF QuestionInv
    <3>2. \A s : Fits(s) => s = "Connecting"
      BY <2>4 DEF Fits
    <3>3. line.text = "blank" /\ \A n \in DOMAIN keyboard : keyboard[n].text = "blank"
      BY <3>1, <3>2 DEF LineInv, Typed
    <3>4. seen = "Connecting"
      BY <2>4, <3>1, <3>2 DEF LineInv
    <3>5. Len(keyboard) = 1 => keyboard[1].text = "blank"
      BY <3>3, LenProperties DEF KeptInv, TypeInv, UserTypes
    <3> QED
      BY <1>1, <2>4, <3>3, <3>4, <3>5 DEF HandledMeant, NextMeant
  <2> QED
    BY <2>1, <2>2, <2>3, <2>4
<1> QED
  BY <1>3, <1>4

LEMMA PumpInputMeant == ASSUME KeptInv, QuestionInv, MeantInv, PumpInput PROVE MeantInv'
<1> SUFFICES ASSUME Calm', NoLineLost' PROVE HandledMeant' /\ NextMeant'
  BY DEF MeantInv
<1>1. /\ ui = "pump" /\ keyboard # <<>> /\ line' = Head(keyboard) /\ keyboard' = Tail(keyboard)
      /\ Done(line, "overwritten") /\ UNCHANGED <<state, ui, seen>>
  BY DEF PumpInput, user
<1>2. Calm /\ (Past' <=> Past)
  BY PumpInputQuestion
<1>3. NoLineLost /\ line = NoLine
  BY <1>1, DoneLost DEF Losses
<1>4. NextMeant
  BY <1>2, <1>3 DEF MeantInv
<1>5. line' = keyboard[1] /\ 1 \in DOMAIN keyboard /\ Drops(keyboard, keyboard')
  BY <1>1, HeadDrops DEF KeptInv, TypeInv, UserTypes
<1>6. keyboard' = <<>> => Len(keyboard) = 1
  BY <1>5 DEF Drops
<1>7. line' # NoLine
  <2>1. keyboard[1].number > 0
    <3>1. keyboard[1].number = (typed - Len(keyboard)) + 1 /\ Len(keyboard) <= typed
      BY <1>5 DEF KeptInv, TypeInv, NumberInv
    <3>2. typed \in Nat /\ Len(keyboard) \in Nat
      BY <1>5 DEF Drops, KeptInv, TypeInv, UserTypes
    <3> QED
      BY <3>1, <3>2
  <2> QED
    BY <1>5, <2>1, NoLineFields
<1>8. NextMeant'
  <2> SUFFICES ASSUME ~Past', keyboard' = <<>>
               PROVE  /\ line'.text # "blank" => line'.meant = state'
                      /\ seen' \in {"Connecting", Then(state', line')}
    BY <1>1, <1>7 DEF NextMeant, Then
  <2>1. /\ keyboard[1].text # "blank" => keyboard[1].meant = state
        /\ seen \in {"Connecting", Then(state, keyboard[1])}
    BY <1>1, <1>2, <1>3, <1>4, <1>6 DEF NextMeant
  <2> QED
    BY <1>1, <1>5, <2>1
<1> QED
  BY <1>1, <1>8 DEF HandledMeant, Handling

LEMMA PumpInputReturnsMeant ==
    ASSUME KeptInv, QuestionInv, MeantInv, PumpInputReturns PROVE MeantInv'
<1> SUFFICES ASSUME Calm', NoLineLost' PROVE HandledMeant' /\ NextMeant'
  BY DEF MeantInv
<1>1. /\ ui = "pump" /\ keyboard = <<>>
      /\ \/ line.text = "blank" /\ line' = NoLine /\ ui' = "drain" /\ Done(line, "blank")
         \/ line.text # "blank" /\ ui' = "handle" /\ UNCHANGED <<line, fate>>
      /\ UNCHANGED <<state, keyboard, seen>>
  BY DEF PumpInputReturns, Finish, user
<1>2. Calm /\ (Past' <=> Past)
  BY PumpInputReturnsQuestion
<1>3. NoLineLost
  BY <1>1, DoneLost DEF NoLineLost
<1>4. NextMeant /\ OneQuestion /\ LineInv
  BY <1>2, <1>3 DEF MeantInv, QuestionInv
<1>5. Len(keyboard') # 1
  BY <1>1
<1>6. CASE line.text = "blank" /\ line' = NoLine /\ ui' = "drain"
  <2>1. Then(state, line) = state /\ Then(state, NoLine) = state
    BY <1>6, NoLineFields, ThenStays
  <2>2. NextMeant'
    BY <1>1, <1>2, <1>4, <1>5, <1>6, <2>1, NoLineFields DEF NextMeant
  <2> QED
    BY <1>6, <2>2 DEF HandledMeant, Handling
<1>7. CASE line.text # "blank" /\ ui' = "handle" /\ UNCHANGED <<line, fate>>
  <2>1. ~Past /\ seen # "Connecting"
    BY <1>4, <1>7 DEF LineInv, Typed
  <2>2. line.meant = state /\ seen = Then(state, line)
    BY <1>1, <1>4, <1>7, <2>1 DEF NextMeant
  <2>3. Then(state, line)' = Then(state, line)
    BY <1>1, <1>7 DEF Then
  <2>4. HandledMeant'
    BY <1>1, <1>5, <1>7, <2>2, <2>3 DEF HandledMeant
  <2> QED
    BY <1>7, <2>4 DEF NextMeant
<1> QED
  BY <1>1, <1>6, <1>7

\* After a line that was handled, the next one is meant for what it left.
LEMMA HandledNext ==
    ASSUME HandledMeant, ui \in Handling, ui' = "drain", line' = NoLine,
           UNCHANGED <<keyboard, seen>>, state' = Then(state, line)
    PROVE  HandledMeant' /\ NextMeant'
<1>1. /\ keyboard = <<>> => seen = Then(state, line)
      /\ Len(keyboard) = 1 =>
            /\ keyboard[1].text # "blank" => keyboard[1].meant = Then(state, line)
            /\ seen = Then(Then(state, line), keyboard[1])
  BY DEF HandledMeant
<1>2. \A s : Then(s, NoLine) = s
  BY NoLineFields, ThenStays
<1>3. Then(state', NoLine) = state'
  BY <1>2
<1>4. NextMeant'
  BY <1>1, <1>3, NoLineFields DEF NextMeant
<1> QED
  BY <1>4 DEF HandledMeant, Handling

\* From one place to the next with a line.
LEMMA HandledOn ==
    ASSUME HandledMeant, ui \in Handling, ui' \in Handling, UNCHANGED <<state, line, keyboard, seen>>
    PROVE  HandledMeant' /\ NextMeant'
BY DEF HandledMeant, NextMeant, Handling, Then

LEMMA HandleInputLineMeant ==
    ASSUME KeptInv, QuestionInv, MeantInv, HandleInputLine PROVE MeantInv'
<1> SUFFICES ASSUME Calm', NoLineLost' PROVE HandledMeant' /\ NextMeant'
  BY DEF MeantInv
<1>1. PICK c : c = CommandIn(state, line.text)
  OBVIOUS
<1>2. /\ ui = "handle"
      /\ \/ c = "none" /\ line' = NoLine /\ ui' = "drain" /\ Done(line, "explained")
         \/ ui' = "acquire" /\ UNCHANGED <<line, fate>>
      /\ UNCHANGED <<state, keyboard, seen>>
  BY <1>1 DEF HandleInputLine, Finish, user
<1>3. Calm
  BY HandleInputLineQuestion
<1>4. NoLineLost
  BY <1>2, DoneLost DEF NoLineLost
<1>5. HandledMeant
  BY <1>3, <1>4 DEF MeantInv
<1>6. CASE c = "none" /\ line' = NoLine /\ ui' = "drain"
  <2>1. Then(state, line) = state
    BY <1>1, <1>6 DEF Then
  <2> QED
    BY <1>2, <1>5, <1>6, <2>1, HandledNext DEF Handling
<1>7. CASE ui' = "acquire" /\ UNCHANGED <<line, fate>>
  BY <1>2, <1>5, <1>7, HandledOn DEF Handling
<1> QED
  BY <1>2, <1>6, <1>7

LEMMA AcquireSessionMeant ==
    ASSUME KeptInv, QuestionInv, MeantInv, AcquireSession PROVE MeantInv'
<1> SUFFICES ASSUME Calm', NoLineLost' PROVE HandledMeant' /\ NextMeant'
  BY DEF MeantInv
<1>1. /\ ui = "acquire"
      /\ \/ \E how \in {"disconnected", "noSession"} : Done(line, how)
         \/ ui' = "send" /\ UNCHANGED <<line, fate>>
      /\ UNCHANGED <<state, keyboard, seen>>
  BY DEF AcquireSession, Finish, user
<1>2. Calm
  BY AcquireSessionQuestion
<1>3. line # NoLine
  BY <1>1, NoLineFields DEF KeptInv, TypeInv, ThreadInv, Handling
<1>4. ui' = "send" /\ UNCHANGED <<line, fate>>
  BY <1>1, <1>3, DoneLost DEF Losses
<1>5. NoLineLost
  BY <1>4 DEF NoLineLost
<1>6. HandledMeant
  BY <1>2, <1>5 DEF MeantInv
<1> QED
  BY <1>1, <1>4, <1>6, HandledOn DEF Handling

LEMMA SendMeant == ASSUME KeptInv, QuestionInv, MeantInv, Send PROVE MeantInv'
<1> SUFFICES ASSUME Calm', NoLineLost' PROVE HandledMeant' /\ NextMeant'
  BY DEF MeantInv
<1>1. /\ ui = "send" /\ link = "up"
      /\ \/ command = "leaveRoom" /\ ui' = "leave" /\ UNCHANGED <<line, command, fate>>
         \/ command # "leaveRoom" /\ line' = NoLine /\ ui' = "drain" /\ Done(line, "sent")
      /\ UNCHANGED <<state, keyboard, seen>>
  BY DEF Send, Finish, Calm, user
<1>2. Calm
  BY SendQuestion
<1>3. NoLineLost
  BY <1>1, DoneLost DEF NoLineLost
<1>4. HandledMeant /\ LineInv
  BY <1>2, <1>3 DEF MeantInv, QuestionInv
<1>5. CASE command = "leaveRoom" /\ ui' = "leave" /\ UNCHANGED <<line, command, fate>>
  BY <1>1, <1>4, <1>5, HandledOn DEF Handling
<1>6. CASE command # "leaveRoom" /\ line' = NoLine /\ ui' = "drain"
  <2>1. command = CommandIn(state, line.text)
    BY <1>1, <1>4 DEF LineInv
  <2>2. Then(state, line) = state
    BY <1>6, <2>1, ThenStays
  <2> QED
    BY <1>1, <1>4, <1>6, <2>2, HandledNext DEF Handling
<1> QED
  BY <1>1, <1>5, <1>6

LEMMA LeaveRoomMeant == ASSUME KeptInv, QuestionInv, MeantInv, LeaveRoom PROVE MeantInv'
<1> SUFFICES ASSUME Calm', NoLineLost' PROVE HandledMeant' /\ NextMeant'
  BY DEF MeantInv
<1>1. /\ ui = "leave" /\ state' = "Lobby" /\ line' = NoLine /\ ui' = "drain"
      /\ Done(line, IF link = "up" THEN "sent" ELSE "disconnected")
      /\ UNCHANGED <<keyboard, seen>>
  BY DEF LeaveRoom, Finish, user
<1>2. Calm
  BY LeaveRoomQuestion
<1>3. NoLineLost
  BY <1>1, DoneLost
<1>4. HandledMeant /\ LineInv
  BY <1>2, <1>3 DEF MeantInv, QuestionInv
<1>5. CommandIn(state, line.text) = "leaveRoom"
  BY <1>1, <1>4 DEF LineInv
<1>6. state' = Then(state, line)
  BY <1>1, <1>5, ThenStays
<1> QED
  BY <1>1, <1>4, <1>6, HandledNext DEF Handling

LEMMA DrainLogsMeant == ASSUME KeptInv, QuestionInv, MeantInv, DrainLogs PROVE MeantInv'
<1> SUFFICES ASSUME Calm', NoLineLost' PROVE HandledMeant' /\ NextMeant'
  BY DEF MeantInv
<1>1. /\ ui = "drain" /\ ui' = "pump" /\ UNCHANGED <<state, line, keyboard, fate>>
  BY DEF DrainLogs
<1>2. Calm /\ (Past' <=> Past /\ ~InLog)
  BY DrainLogsQuestion
<1>3. NoLineLost
  BY <1>1 DEF NoLineLost
<1>4. NextMeant /\ OneQuestion /\ line = NoLine
  BY <1>1, <1>2, <1>3 DEF MeantInv, QuestionInv, KeptInv, TypeInv, ThreadInv
<1>5. \/ seen' = seen /\ ~InLog
      \/ seen' = state /\ InLog
      \/ seen' = "WaitingNickname" /\ (state = "WaitingNickname" \/ InTodo)
  BY <1>2, DrainTells
<1>6. \A s : Then(s, NoLine) = s
  BY NoLineFields, ThenStays
<1>7. ASSUME ~Past'
      PROVE  /\ keyboard = <<>> => seen' \in {"Connecting", state}
             /\ Len(keyboard) = 1 =>
                   /\ keyboard[1].text # "blank" => keyboard[1].meant = state
                   /\ seen' \in {"Connecting", Then(state, keyboard[1])}
  <2>1. CASE InLog
    <3>1. Past /\ ~InTodo
      BY <1>4, <2>1 DEF OneQuestion, Past
    <3>2. \A n \in DOMAIN keyboard : keyboard[n].text = "blank"
      BY <1>4, <3>1 DEF OneQuestion, Quiet
    <3>3. Len(keyboard) = 1 => keyboard[1].text = "blank" /\ Then(state, keyboard[1]) = state
      BY <3>2, LenProperties, ThenStays DEF KeptInv, TypeInv, UserTypes
    <3>4. seen' = state
      BY <1>5, <2>1, <3>1
    <3> QED
      BY <3>3, <3>4
  <2>2. CASE ~InLog
    <3>1. ~Past /\ ~InTodo
      BY <1>2, <1>7, <2>2 DEF Past
    <3>2. /\ keyboard = <<>> => seen \in {"Connecting", state}
          /\ Len(keyboard) = 1 =>
                /\ keyboard[1].text # "blank" => keyboard[1].meant = state
                /\ seen \in {"Connecting", Then(state, keyboard[1])}
      BY <1>1, <1>4, <1>6, <3>1 DEF NextMeant
    <3>3. seen' = seen \/ (seen' = state /\ state = "WaitingNickname")
      BY <1>5, <2>2, <3>1
    <3>4. state = "WaitingNickname" => Then(state, keyboard[1]) = state
      BY ThenStays
    <3> QED
      BY <3>2, <3>3, <3>4
  <2> QED
    BY <2>1, <2>2
<1>8. NextMeant'
  <2>1. line' = NoLine /\ line'.text = "blank" /\ Then(state, line) = state
    BY <1>1, <1>4, <1>6, NoLineFields
  <2> QED
    BY <1>1, <1>4, <1>7, <2>1 DEF NextMeant, Then
<1> QED
  BY <1>1, <1>8 DEF HandledMeant, Handling

LEMMA TypeMeant == ASSUME KeptInv, QuestionInv, MeantInv, NEW text \in Texts, Type(text) PROVE MeantInv'
<1> SUFFICES ASSUME Calm', NoLineLost' PROVE HandledMeant' /\ NextMeant'
  BY DEF MeantInv
<1>1. PICK new : new = [number |-> typed + 1, text |-> text, meant |-> seen]
  OBVIOUS
<1>2. /\ keyboard' = Append(keyboard, new) /\ fate' = Append(fate, "typed")
      /\ hasty' = (hasty \/ (text # "blank" /\ (asked \/ seen = "Connecting")))
      /\ seen' = IF CommandIn(seen, text) = "leaveRoom" THEN "Lobby" ELSE seen
      /\ UNCHANGED <<state, ui, line>>
  BY <1>1 DEF Type, interface
<1>3. new \in Line /\ new.text = text /\ new.meant = seen
  BY <1>1 DEF KeptInv, TypeInv, UserTypes, Line, AllTexts
<1>4. Appends(keyboard, keyboard', new)
  BY <1>2, <1>3, LastAppends DEF KeptInv, TypeInv, UserTypes
<1>5. Appends(fate, fate', "typed")
  BY <1>2, LastAppends DEF KeptInv, TypeInv, UserTypes, Fates
<1>6. NoLineLost
  BY <1>5 DEF NoLineLost, Appends
<1>7. Calm /\ (Past' <=> Past)
  BY TypeQuestion
<1>8. HandledMeant /\ NextMeant
  BY <1>6, <1>7 DEF MeantInv
<1>9. text # "blank" => seen # "Connecting"
  BY <1>2 DEF Calm
<1>10. seen' = Then(seen, new)
  BY <1>2, <1>3 DEF Then
<1>11. keyboard' # <<>> /\ (Len(keyboard') = 1 => keyboard = <<>> /\ keyboard'[1] = new)
  <2>1. keyboard' # <<>>
    <3>1. Len(keyboard') > 0
      BY <1>4 DEF Appends
    <3> QED
      BY <3>1
  <2>2. ASSUME Len(keyboard') = 1 PROVE keyboard = <<>> /\ keyboard'[1] = new
    <3>0. Len(keyboard) \in Nat /\ Len(keyboard') = Len(keyboard) + 1
      BY <1>4 DEF Appends
    <3>1. Len(keyboard) = 0
      BY <2>2, <3>0
    <3>2. keyboard'[Len(keyboard')] = new
      BY <1>4 DEF Appends
    <3>3. keyboard'[1] = new
      BY <2>2, <3>2
    <3> QED
      BY <3>1, <3>3, EmptySeq DEF KeptInv, TypeInv, UserTypes
  <2> QED
    BY <2>1, <2>2
<1>12. HandledMeant'
  <2> SUFFICES ASSUME ui \in Handling
               PROVE  /\ line.meant = state
                      /\ Len(keyboard') = 1 =>
                            /\ new.text # "blank" => new.meant = Then(state, line)
                            /\ seen' = Then(Then(state, line), new)
    <3>1. /\ line'.meant = state'
          /\ Len(keyboard') = 1 =>
                /\ keyboard'[1].text # "blank" => keyboard'[1].meant = Then(state', line')
                /\ seen' = Then(Then(state', line'), keyboard'[1])
          => HandledMeant'
      BY <1>11 DEF HandledMeant, Then
    <3> QED
      BY <1>2, <1>11, <3>1 DEF HandledMeant
  <2>1. line.meant = state /\ (keyboard = <<>> => seen = Then(state, line))
    BY <1>8 DEF HandledMeant
  <2> QED
    BY <1>3, <1>10, <1>11, <2>1
<1>13. NextMeant'
  <2> SUFFICES ASSUME ui \in {"pump", "drain"}, ~Past, line = NoLine, Len(keyboard') = 1
               PROVE  /\ new.text # "blank" => new.meant = state
                      /\ seen' \in {"Connecting", Then(state, new)}
    <3>1. (ui' \in {"pump", "drain"} /\ ~Past' /\ line' = NoLine /\ Len(keyboard') = 1 =>
              /\ keyboard'[1].text # "blank" => keyboard'[1].meant = state'
              /\ seen' \in {"Connecting", Then(state', keyboard'[1])})
          => NextMeant'
      BY <1>11 DEF NextMeant, Then
    <3> QED
      BY <1>2, <1>7, <1>11, <3>1
  <2>1. Then(state, line) = state
    BY NoLineFields, ThenStays
  <2>2. seen \in {"Connecting", state}
    BY <1>8, <1>11, <2>1 DEF NextMeant
  <2>3. seen = "Connecting" => seen' = "Connecting"
    BY <1>10, ThenStays
  <2> QED
    BY <1>3, <1>9, <1>10, <2>2, <2>3
<1> QED
  BY <1>12, <1>13

LEMMA InitMeant == Init => MeantInv
<1> SUFFICES ASSUME Init PROVE HandledMeant /\ NextMeant
  BY DEF MeantInv
<1>1. ui = "pump" /\ line.text = "blank" /\ seen = "Connecting" /\ keyboard = <<>> /\ Len(keyboard) # 1
  BY NoLineFields DEF Init
<1> QED
  BY <1>1 DEF HandledMeant, NextMeant, Handling

LEMMA NextIsMeant ==
    ASSUME KeptInv, QuestionInv, MeantInv, [Next]_vars
    PROVE  MeantInv'
<1>1. CASE UNCHANGED vars
  <2>1. /\ UNCHANGED <<state, todo, logQ, ui, line, link, c2s, s2c>>
        /\ UNCHANGED <<keyboard, seen, hasty, fate>>
    BY <1>1 DEF vars, interface, network, user
  <2>2. Past' <=> Past
    BY <2>1 DEF Past, InC2s, InS2c, InTodo, InLog
  <2>3. Calm' /\ NoLineLost' => Calm /\ NoLineLost
    BY <2>1 DEF Calm, NoLineLost
  <2> QED
    BY <2>1, <2>2, <2>3, MeantLeft DEF MeantInv
<1>2. CASE Disconnected
  BY <1>2 DEF Disconnected, MeantInv, Calm
<1>3. CASE Next /\ ~Disconnected
  BY <1>3, WorkerMeant, PumpInputMeant, PumpInputReturnsMeant, HandleInputLineMeant,
     AcquireSessionMeant, SendMeant, LeaveRoomMeant, DrainLogsMeant, TypeMeant
     DEF Next, Worker, Interface
<1> QED
  BY <1>1, <1>2, <1>3

ClientInv == KeptInv /\ QuestionInv /\ MeantInv

\* The inductive invariant: where the lines are, the question of a user who waits,
\* and what the next line is meant for.
THEOREM ClientInvariance == Spec => []ClientInv
<1>1. Init => ClientInv
  BY InitKept, InitQuestion, InitMeant DEF ClientInv
<1>2. ClientInv /\ [Next]_vars => ClientInv'
  BY NextKept, NextQuestion, NextIsMeant DEF ClientInv
<1> QED
  BY <1>1, <1>2, PTL DEF Spec

\* A line is handled, and its packet sent, in the state that the user had on the
\* screen, as long as the user waits for answers and no line is lost.
THEOREM LinesHandledAsMeant == Spec => []HandledAsMeant
<1>1. ClientInv => HandledAsMeant
  BY DEF ClientInv, MeantInv, HandledMeant, HandledAsMeant, Calm, Handling
<1> QED
  BY <1>1, ClientInvariance, PTL

-----------------------------------------------------------------------------
(* Client implements ChatClient *)

\* The statements that set the state; a handler has one at most.
Sets == {SetState(s) : s \in States}
SetsOnce == Once(todo, Sets)

LEMMA StepSets ==
    ASSUME NEW step \in Steps
    PROVE  /\ step.do = "setState" <=> step \in Sets
           /\ step \in Sets => step.to \in States /\ step = SetState(step.to)
           /\ \A s \in States : step = SetState(s) => step.to = s /\ step \in Sets
           /\ \A w : step = Log(w) => step \notin Sets
           /\ \A f : step = Write(f) => step \notin Sets
           /\ step = SetSession => step \notin Sets
BY StepFields DEF Sets

\* The state after a handler's statements.
ModeAfter(h, s) ==
    LET coming == {h[n].to : n \in {m \in DOMAIN h : h[m].do = "setState"}}
    IN  IF coming = {} THEN s ELSE CHOOSE r \in coming : TRUE

LEMMA ModeIs ==
    ASSUME NEW h \in Seq(Steps), Once(h, Sets), NEW s
    PROVE  /\ ~Has(h, Sets) => ModeAfter(h, s) = s
           /\ \A r \in States : Has(h, {SetState(r)}) => ModeAfter(h, s) = r
<1> DEFINE coming == {h[n].to : n \in {m \in DOMAIN h : h[m].do = "setState"}}
<1>1. \A n \in DOMAIN h : h[n] \in Steps
  BY ElementOfSeq, LenProperties
<1>2. /\ coming = {} => ModeAfter(h, s) = s
      /\ \A r : coming = {r} => ModeAfter(h, s) = r
  <2>1. ModeAfter(h, s) = IF coming = {} THEN s ELSE CHOOSE r \in coming : TRUE
    BY DEF ModeAfter
  <2>2. ASSUME NEW r, coming = {r} PROVE ModeAfter(h, s) = r
    <3>1. coming # {} /\ \E q \in coming : TRUE
      BY <2>2
    <3>2. (CHOOSE q \in coming : TRUE) \in coming
      BY <3>1
    <3> HIDE DEF coming
    <3> QED
      BY <2>1, <2>2, <3>1, <3>2
  <2> HIDE DEF coming
  <2> QED
    BY <2>1, <2>2
<1>3. ASSUME ~Has(h, Sets) PROVE coming = {}
  BY <1>1, <1>3, StepSets DEF Has
<1>4. ASSUME NEW r \in States, Has(h, {SetState(r)}) PROVE coming = {r}
  <2>1. PICK n \in DOMAIN h : h[n] = SetState(r)
    BY <1>4 DEF Has
  <2>2. h[n] \in Sets /\ h[n].to = r /\ h[n].do = "setState"
    BY <1>1, <2>1, StepSets
  <2>3. \A m \in DOMAIN h : h[m].do = "setState" => m = n
    BY <1>1, <2>2, StepSets DEF Once
  <2> QED
    BY <2>2, <2>3
<1> HIDE DEF coming
<1> QED
  BY <1>2, <1>3, <1>4

\* How each packet's handler sets the state.
LEMMA HandlerSets ==
    ASSUME NEW packet \in Packets
    PROVE  /\ Handler(packet) \in Seq(Steps) /\ Once(Handler(packet), Sets)
           /\ packet \in {"prompt", "nameTaken"} => Has(Handler(packet), {SetState("WaitingNickname")})
           /\ packet = "nameFree" => Has(Handler(packet), {SetState("Lobby")})
           /\ packet = "enterOk" => Has(Handler(packet), {SetState("InRoom")})
           /\ packet \notin {"prompt", "nameTaken", "nameFree", "enterOk"} => ~Has(Handler(packet), Sets)
<1> DEFINE h == Handler(packet)
<1>1. h \in Seq(Steps) /\ \A n \in DOMAIN h : h[n] \in Steps
  BY Handlers, ElementOfSeq, LenProperties
<1>2. CASE packet = "prompt"
  <2>1. Prompts(h)
    BY <1>2, Handlers
  <2> HIDE DEF h
  <2>2. h[2] \notin Sets /\ h[3] \notin Sets /\ DOMAIN h = 1 .. 3 /\ h[1] = SetState("WaitingNickname")
    BY <1>1, <2>1, StepSets DEF Prompts
  <2>3. Once(h, Sets) /\ Has(h, {SetState("WaitingNickname")})
    BY <2>2 DEF Once, Has
  <2> QED
    BY <1>1, <1>2, <2>3 DEF h
<1>3. CASE packet = "nameTaken"
  <2>1. Refuses(h)
    BY <1>3, Handlers
  <2> HIDE DEF h
  <2>2. h[1] \notin Sets /\ DOMAIN h = 1 .. 2 /\ h[2] = SetState("WaitingNickname")
    BY <1>1, <2>1, StepSets DEF Refuses
  <2>3. Once(h, Sets) /\ Has(h, {SetState("WaitingNickname")})
    BY <2>2 DEF Once, Has
  <2> QED
    BY <1>1, <1>3, <2>3 DEF h
<1>4. CASE packet = "nameFree"
  <2>1. Names(h)
    BY <1>4, Handlers
  <2> HIDE DEF h
  <2>2. /\ h[1] \notin Sets /\ h[2] \notin Sets /\ h[3] \notin Sets /\ h[5] \notin Sets
        /\ DOMAIN h = 1 .. 5 /\ h[4] = SetState("Lobby")
    BY <1>1, <2>1, StepSets DEF Names
  <2>3. Once(h, Sets) /\ Has(h, {SetState("Lobby")})
    BY <2>2 DEF Once, Has
  <2> QED
    BY <1>1, <1>4, <2>3 DEF h
<1>5. CASE packet = "enterOk"
  <2>1. Enters(h)
    BY <1>5, Handlers
  <2> HIDE DEF h
  <2>2. /\ h[1] \notin Sets /\ h[2] \notin Sets /\ h[4] \notin Sets
        /\ DOMAIN h = 1 .. 4 /\ h[3] = SetState("InRoom")
    BY <1>1, <2>1, StepSets DEF Enters
  <2>3. Once(h, Sets) /\ Has(h, {SetState("InRoom")})
    BY <2>2 DEF Once, Has
  <2> QED
    BY <1>1, <1>5, <2>3 DEF h
<1>6. CASE packet \notin {"prompt", "nameTaken", "nameFree", "enterOk"}
  <2>1. Says(h, "enterFails") \/ Says(h, "other")
    BY <1>6, Handlers
  <2> HIDE DEF h
  <2>2. h[1] \notin Sets /\ DOMAIN h = {1}
    BY <1>1, <2>1, StepSets DEF Says
  <2>3. Once(h, Sets) /\ ~Has(h, Sets)
    BY <2>2 DEF Once, Has
  <2> QED
    BY <1>1, <1>6, <2>3 DEF h
<1> QED
  BY <1>2, <1>3, <1>4, <1>5, <1>6

\* A handler never has two statements that set the state.
LEMMA SetsInvariant == Spec => []SetsOnce
<1>1. Init => SetsOnce
  BY DEF Init, SetsOnce, Once
<1>2. KeptInv /\ SetsOnce /\ [Next]_vars => SetsOnce'
  <2> SUFFICES ASSUME KeptInv, SetsOnce, [Next]_vars PROVE SetsOnce'
    OBVIOUS
  <2>1. CASE todo' = todo
    BY <2>1 DEF SetsOnce, Once
  <2>2. CASE Receive
    <3>1. Head(s2c) \in Packets
      BY <2>2, HeadDrops DEF Receive, KeptInv, TypeInv, WorkerTypes
    <3> QED
      BY <2>2, <3>1, HandlerSets DEF Receive, SetsOnce
  <2>3. CASE Execute
    <3>1. Drops(todo, todo')
      BY <2>3, HeadDrops DEF Execute, KeptInv, TypeInv, WorkerTypes
    <3> QED
      BY <3>1, DropsHas DEF SetsOnce
  <2> QED
    BY <2>1, <2>2, <2>3 DEF Next, Worker, Disconnected, Serve, Interface, PumpInput,
       PumpInputReturns, HandleInputLine, AcquireSession, Send, LeaveRoom, DrainLogs, Type, vars
<1> QED
  BY <1>1, <1>2, LinesInvariant, PTL DEF Spec

\* While a line is being handled, no statement is left that would change the state
\* under it, and nothing is due.
LEMMA SendingMode ==
    ASSUME KeptInv, QuestionInv, SetsOnce, ~hasty, link = "up", ui \in {"send", "leave"}
    PROVE  /\ Mode = state /\ ~InC2s /\ ~InS2c
           /\ command = CommandIn(state, line.text) /\ line.text # "blank"
           /\ ui = "leave" => ~Has(todo, Sets) /\ command = "leaveRoom"
<1>1. OneQuestion /\ HandlerState /\ LineInv
  BY DEF QuestionInv, Calm
<1>2. ~Past /\ ~InTodo
  BY <1>1, LineAlone DEF Handling, Past
<1>3. /\ command = CommandIn(state, line.text) /\ line.text # "blank" /\ command # "none"
      /\ ui = "leave" => command = "leaveRoom"
  BY <1>1 DEF LineInv, KeptInv, TypeInv, ThreadInv, Handling
<1>4. todo \in Seq(Steps) /\ \A n \in DOMAIN todo : todo[n] \in Steps
  BY ElementOfSeq, LenProperties DEF KeptInv, TypeInv, WorkerTypes
<1>5. Mode = ModeAfter(todo, state)
  BY DEF Mode, Coming, ModeAfter
<1>6. ASSUME NEW n \in DOMAIN todo, NEW s \in States, todo[n] = SetState(s)
      PROVE  s = "WaitingNickname" /\ state \in {"Connecting", "WaitingNickname"}
  <2>1. \A m \in DOMAIN todo : todo[m] \notin {Log("lobby"), Log("inRoom")}
    BY <1>2, TellsWhat DEF InTodo, Has
  <2>2. StepState(n)
    BY <1>1 DEF HandlerState
  <2>3. s # "Lobby" /\ s # "InRoom" /\ s # "Connecting"
    BY <1>6, <2>1, <2>2 DEF StepState
  <2>4. s = "WaitingNickname"
    BY <2>3 DEF States
  <2> QED
    BY <1>6, <2>2, <2>4 DEF StepState
<1>7. state # "Connecting"
  BY <1>3 DEF CommandIn
<1>8. Mode = state
  <2>1. CASE Has(todo, Sets)
    <3>1. PICK n \in DOMAIN todo, s \in States : todo[n] = SetState(s)
      BY <2>1 DEF Has, Sets
    <3>2. s = state
      BY <1>6, <1>7, <3>1
    <3>3. Has(todo, {SetState(s)})
      BY <3>1 DEF Has
    <3> QED
      BY <1>4, <1>5, <3>2, <3>3, ModeIs DEF SetsOnce
  <2>2. CASE ~Has(todo, Sets)
    BY <1>4, <1>5, <2>2, ModeIs DEF SetsOnce
  <2> QED
    BY <2>1, <2>2
<1>9. ASSUME ui = "leave" PROVE ~Has(todo, Sets)
  <2>1. state = "InRoom"
    BY <1>3, <1>9 DEF CommandIn
  <2> QED
    BY <1>6, <2>1 DEF Has, Sets
<1> QED
  BY <1>2, <1>3, <1>8, <1>9 DEF Past

\* What is due, in the terms of OneQuestion.
LEMMA WaitingIs ==
    /\ Waiting <=> InC2s \/ InS2c
    /\ Waiting' <=> InC2s' \/ InS2c'
BY DEF Waiting, InC2s, InS2c, Has, Questions, AnswerPackets

LEMMA ModeIsAfter ==
    /\ Mode = ModeAfter(todo, state)
    /\ Mode' = ModeAfter(todo', state')
BY DEF Mode, Coming, ModeAfter

\* A packet that arrives has all of its effect at once.
LEMMA ReceiveMapped ==
    ASSUME KeptInv, QuestionInv, SetsOnce, Receive, ~hasty, link = "up"
    PROVE  Chat!Receive
<1> DEFINE packet == Head(s2c)
<1>1. /\ todo = <<>> /\ s2c # <<>> /\ todo' = Handler(packet) /\ s2c' = Tail(s2c)
      /\ c2s' = c2s /\ state' = state /\ ui' = ui
  BY DEF Receive, interface
<1>2. OneQuestion
  BY DEF QuestionInv, Calm
<1>3. packet \in Packets /\ packet = s2c[1] /\ Drops(s2c, s2c') /\ 1 \in DOMAIN s2c
  BY <1>1, HeadDrops DEF KeptInv, TypeInv, WorkerTypes
<1>4. Mode = state
  <2>1. ~Has(todo, Sets) /\ todo \in Seq(Steps)
    BY <1>1 DEF Has, KeptInv, TypeInv, WorkerTypes
  <2> QED
    BY <2>1, ModeIs, ModeIsAfter DEF SetsOnce
<1> HIDE DEF packet
<1>5. Mode' = Chat!NextMode(packet)
  <2> DEFINE h == Handler(packet)
  <2>1. /\ h \in Seq(Steps) /\ Once(h, Sets)
        /\ packet \in {"prompt", "nameTaken"} => Has(h, {SetState("WaitingNickname")})
        /\ packet = "nameFree" => Has(h, {SetState("Lobby")})
        /\ packet = "enterOk" => Has(h, {SetState("InRoom")})
        /\ packet \notin {"prompt", "nameTaken", "nameFree", "enterOk"} => ~Has(h, Sets)
    BY <1>3, HandlerSets
  <2>2. Mode' = ModeAfter(h, state)
    BY <1>1, ModeIsAfter
  <2> HIDE DEF h
  <2>3. CASE packet \in {"prompt", "nameTaken"}
    BY <2>1, <2>2, <2>3, ModeIs DEF Chat!NextMode, States
  <2>4. CASE packet = "nameFree"
    BY <2>1, <2>2, <2>4, ModeIs DEF Chat!NextMode, States
  <2>5. CASE packet = "enterOk"
    BY <2>1, <2>2, <2>5, ModeIs DEF Chat!NextMode, States
  <2>6. CASE packet \notin {"prompt", "nameTaken", "nameFree", "enterOk"}
    BY <1>4, <2>1, <2>2, <2>6, ModeIs DEF Chat!NextMode
  <2> QED
    BY <2>3, <2>4, <2>5, <2>6
<1>6. Waiting' <=> (Waiting /\ packet \notin AnswerPackets)
  <2>1. InC2s' <=> InC2s
    BY <1>1 DEF InC2s
  <2>2. /\ InS2c <=> packet \in AnswerPackets \/ InS2c'
        /\ packet \in AnswerPackets => ~InS2c' /\ ~InC2s
    BY <1>2, <1>3, DropsHas DEF InS2c, OneQuestion
  <2> QED
    BY <2>1, <2>2, WaitingIs
<1>7. Waiting' = (Waiting /\ packet \notin {"nameTaken", "nameFree", "enterOk", "enterFails"})
  BY <1>6 DEF AnswerPackets, Waiting
<1> QED
  BY <1>1, <1>5, <1>7 DEF Chat!Receive, packet

\* Executing the statements of a handler is part of receiving its packet.
LEMMA ExecuteMapped ==
    ASSUME KeptInv, SetsOnce, Execute
    PROVE  UNCHANGED Chat!chat
<1>1. /\ todo # <<>> /\ todo' = Tail(todo)
      /\ state' = IF Head(todo).do = "setState" THEN Head(todo).to ELSE state
      /\ c2s' = c2s /\ s2c' = s2c /\ ui' = ui
  BY DEF Execute, interface, network
<1>2. /\ Drops(todo, todo') /\ 1 \in DOMAIN todo /\ Head(todo) = todo[1]
      /\ todo \in Seq(Steps) /\ todo' \in Seq(Steps) /\ todo[1] \in Steps
  BY <1>1, HeadDrops DEF KeptInv, TypeInv, WorkerTypes
<1>3. Once(todo', Sets) /\ (todo[1] \in Sets => ~Has(todo', Sets))
  BY <1>2, DropsHas DEF SetsOnce
<1>4. Mode' = Mode
  <2>1. CASE todo[1] \in Sets
    <3>1. todo[1].do = "setState" /\ todo[1].to \in States /\ todo[1] = SetState(todo[1].to)
      BY <1>2, <2>1, StepSets
    <3>2. state' = todo[1].to
      BY <1>1, <1>2, <3>1
    <3>3. Mode' = todo[1].to
      BY <1>2, <1>3, <2>1, <3>2, ModeIs, ModeIsAfter
    <3>4. Has(todo, {SetState(todo[1].to)})
      BY <1>2, <3>1 DEF Has
    <3>5. Mode = todo[1].to
      BY <1>2, <3>1, <3>4, ModeIs, ModeIsAfter DEF SetsOnce
    <3> QED
      BY <3>3, <3>5
  <2>2. CASE todo[1] \notin Sets
    <3>1. state' = state
      BY <1>1, <1>2, <2>2, StepSets
    <3>2. CASE Has(todo', Sets)
      <4>1. PICK s \in States : Has(todo', {SetState(s)})
        BY <3>2 DEF Has, Sets
      <4>2. Has(todo, {SetState(s)})
        BY <1>2, <4>1, DropsHas
      <4> QED
        BY <1>2, <1>3, <4>1, <4>2, ModeIs, ModeIsAfter DEF SetsOnce
    <3>3. CASE ~Has(todo', Sets)
      <4>1. ~Has(todo, Sets)
        BY <1>2, <2>2, <3>3, DropsHas
      <4> QED
        BY <1>2, <1>3, <3>1, <3>3, <4>1, ModeIs, ModeIsAfter DEF SetsOnce
    <3> QED
      BY <3>2, <3>3
  <2> QED
    BY <2>1, <2>2
<1>5. Waiting' = Waiting
  BY <1>1 DEF Waiting
<1> QED
  BY <1>1, <1>4, <1>5 DEF Chat!chat

\* The server's answers make nothing due that was not.
LEMMA ServeMapped ==
    ASSUME KeptInv, Serve
    PROVE  Chat!Serve
<1>1. /\ c2s # <<>> /\ c2s' = Tail(c2s)
      /\ state' = state /\ todo' = todo /\ ui' = ui
  BY DEF Serve, interface
<1>2. PICK answers \in Answers(Head(c2s)) : s2c' = s2c \o answers
  BY DEF Serve
<1>3. Head(c2s) \in Commands /\ Head(c2s) = c2s[1] /\ Drops(c2s, c2s')
  BY <1>1, HeadDrops DEF KeptInv, TypeInv, WorkerTypes
<1>4. /\ answers \in Seq(Packets)
      /\ c2s[1] \in Questions <=> Has(answers, AnswerPackets)
  <2>1. CASE c2s[1] = "setNickname"
    BY <1>2, <1>3, <2>1, AnswersOf DEF Has, Questions, AnswerPackets
  <2>2. CASE c2s[1] = "joinRoom"
    BY <1>2, <1>3, <2>2, AnswersOf DEF Has, Questions, AnswerPackets
  <2>3. CASE c2s[1] \notin Questions
    BY <1>2, <1>3, <2>3, AnswersOf DEF Has
  <2> QED
    BY <2>1, <2>2, <2>3 DEF Questions
<1>5. Extends(s2c, s2c', answers)
  BY <1>2, <1>4, ConcatExtends DEF KeptInv, TypeInv, WorkerTypes
<1>6. /\ InC2s <=> c2s[1] \in Questions \/ InC2s'
      /\ InS2c' <=> InS2c \/ Has(answers, AnswerPackets)
  BY <1>3, <1>5, DropsHas, ExtendsHas DEF InC2s, InS2c
<1>7. Waiting' <=> Waiting
  BY <1>4, <1>6, WaitingIs
<1>8. Waiting' = Waiting
  BY <1>7 DEF Waiting
<1>9. Mode' = Mode
  BY <1>1, ModeIsAfter
<1> QED
  BY <1>1, <1>2, <1>8, <1>9 DEF Chat!Serve

\* A packet is sent in the state that it was chosen in.
LEMMA SendMapped ==
    ASSUME KeptInv, QuestionInv, SetsOnce, Send, ~hasty, link = "up"
    PROVE  Chat!Line
<1>1. /\ ui = "send" /\ c2s' = Append(c2s, command) /\ s2c' = s2c
      /\ state' = state /\ todo' = todo
      /\ \/ command = "leaveRoom" /\ ui' = "leave"
         \/ command # "leaveRoom" /\ ui' = "drain"
  BY DEF Send, Finish
<1>2. /\ Mode = state /\ ~InC2s /\ ~InS2c
      /\ command = CommandIn(state, line.text) /\ line.text # "blank"
  BY <1>1, SendingMode
<1>3. state \in States /\ command \in Commands
  BY <1>1 DEF KeptInv, TypeInv, WorkerTypes, ThreadInv
<1>4. command \in Chat!Requests[Mode]
  BY <1>2, <1>3 DEF CommandIn, Chat!Requests, States, Commands
<1>5. Appends(c2s, c2s', command)
  BY <1>1, <1>3, LastAppends DEF KeptInv, TypeInv, WorkerTypes
<1>6. /\ InC2s' <=> command \in Questions
      /\ ~InS2c'
  BY <1>1, <1>2, <1>5, AppendsHas DEF InC2s, InS2c
<1>7. ~Waiting /\ (Waiting' <=> command \in Questions)
  BY <1>2, <1>6, WaitingIs
<1>8. Waiting' = (command \in {"setNickname", "joinRoom"})
  <2>1. Waiting' \in BOOLEAN
    BY DEF Waiting
  <2>2. Waiting' <=> command \in {"setNickname", "joinRoom"}
    BY <1>7 DEF Questions
  <2> QED
    BY ONLY <2>1, <2>2, Zenon
<1>9. Mode' = Mode
  BY <1>1, ModeIsAfter
<1>10. (ui' = "leave") = (command = "leaveRoom")
  BY <1>1
<1> QED
  BY <1>1, <1>4, <1>7, <1>8, <1>9, <1>10 DEF Chat!Line

\* The lobby is entered after the packet was sent.
LEMMA LeaveRoomMapped ==
    ASSUME KeptInv, QuestionInv, SetsOnce, LeaveRoom, ~hasty, link = "up"
    PROVE  Chat!BackToLobby
<1>1. /\ ui = "leave" /\ ui' = "drain" /\ state' = "Lobby" /\ todo' = todo
      /\ c2s' = c2s /\ s2c' = s2c
  BY DEF LeaveRoom, Finish, network
<1>2. ~Has(todo, Sets) /\ todo \in Seq(Steps)
  BY <1>1, SendingMode DEF KeptInv, TypeInv, WorkerTypes
<1>3. Mode' = "Lobby"
  BY <1>1, <1>2, ModeIs, ModeIsAfter DEF SetsOnce
<1>4. Waiting' = Waiting
  BY <1>1 DEF Waiting
<1> QED
  BY <1>1, <1>3, <1>4 DEF Chat!BackToLobby

\* All else that the threads and the user do is not seen by the server.
LEMMA OthersMapped ==
    ASSUME UNCHANGED <<state, todo, c2s, s2c>>, ui # "leave", ui' # "leave"
    PROVE  UNCHANGED Chat!chat
<1>1. Mode' = Mode
  BY ModeIsAfter
<1>2. Waiting' = Waiting
  BY DEF Waiting
<1> QED
  BY <1>1, <1>2 DEF Chat!chat

\* As long as the user waits for answers and the connection lasts, a client whose
\* threads are anywhere in their handlers behaves as ChatServer's, which handles a
\* line or a packet in one step.
THEOREM Refinement == Spec => ImplementsChatClient
<1>1. Init => Chat!ChatInit
  <2> SUFFICES ASSUME Init PROVE Chat!ChatInit
    OBVIOUS
  <2>1. /\ state = "Connecting" /\ todo = <<>> /\ c2s = <<>> /\ s2c = <<"prompt">> /\ ui = "pump"
    BY DEF Init
  <2>2. Mode = "Connecting"
    BY <2>1 DEF Mode, Coming
  <2>3. Waiting = FALSE
    BY <2>1 DEF Waiting
  <2> QED
    BY <2>1, <2>2, <2>3 DEF Chat!ChatInit
<1>2. KeptInv /\ QuestionInv /\ SetsOnce /\ [Next]_vars
         => [~hasty' /\ link' = "up" => Chat!ChatNext \/ UNCHANGED Chat!chat]_vars
  <2> SUFFICES ASSUME KeptInv, QuestionInv, SetsOnce, Next, ~hasty', link' = "up"
               PROVE  Chat!ChatNext \/ UNCHANGED Chat!chat
    OBVIOUS
  <2>1. CASE Receive
    BY <2>1, ReceiveMapped DEF Receive, user, Chat!ChatNext
  <2>2. CASE Execute
    BY <2>2, ExecuteMapped
  <2>3. CASE Disconnected
    BY <2>3 DEF Disconnected
  <2>4. CASE Serve
    BY <2>4, ServeMapped DEF Chat!ChatNext
  <2>5. CASE Send
    BY <2>5, SendMapped DEF Send, user, Chat!ChatNext
  <2>6. CASE LeaveRoom
    BY <2>6, LeaveRoomMapped DEF LeaveRoom, user, network, Chat!ChatNext
  <2>7. CASE PumpInput \/ PumpInputReturns \/ HandleInputLine \/ AcquireSession \/ DrainLogs
    BY <2>7, OthersMapped DEF PumpInput, PumpInputReturns, HandleInputLine, AcquireSession,
       DrainLogs, Finish, network
  <2>8. ASSUME NEW text \in Texts, Type(text)
        PROVE  UNCHANGED Chat!chat
    <3>1. UNCHANGED <<state, todo, c2s, s2c, ui>>
      BY <2>8 DEF Type, interface, network
    <3>2. Mode' = Mode /\ Waiting' = Waiting
      BY <3>1, ModeIsAfter DEF Waiting
    <3> QED
      BY <3>1, <3>2 DEF Chat!chat
  <2> QED
    BY <2>1, <2>2, <2>3, <2>4, <2>5, <2>6, <2>7, <2>8 DEF Next, Worker, Interface
<1> QED
  BY <1>1, <1>2, QuestionInvariant, SetsInvariant, PTL DEF Spec, ImplementsChatClient
=============================================================================
