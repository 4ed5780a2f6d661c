-------------------------------- MODULE Room --------------------------------
(***************************************************************************)
(* One chat room of GameServer/Room.cpp.  Each player's packets are        *)
(* handled by one worker at a time (Session's RecvEventExclusive), so each *)
(* player has one thread here.  Enter, Leave and Broadcast hold the room's *)
(* write lock while they call Send for one member after the other; Send    *)
(* puts a message at the end of the member's queue (SendPipe).             *)
(*                                                                         *)
(* Message n is the nth that the room announces.                           *)
(* Definitions named after another one and a fault are plausible bugs that *)
(* no action uses.                                                         *)
(***************************************************************************)
EXTENDS Naturals, Sequences, FiniteSets, SequencesExt

CONSTANTS
    Players,        \* players with a session
    NoPlayer,       \* nobody holds the room's lock
    MaxPlayerCount, \* _maxPlayerCount
    MaxMessages,    \* bound: messages the room announces
    Expiring        \* sessions that may be destroyed

ASSUME PlayersAssumption == IsFiniteSet(Players) /\ NoPlayer \notin Players
ASSUME RoomAssumption ==
    MaxPlayerCount \in Nat \ {0} /\ MaxMessages \in Nat /\ Expiring \subseteq Players

VARIABLES
    members,  \* _players
    lockedBy, \* the thread inside of WRITE_LOCK
    todo,     \* members the thread with the lock has still to reach
    strict,   \* the loop under way does not check ownerSession.lock()
    live,     \* live[p]: p's GameSession exists
    inbox,    \* inbox[p]: messages sent to p, in order
    log,      \* log[n]: what message n announces, and whose thread sends it
    crashed   \* a null session was dereferenced

vars == <<members, lockedBy, todo, strict, live, inbox, log, crashed>>

Init ==
    /\ members = {} /\ lockedBy = NoPlayer /\ todo = {} /\ strict = FALSE
    /\ live = [p \in Players |-> TRUE]
    /\ inbox = [p \in Players |-> <<>>]
    /\ log = <<>> /\ crashed = FALSE

LockUnheeded == ~crashed /\ Len(log) < MaxMessages
LockFree == ~crashed /\ lockedBy = NoPlayer /\ Len(log) < MaxMessages

\* Thread p takes the lock and starts to send a message to audience.
Announce(kind, p, audience) ==
    /\ lockedBy' = p
    /\ todo' = audience
    /\ strict' = (kind # "chat")
    /\ log' = Append(log, [kind |-> kind, by |-> p])
    /\ UNCHANGED <<live, inbox, crashed>>

EnterUnbounded(p) ==
    /\ LockFree /\ live[p]
    /\ members' = members \cup {p}
    /\ Announce("enter", p, members')

\* A full room is left as it is.
Enter(p) ==
    /\ LockFree /\ live[p]
    /\ Cardinality(members) < MaxPlayerCount
    /\ members' = members \cup {p}
    /\ Announce("enter", p, members')

LeaveUntold(p) ==
    /\ LockFree /\ live[p]
    /\ members' = members \ {p}
    /\ Announce("leave", p, members')

\* The player who leaves hears of it too, and its own session is alive.
Leave(p) ==
    /\ LockFree /\ live[p]
    /\ members' = members \ {p}
    /\ Announce("leave", p, members' \cup {p})

Broadcast(p) ==
    /\ LockFree /\ live[p]
    /\ Announce("chat", p, members)
    /\ UNCHANGED members

\* The loop calls Send for a member; Broadcast alone checks that its session exists.
\* A member has "heard" what was handed to its Session::Send, which drops it
\* without a word if the session is disconnected already (Session.cpp:20).
SendTo(p, q) ==
    /\ ~crashed /\ lockedBy = p /\ q \in todo
    /\ todo' = todo \ {q}
    /\ inbox' = IF live[q] THEN [inbox EXCEPT ![q] = Append(@, Len(log))] ELSE inbox
    /\ crashed' = (strict /\ ~live[q])
    /\ UNCHANGED <<members, lockedBy, strict, live, log>>

UnlockEarly(p) ==
    /\ ~crashed /\ lockedBy = p
    /\ lockedBy' = NoPlayer
    /\ UNCHANGED <<members, todo, strict, live, inbox, log, crashed>>

Unlock(p) ==
    /\ ~crashed /\ lockedBy = p /\ todo = {}
    /\ lockedBy' = NoPlayer
    /\ UNCHANGED <<members, todo, strict, live, inbox, log, crashed>>

ExpireUnlocked(p) ==
    /\ ~crashed /\ p \in Expiring /\ live[p] /\ lockedBy # p
    /\ live' = [live EXCEPT ![p] = FALSE]
    /\ members' = members \ {p}
    /\ UNCHANGED <<lockedBy, todo, strict, inbox, log, crashed>>

\* A disconnected session's last reference goes; its player stays a member, for
\* OnDisconnected does not tell the room.
Expire(p) ==
    /\ ~crashed /\ p \in Expiring /\ live[p] /\ lockedBy # p
    /\ live' = [live EXCEPT ![p] = FALSE]
    /\ UNCHANGED <<members, lockedBy, todo, strict, inbox, log, crashed>>

Loop(p) == Unlock(p) \/ \E q \in Players : SendTo(p, q)

Next == \E p \in Players : Enter(p) \/ Leave(p) \/ Broadcast(p) \/ Loop(p) \/ Expire(p)

Spec == Init /\ [][Next]_vars

-----------------------------------------------------------------------------
\* Types; nobody is left to be told of a message once the lock is given back, and
\* the room is never over its limit (Room.cpp:11).
TypeOK ==
    /\ lockedBy = NoPlayer => todo = {}
    /\ Cardinality(members) <= MaxPlayerCount
    /\ members \subseteq Players /\ todo \subseteq Players
    /\ lockedBy \in Players \cup {NoPlayer}
    /\ strict \in BOOLEAN /\ crashed \in BOOLEAN /\ live \in [Players -> BOOLEAN]
    /\ inbox \in [Players -> Seq(1 .. MaxMessages)]
    /\ log \in Seq([kind : {"enter", "leave", "chat"}, by : Players])

Entered(p) == [kind |-> "enter", by |-> p]
Left(p) == [kind |-> "leave", by |-> p]

\* By the history alone, p is in the room once message n is announced.
Inside(p, n) ==
    \E i \in 1 .. n : log[i] = Entered(p) /\ \A j \in i + 1 .. n : log[j] # Left(p)

\* p should hear everything from its Enter to its Leave.
ShouldHear(p, n) == Inside(p, n) \/ log[n] = Left(p)

\* Everybody hears the room's messages in the order of announcement, hears none
\* twice, none from outside of its stay, and misses none before one that it hears
\* (Room.cpp:9, 35, 57: one lock around each whole loop).
HeardInOrder == \A p \in Players : \A i \in DOMAIN inbox[p] :
    /\ \A j \in DOMAIN inbox[p] : i < j => inbox[p][i] < inbox[p][j]
    /\ ShouldHear(p, inbox[p][i])
    /\ \A n \in 1 .. inbox[p][i] : ShouldHear(p, n) => n \in Range(inbox[p])

\* Once the loop is over everybody whose session exists has heard every message
\* from its Enter to its Leave.
HeardCompletely ==
    lockedBy = NoPlayer =>
        \A p \in Players : live[p] =>
            \A n \in 1 .. Len(log) : ShouldHear(p, n) => n \in Range(inbox[p])

\* Both: under any interleaving of entering, leaving and chatting players, members
\* hear exactly the messages of their stay.
HeardExactly == HeardInOrder /\ HeardCompletely

\* The null dereference of Room.cpp:28 and :52 needs a member whose session was
\* destroyed without a Leave; nothing that living clients do leads to it.
CrashNeedsDeadMember == crashed => \E p \in members : ~live[p]

-----------------------------------------------------------------------------
\* Those still to be reached have as good as heard the message, for the lock keeps
\* the next one back; unless their session is gone, or the server stops.
Reached(p) == IF ~crashed /\ p \in todo /\ live[p] THEN Append(inbox[p], Len(log)) ELSE inbox[p]

Board == INSTANCE MessageBoard WITH
    People <- Players, Limit <- MaxPlayerCount,
    here <- members, posted <- Len(log), told <- [p \in Players |-> Reached(p)],
    gone <- {p \in Players : ~live[p]}, closed <- crashed

\* Enter, Leave and Broadcast are as good as single steps, as the packet handlers
\* take them to be (Room.cpp:9, 35, 57), and the server stops only for a member
\* whose session is gone (Room.cpp:28, 52).
ImplementsBoard == Board!BoardSpec
=============================================================================
