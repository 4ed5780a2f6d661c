---------------------------- MODULE MessageBoard ----------------------------
(***************************************************************************)
(* What the packet handlers rely on of a Room (GameServer/Room.h), which   *)
(* is how ChatServer uses rooms: coming, leaving and chatting are single   *)
(* steps, each told to everybody concerned at once.  A person whose        *)
(* session ends stays, but is told nothing any more.                       *)
(***************************************************************************)
EXTENDS Naturals, Sequences, FiniteSets, SequencesExt

CONSTANTS
    People,
    Limit  \* people that fit in

VARIABLES
    here,   \* the people who are there
    posted, \* messages so far; message n is the nth
    told,   \* told[p]: what p is told, in order
    gone,   \* people whose session ended
    closed  \* a null session stopped the server

board == <<here, posted, told, gone, closed>>

BoardInit ==
    /\ here = {} /\ posted = 0 /\ gone = {} /\ closed = FALSE
    /\ told = [p \in People |-> <<>>]

\* The next message, to all of the audience who can still be told.
Post(audience) ==
    /\ posted' = posted + 1
    /\ told' = [p \in People |->
                  IF p \in audience \ gone THEN Append(told[p], posted') ELSE told[p]]
    /\ UNCHANGED <<gone, closed>>

Come(p) ==
    /\ ~closed /\ p \notin gone
    /\ Cardinality(here) < Limit
    /\ here' = here \cup {p}
    /\ Post(here')

Go(p) ==
    /\ ~closed /\ p \notin gone
    /\ here' = here \ {p}
    /\ Post(here' \cup {p})

Say(p) ==
    /\ ~closed /\ p \notin gone
    /\ Post(here)
    /\ UNCHANGED here

\* What is told of the last message when it comes too late.
Late(p) == IF told[p] # <<>> /\ Last(told[p]) = posted THEN Front(told[p]) ELSE told[p]
MissLast(people) == told' = [p \in People |-> IF p \in people THEN Late(p) ELSE told[p]]

\* p's session ends, perhaps before the last message reaches it.
Vanish(p) ==
    /\ ~closed /\ p \notin gone
    /\ gone' = gone \cup {p}
    /\ \E people \in {{}, {p}} : MissLast(people)
    /\ UNCHANGED <<here, posted, closed>>

\* The server stops, which takes somebody who is there without a session; the
\* last message may not have reached everybody.
Close ==
    /\ ~closed /\ here \cap gone # {}
    /\ closed' = TRUE
    /\ \E people \in SUBSET People : MissLast(people)
    /\ UNCHANGED <<here, posted, gone>>

BoardNext == Close \/ \E p \in People : Come(p) \/ Go(p) \/ Say(p) \/ Vanish(p)

BoardSpec == BoardInit /\ [][BoardNext]_board
=============================================================================
