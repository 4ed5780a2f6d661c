------------------------------ MODULE SendPipe ------------------------------
(***************************************************************************)
(* What the callers of Session::Send (ServerCore/Session.h) rely on: the   *)
(* messages a session accepts reach the connection in the order in which   *)
(* they were accepted, none twice and none skipped, until the connection   *)
(* breaks; nothing follows the first message that a break swallows.        *)
(***************************************************************************)
EXTENDS Naturals, Sequences

VARIABLES
    accepted, \* messages accepted so far; message n is the nth
    pending,  \* accepted messages that have not reached the connection
    wire,     \* messages handed to the connection
    broken    \* a message was lost with the connection

pipe == <<accepted, pending, wire, broken>>

PipeInit == accepted = 0 /\ pending = <<>> /\ wire = <<>> /\ broken = FALSE

Accept ==
    /\ accepted' = accepted + 1
    /\ pending' = Append(pending, accepted + 1)
    /\ UNCHANGED <<wire, broken>>

Transmit ==
    /\ ~broken
    /\ \E n \in 1 .. Len(pending) :
        /\ wire' = wire \o SubSeq(pending, 1, n)
        /\ pending' = SubSeq(pending, n + 1, Len(pending))
    /\ UNCHANGED <<accepted, broken>>

Break ==
    /\ \E n \in 1 .. Len(pending) : pending' = SubSeq(pending, n + 1, Len(pending))
    /\ broken' = TRUE
    /\ UNCHANGED <<accepted, wire>>

PipeNext == Accept \/ Transmit \/ Break

PipeSpec == PipeInit /\ [][PipeNext]_pipe
=============================================================================
