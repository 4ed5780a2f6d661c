---------------------------- MODULE SessionProofs ----------------------------
(***************************************************************************)
(* Proofs about Session for any finite set of workers and any number of    *)
(* messages, receives and failures: each IocpEvent has one user, and the   *)
(* session enters and leaves the registries in order.  The second part is  *)
(* about the messages, the third about the depth of calls and the types;   *)
(* both rest on the first.                                                 *)
(*                                                                         *)
(* The invariant says who may be between which statements.  A worker that  *)
(* is at a label, or has it on its stack, is within it.  At most one is    *)
(* within the labels that use _sendEvent, and none while Windows has it;   *)
(* the same for _recvEvent, which takes over from the connection, and for  *)
(* _disconnectEvent.  Workers enter these groups of labels only by winning *)
(* an exchange (SendPush, Disconnect) or by dequeuing a completion; in     *)
(* every other step a worker stays within a group or leaves it.            *)
(***************************************************************************)
EXTENDS Session, FiniteSetTheorems, SequenceTheorems, TLAPS

\* From the exchange, or the dequeued completion, to the last statement that
\* may touch the event and the flags that go with it.
SendLabels == {"registerSend", "takeQueue", "wsaSend", "sendFailed", "processSend", "sendNext"}
RecvLabels == {"processConnect", "addSession", "onConnected", "registerRecv", "wsaRecv",
               "recvFailed", "processRecv", "onRecv"}
DisconnectLabels == {"registerDisconnect", "processDisconnect", "onDisconnected",
                     "releaseSession"}
\* The connection's start, and the statements that callers continue with.
EarlyLabels == {"processConnect", "addSession", "onConnected"}
BackLabels == {"idle", "onRecv", "registerRecv", "unlock", "sendFailed", "recvFailed"}

TypeInv ==
    /\ connected \in BOOLEAN /\ sendRegistered \in BOOLEAN /\ crashed \in BOOLEAN
    /\ owner \in [Ops -> BOOLEAN] /\ posted \in [Ops -> Nat]
    /\ registry \in [Registries -> {"never", "in", "out"}]

\* Only an idle worker has no caller, and "idle" is the outermost caller.
StackInv ==
    /\ pc \in [Workers -> Labels] /\ stack \in [Workers -> Seq(BackLabels)]
    /\ \A w \in Workers :
        /\ pc[w] = "idle" <=> stack[w] = <<>>
        /\ \A i \in DOMAIN stack[w] : stack[w][i] = "idle" <=> i = Len(stack[w])

\* A worker is within the labels once, if at all.
OneUse(L) == \A w \in Workers :
    /\ \A i, j \in DOMAIN stack[w] : stack[w][i] \in L /\ stack[w][j] \in L => i = j
    /\ pc[w] \in L => \A i \in DOMAIN stack[w] : stack[w][i] \notin L

Alone(L) == \A w, u \in Workers : Within(w, L) /\ Within(u, L) => w = u
Nobody(L) == \A w \in Workers : ~Within(w, L)
OneUser(L, op) == Alone(L) /\ posted[op] \in {0, 1} /\ (posted[op] = 1 => Nobody(L))

\* _sendRegistered is on while anybody uses _sendEvent, _connected is off and
\* the service still has the session while anybody uses _disconnectEvent.
SendInv ==
    /\ OneUse(SendLabels) /\ OneUser(SendLabels, "send")
    /\ ~sendRegistered => Nobody(SendLabels) /\ posted["send"] = 0
RecvInv ==
    /\ OneUse(RecvLabels) /\ OneUser(RecvLabels, "recv") /\ OneUser(RecvLabels, "connect")
    /\ posted["connect"] = 1 => posted["recv"] = 0
DisconnectInv ==
    /\ OneUse(DisconnectLabels) /\ OneUser(DisconnectLabels, "disconnect")
    /\ connected \/ registry["service"] # "in" =>
          Nobody(DisconnectLabels) /\ posted["disconnect"] = 0
\* What Windows has is owned, and so is what is about to be handed to it.
OwnerInv ==
    /\ \A op \in Ops : posted[op] = 1 => owner[op]
    /\ \A w \in Workers : pc[w] = "wsaSend" => owner["send"]

\* Until OnConnected nobody else can reach the session.
Early == posted["connect"] = 1 \/ \E w \in Workers : pc[w] \in EarlyLabels
RegistryInv ==
    /\ ~crashed
    /\ Early =>
         /\ \A w \in Workers : pc[w] \in EarlyLabels \cup {"idle"}
         /\ \A op \in Ops \ {"connect"} : posted[op] = 0
         /\ registry["content"] = "never"
    /\ posted["connect"] = 1 => ~connected /\ registry["service"] = "never"
    /\ \A w \in Workers :
         /\ pc[w] = "processConnect" => ~connected
         /\ pc[w] \in {"processConnect", "addSession"} => registry["service"] = "never"
         /\ pc[w] \in {"addSession", "onConnected"} => connected
         /\ pc[w] = "releaseSession" => registry["content"] = "out"
    /\ connected /\ (\A w \in Workers : pc[w] # "addSession") => registry["service"] = "in"

IInv == TypeInv /\ StackInv /\ SendInv /\ RecvInv /\ DisconnectInv /\ OwnerInv /\ RegistryInv
-----------------------------------------------------------------------------
(* Moves of a worker *)

\* Worker w alone moves, and comes to no label of L from outside of L.
Moves(w) == \A u \in Workers \ {w} : pc'[u] = pc[u] /\ stack'[u] = stack[u]
Stays(w, L) == Moves(w) /\ OneUse(L)' /\ (Within(w, L)' => Within(w, L))

LEMMA Pushed ==
    ASSUME NEW s \in Seq(BackLabels), NEW back \in BackLabels
    PROVE  LET t == <<back>> \o s IN
           /\ t \in Seq(BackLabels) /\ Len(t) = Len(s) + 1 /\ DOMAIN t = 1 .. Len(s) + 1
           /\ t[1] = back /\ \A i \in 1 .. Len(s) : t[i + 1] = s[i]
           /\ \A i \in 1 .. Len(s) + 1 : i # 1 => i - 1 \in DOMAIN s /\ t[i] = s[i - 1]
  OBVIOUS

LEMMA Popped ==
    ASSUME NEW s \in Seq(BackLabels), s # <<>>
    PROVE  LET t == Tail(s) IN
           /\ t \in Seq(BackLabels) /\ Len(t) = Len(s) - 1 /\ DOMAIN t = 1 .. Len(s) - 1
           /\ Head(s) = s[1] /\ 1 \in DOMAIN s
           /\ \A i \in DOMAIN t : i + 1 \in DOMAIN s /\ t[i] = s[i + 1]
  OBVIOUS

LEMMA Emptied ==
    ASSUME NEW s \in Seq(BackLabels)
    PROVE  s = <<>> <=> Len(s) = 0
  OBVIOUS

LEMMA StackMoves ==
    ASSUME StackInv, NEW w \in Workers, Moves(w),
           pc' \in [Workers -> Labels], stack' \in [Workers -> Seq(BackLabels)],
           pc'[w] = "idle" <=> stack'[w] = <<>>,
           \A i \in DOMAIN stack'[w] : stack'[w][i] = "idle" <=> i = Len(stack'[w])
    PROVE  StackInv'
<1>1. ASSUME NEW u \in Workers
      PROVE  /\ pc'[u] = "idle" <=> stack'[u] = <<>>
             /\ \A i \in DOMAIN stack'[u] : stack'[u][i] = "idle" <=> i = Len(stack'[u])
  <2>1. CASE u = w
    BY <2>1
  <2>2. CASE u # w
    <3>1. pc'[u] = pc[u] /\ stack'[u] = stack[u]
      BY <2>2 DEF Moves
    <3> QED  BY <3>1 DEF StackInv
  <2> QED  BY <2>1, <2>2
<1> QED  BY <1>1 DEF StackInv

LEMMA GotoMoves ==
    ASSUME StackInv, NEW w \in Workers, pc[w] # "idle",
           NEW label \in Labels \ {"idle"}, Goto(w, label)
    PROVE  StackInv' /\ Moves(w) /\ pc'[w] = label /\ stack'[w] = stack[w]
  BY DEF StackInv, Goto, Moves

LEMMA CallMoves ==
    ASSUME StackInv, NEW w \in Workers,
           NEW label \in Labels \ {"idle"}, NEW back \in BackLabels,
           back = "idle" <=> pc[w] = "idle", Call(w, label, back)
    PROVE  StackInv' /\ Moves(w) /\ pc'[w] = label /\ stack'[w] = <<back>> \o stack[w]
<1>1. Moves(w) /\ pc'[w] = label /\ stack'[w] = <<back>> \o stack[w]
  BY DEF StackInv, Call, Moves
<1>2. stack[w] \in Seq(BackLabels)
  BY DEF StackInv
<1>3. /\ stack'[w] \in Seq(BackLabels) /\ Len(stack'[w]) = Len(stack[w]) + 1
      /\ DOMAIN stack'[w] = 1 .. Len(stack[w]) + 1
      /\ stack'[w][1] = back
      /\ \A i \in 1 .. Len(stack[w]) + 1 :
            i # 1 => i - 1 \in DOMAIN stack[w] /\ stack'[w][i] = stack[w][i - 1]
  BY <1>1, <1>2, Pushed
<1>4. pc' \in [Workers -> Labels] /\ stack' \in [Workers -> Seq(BackLabels)]
  BY <1>1, <1>3 DEF StackInv, Call
<1>5. stack'[w] # <<>> /\ pc'[w] # "idle"
  BY <1>1, <1>3
<1>6. ASSUME NEW i \in DOMAIN stack'[w]
      PROVE  stack'[w][i] = "idle" <=> i = Len(stack'[w])
  <2>0. i \in 1 .. Len(stack[w]) + 1 /\ Len(stack[w]) \in Nat
    BY <1>2, <1>3, <1>6
  <2>1. CASE i = 1
    <3>1. pc[w] = "idle" <=> Len(stack[w]) = 0
      BY <1>2 DEF StackInv
    <3> QED  BY <2>0, <2>1, <3>1, <1>3
  <2>2. CASE i # 1
    <3>1. i - 1 \in DOMAIN stack[w] /\ stack'[w][i] = stack[w][i - 1]
      BY <2>0, <2>2, <1>3
    <3>2. stack[w][i - 1] = "idle" <=> i - 1 = Len(stack[w])
      BY <3>1 DEF StackInv
    <3> QED  BY <2>0, <3>1, <3>2, <1>3
  <2> QED  BY <2>1, <2>2
<1>7. StackInv'
  BY <1>1, <1>4, <1>5, <1>6, StackMoves
<1> QED  BY <1>1, <1>7

LEMMA ReturnMoves ==
    ASSUME StackInv, NEW w \in Workers, pc[w] # "idle", Return(w)
    PROVE  /\ StackInv' /\ Moves(w) /\ stack[w] # <<>>
           /\ pc'[w] = stack[w][1] /\ pc'[w] \in BackLabels /\ stack'[w] = Tail(stack[w])
<1>1. stack[w] \in Seq(BackLabels) /\ stack[w] # <<>>
  BY DEF StackInv
<1>2. Moves(w) /\ pc'[w] = Head(stack[w]) /\ stack'[w] = Tail(stack[w])
  BY DEF StackInv, Return, Moves
<1>3. /\ stack'[w] \in Seq(BackLabels) /\ Len(stack'[w]) = Len(stack[w]) - 1
      /\ DOMAIN stack'[w] = 1 .. Len(stack[w]) - 1
      /\ pc'[w] = stack[w][1] /\ 1 \in DOMAIN stack[w] /\ Len(stack[w]) \in Nat \ {0}
      /\ \A i \in DOMAIN stack'[w] : i + 1 \in DOMAIN stack[w] /\ stack'[w][i] = stack[w][i + 1]
  BY <1>1, <1>2, Popped
<1>4. pc'[w] \in BackLabels
  BY <1>1, <1>3
<1>5. pc' \in [Workers -> Labels] /\ stack' \in [Workers -> Seq(BackLabels)]
  BY <1>3, <1>4 DEF StackInv, Return, BackLabels, Labels
<1>6. pc'[w] = "idle" <=> stack'[w] = <<>>
  <2>1. stack[w][1] = "idle" <=> 1 = Len(stack[w])
    BY <1>3 DEF StackInv
  <2>2. stack'[w] = <<>> <=> Len(stack'[w]) = 0
    BY <1>3, Emptied
  <2> QED  BY <2>1, <2>2, <1>3
<1>7. ASSUME NEW i \in DOMAIN stack'[w]
      PROVE  stack'[w][i] = "idle" <=> i = Len(stack'[w])
  <2>1. stack[w][i + 1] = "idle" <=> i + 1 = Len(stack[w])
    BY <1>3, <1>7 DEF StackInv
  <2> QED  BY <2>1, <1>3, <1>7
<1>8. StackInv'
  BY <1>2, <1>5, <1>6, <1>7, StackMoves
<1> QED  BY <1>1, <1>2, <1>3, <1>4, <1>8

LEMMA GotoStays ==
    ASSUME StackInv, NEW w \in Workers, NEW label, NEW L, OneUse(L),
           Moves(w), pc'[w] = label, stack'[w] = stack[w]
    PROVE  /\ (label \in L => pc[w] \in L) => Stays(w, L)
           /\ ~Within(w, L) => OneUse(L)'
           /\ pc[w] \in L /\ label \notin L => ~Within(w, L)'
  BY DEF OneUse, Moves, Stays, Within

LEMMA CallStays ==
    ASSUME StackInv, NEW w \in Workers, NEW label, NEW back \in BackLabels, NEW L, OneUse(L),
           Moves(w), pc'[w] = label, stack'[w] = <<back>> \o stack[w],
           label \notin L \/ back \notin L
    PROVE  /\ (label \in L \/ back \in L => pc[w] \in L) => Stays(w, L)
           /\ ~Within(w, L) => OneUse(L)'
<1>1. /\ DOMAIN stack'[w] = 1 .. Len(stack[w]) + 1 /\ Len(stack[w]) \in Nat
      /\ stack'[w][1] = back
      /\ \A i \in 1 .. Len(stack[w]) + 1 :
            i # 1 => i - 1 \in DOMAIN stack[w] /\ stack'[w][i] = stack[w][i - 1]
  BY Pushed DEF StackInv
<1>2. ASSUME label \in L \/ back \in L => pc[w] \in L \/ ~Within(w, L)
      PROVE  OneUse(L)'
  <2>1. label \in L \/ back \in L => \A i \in DOMAIN stack[w] : stack[w][i] \notin L
    BY <1>2 DEF OneUse, Within
  <2>2. ASSUME NEW i \in DOMAIN stack'[w], NEW j \in DOMAIN stack'[w],
               stack'[w][i] \in L, stack'[w][j] \in L
        PROVE  i = j
    <3>1. CASE i = 1 \/ j = 1
      BY <1>1, <2>1, <2>2, <3>1
    <3>2. CASE i # 1 /\ j # 1
      <4>1. /\ i - 1 \in DOMAIN stack[w] /\ stack[w][i - 1] \in L
            /\ j - 1 \in DOMAIN stack[w] /\ stack[w][j - 1] \in L
        BY <1>1, <2>2, <3>2
      <4>2. i - 1 = j - 1
        BY <4>1 DEF OneUse
      <4> QED  BY <4>2, <1>1
    <3> QED  BY <3>1, <3>2
  <2>3. pc'[w] \in L => \A i \in DOMAIN stack'[w] : stack'[w][i] \notin L
    BY <1>1, <2>1
  <2> QED  BY <2>2, <2>3 DEF OneUse, Moves
<1>3. ASSUME label \in L \/ back \in L => pc[w] \in L
      PROVE  Within(w, L)' => Within(w, L)
  BY <1>1, <1>3 DEF Within
<1> QED  BY <1>2, <1>3 DEF Stays

LEMMA ReturnStays ==
    ASSUME StackInv, NEW w \in Workers, stack[w] # <<>>, NEW L, OneUse(L),
           Moves(w), pc'[w] = stack[w][1], stack'[w] = Tail(stack[w])
    PROVE  /\ Stays(w, L)
           /\ pc[w] \in L => ~Within(w, L)'
<1>1. /\ DOMAIN stack'[w] = 1 .. Len(stack[w]) - 1 /\ Len(stack[w]) \in Nat
      /\ 1 \in DOMAIN stack[w]
      /\ \A i \in DOMAIN stack'[w] : i + 1 \in DOMAIN stack[w] /\ stack'[w][i] = stack[w][i + 1]
  BY Popped DEF StackInv
<1>2. ASSUME NEW i \in DOMAIN stack'[w], NEW j \in DOMAIN stack'[w],
             stack'[w][i] \in L, stack'[w][j] \in L
      PROVE  i = j
  <2>1. i + 1 = j + 1
    BY <1>1, <1>2 DEF OneUse
  <2> QED  BY <2>1, <1>1
<1>3. ASSUME pc'[w] \in L, NEW i \in DOMAIN stack'[w], stack'[w][i] \in L
      PROVE  FALSE
  <2>1. 1 = i + 1
    BY <1>1, <1>3 DEF OneUse
  <2> QED  BY <2>1, <1>1
<1>4. OneUse(L)'
  BY <1>2, <1>3 DEF OneUse, Moves
<1>5. Within(w, L)' => \E i \in DOMAIN stack[w] : stack[w][i] \in L
  BY <1>1 DEF Within
<1> QED  BY <1>4, <1>5 DEF Stays, Within, OneUse
-----------------------------------------------------------------------------
(* What a move leaves of the invariant *)

\* The same for the three groups at once.
AllStay(w) ==
    Stays(w, SendLabels) /\ Stays(w, RecvLabels) /\ Stays(w, DisconnectLabels)
OneUses == OneUse(SendLabels) /\ OneUse(RecvLabels) /\ OneUse(DisconnectLabels)

LEMMA GotoAll ==
    ASSUME StackInv, OneUses, NEW w \in Workers, pc[w] # "idle",
           NEW label \in Labels \ {"idle"}, Goto(w, label),
           label \in SendLabels => pc[w] \in SendLabels,
           label \in RecvLabels => pc[w] \in RecvLabels,
           label \in DisconnectLabels => pc[w] \in DisconnectLabels
    PROVE  StackInv' /\ Moves(w) /\ AllStay(w) /\ pc'[w] = label
  BY GotoMoves, GotoStays DEF OneUses, AllStay

LEMMA CallAll ==
    ASSUME StackInv, OneUses, NEW w \in Workers,
           NEW label \in Labels \ {"idle"}, NEW back \in BackLabels,
           back = "idle" <=> pc[w] = "idle", Call(w, label, back),
           label \in SendLabels \/ back \in SendLabels => pc[w] \in SendLabels,
           label \in RecvLabels \/ back \in RecvLabels => pc[w] \in RecvLabels,
           label \notin DisconnectLabels,
           label \notin SendLabels \/ back \notin SendLabels,
           label \notin RecvLabels \/ back \notin RecvLabels
    PROVE  StackInv' /\ Moves(w) /\ AllStay(w) /\ pc'[w] = label
<1>1. back \notin DisconnectLabels
  BY DEF BackLabels, DisconnectLabels
<1>2. StackInv' /\ Moves(w) /\ pc'[w] = label /\ stack'[w] = <<back>> \o stack[w]
  BY CallMoves
<1> QED  BY <1>1, <1>2, CallStays DEF OneUses, AllStay

LEMMA ReturnAll ==
    ASSUME StackInv, OneUses, NEW w \in Workers, pc[w] # "idle", Return(w)
    PROVE  /\ StackInv' /\ Moves(w) /\ AllStay(w) /\ pc'[w] \in BackLabels
           /\ pc[w] \in SendLabels => ~Within(w, SendLabels)'
           /\ pc[w] \in RecvLabels => ~Within(w, RecvLabels)'
           /\ pc[w] \in DisconnectLabels => ~Within(w, DisconnectLabels)'
<1>1. /\ StackInv' /\ Moves(w) /\ stack[w] # <<>>
      /\ pc'[w] = stack[w][1] /\ pc'[w] \in BackLabels /\ stack'[w] = Tail(stack[w])
  BY ReturnMoves
<1> QED  BY <1>1, ReturnStays DEF OneUses, AllStay

\* Whoever stays is as alone as before; whoever leaves leaves nobody.
LEMMA UsersStay ==
    ASSUME NEW w \in Workers, NEW L, Stays(w, L)
    PROVE  (Alone(L) => Alone(L)') /\ (Nobody(L) => Nobody(L)')
  BY DEF Alone, Nobody, Stays, Moves, Within

LEMMA UserLeaves ==
    ASSUME NEW w \in Workers, NEW L, Moves(w), Alone(L), Within(w, L), ~Within(w, L)'
    PROVE  Nobody(L)'
  BY DEF Alone, Nobody, Moves, Within

LEMMA UserEnters ==
    ASSUME NEW w \in Workers, NEW L, Moves(w), Nobody(L)
    PROVE  Alone(L)'
  BY DEF Alone, Nobody, Moves, Within

LEMMA SendFrame ==
    ASSUME SendInv, NEW w \in Workers, Stays(w, SendLabels),
           posted'["send"] = posted["send"], sendRegistered' = sendRegistered
    PROVE  SendInv'
  BY UsersStay DEF SendInv, OneUser, Stays

LEMMA RecvFrame ==
    ASSUME RecvInv, NEW w \in Workers, Stays(w, RecvLabels),
           posted'["recv"] = posted["recv"], posted'["connect"] = posted["connect"]
    PROVE  RecvInv'
  BY UsersStay DEF RecvInv, OneUser, Stays

LEMMA DisconnectFrame ==
    ASSUME DisconnectInv, NEW w \in Workers, Stays(w, DisconnectLabels),
           posted'["disconnect"] = posted["disconnect"],
           connected' => connected, registry'["service"] = registry["service"]
    PROVE  DisconnectInv'
  BY UsersStay DEF DisconnectInv, OneUser, Stays

LEMMA OwnerFrame ==
    ASSUME OwnerInv, NEW w \in Workers, Moves(w), owner' = owner, posted' = posted,
           pc'[w] = "wsaSend" => owner["send"]
    PROVE  OwnerInv'
  BY DEF OwnerInv, Moves

LEMMA Late ==
    ASSUME RegistryInv, NEW w \in Workers, pc[w] \notin EarlyLabels, pc[w] # "idle"
    PROVE  ~Early
  BY DEF RegistryInv

LEMMA RegistryFrame ==
    ASSUME TypeInv, RegistryInv, ~Early, NEW w \in Workers, Moves(w),
           pc'[w] \notin EarlyLabels,
           pc'[w] = "releaseSession" => registry'["content"] = "out",
           posted'["connect"] = posted["connect"], connected' => connected,
           connected' => registry'["service"] = registry["service"],
           registry["content"] = "out" => registry'["content"] = "out",
           ~crashed'
    PROVE  RegistryInv'
<1>1. posted["connect"] # 1 /\ \A u \in Workers : pc[u] \notin EarlyLabels
  BY DEF Early
<1>2. posted'["connect"] # 1 /\ \A u \in Workers : pc'[u] \notin EarlyLabels
  BY <1>1 DEF Moves
<1>3. ~Early'
  BY <1>2 DEF Early
<1>4. connected' => registry'["service"] = "in"
  BY <1>1 DEF RegistryInv, EarlyLabels
<1>5. \A u \in Workers : pc'[u] = "releaseSession" => registry'["content"] = "out"
  BY DEF RegistryInv, Moves
<1> QED  BY <1>2, <1>3, <1>4, <1>5 DEF RegistryInv, EarlyLabels

\* Nothing but workers' places, messages and budgets changes.
Quiet == UNCHANGED <<connected, sendRegistered, owner, posted, registry, crashed>>

\* A worker moves outside of the connection's start, and nothing else changes.
LEMMA QuietFrame ==
    ASSUME IInv, Quiet, NEW w \in Workers, StackInv', Moves(w), AllStay(w), ~Early,
           pc'[w] \notin EarlyLabels \cup {"releaseSession"},
           pc'[w] = "wsaSend" => owner["send"]
    PROVE  IInv'
<1>1. TypeInv'
  BY DEF IInv, TypeInv, Quiet
<1>2. SendInv'
  BY SendFrame DEF IInv, Quiet, AllStay
<1>3. RecvInv'
  BY RecvFrame DEF IInv, Quiet, AllStay
<1>4. DisconnectInv'
  BY DisconnectFrame DEF IInv, Quiet, AllStay
<1>5. OwnerInv'
  BY OwnerFrame DEF IInv, Quiet
<1>6. ~crashed'
  BY DEF IInv, RegistryInv, Quiet
<1>7. RegistryInv'
  BY <1>6, RegistryFrame DEF IInv, Quiet
<1> QED  BY <1>1, <1>2, <1>3, <1>4, <1>5, <1>7 DEF IInv

LEMMA OneUsesInv ==
    ASSUME IInv
    PROVE  StackInv /\ OneUses
  BY DEF IInv, SendInv, RecvInv, DisconnectInv, OneUses

-----------------------------------------------------------------------------
(* One lemma per action: sending *)

LEMMA CallSendKeeps ==
    ASSUME IInv, NEW w \in Workers, CallSend(w)
    PROVE  IInv'
<1>1. Quiet /\ Call(w, "send", pc[w]) /\ pc[w] \in {"idle", "onRecv"}
  BY DEF CallSend, At, Quiet, sending, messages, budgets
<1>2. ~Early
  BY DEF CallSend, IInv, RegistryInv
<1>3. StackInv' /\ Moves(w) /\ AllStay(w) /\ pc'[w] = "send"
  BY <1>1, OneUsesInv, CallAll DEF BackLabels, SendLabels, RecvLabels, DisconnectLabels, Labels
<1> QED  BY <1>1, <1>2, <1>3, QuietFrame DEF EarlyLabels

LEMMA SendCheckKeeps ==
    ASSUME IInv, NEW w \in Workers, SendCheck(w)
    PROVE  IInv'
<1>1. Quiet /\ pc[w] = "send" /\ (Goto(w, "push") \/ Return(w))
  BY DEF SendCheck, At, Quiet, sending, messages, budgets
<1>2. ~Early
  BY <1>1, Late DEF IInv, EarlyLabels
<1>3. StackInv' /\ Moves(w) /\ AllStay(w) /\ pc'[w] \in BackLabels \cup {"push"}
  BY <1>1, OneUsesInv, GotoAll, ReturnAll DEF SendLabels, RecvLabels, DisconnectLabels, Labels
<1> QED  BY <1>1, <1>2, <1>3, QuietFrame DEF EarlyLabels, BackLabels
LEMMA SendPushKeeps ==
    ASSUME IInv, NEW w \in Workers, SendPush(w)
    PROVE  IInv'
<1>1. /\ pc[w] = "push" /\ sendRegistered' = TRUE
      /\ UNCHANGED <<connected, owner, posted, registry, crashed>>
      /\ \/ ~sendRegistered /\ Goto(w, "registerSend")
         \/ sendRegistered /\ Return(w)
  BY DEF SendPush, WinsSend, At, budgets
<1>2. ~Early
  BY <1>1, Late DEF IInv, EarlyLabels
<1>3. CASE sendRegistered /\ Return(w)
  <2>1. StackInv' /\ Moves(w) /\ AllStay(w) /\ pc'[w] \in BackLabels
    BY <1>1, <1>3, OneUsesInv, ReturnAll
  <2>2. Quiet
    BY <1>1, <1>3 DEF Quiet, IInv, TypeInv
  <2> QED  BY <1>2, <2>1, <2>2, QuietFrame DEF EarlyLabels, BackLabels
<1>4. CASE ~sendRegistered /\ Goto(w, "registerSend")
  <2>1. StackInv' /\ Moves(w) /\ pc'[w] = "registerSend" /\ stack'[w] = stack[w]
    BY <1>1, <1>4, OneUsesInv, GotoMoves DEF Labels
  <2>2. Nobody(SendLabels) /\ posted["send"] = 0 /\ ~Within(w, SendLabels)
    BY <1>4 DEF IInv, SendInv, Nobody
  <2>3. OneUse(SendLabels)' /\ Stays(w, RecvLabels) /\ Stays(w, DisconnectLabels)
    BY <2>1, <2>2, OneUsesInv, GotoStays DEF OneUses, RecvLabels, DisconnectLabels
  <2>4. SendInv'
    BY <1>1, <2>1, <2>2, <2>3, UserEnters DEF SendInv, OneUser
  <2>5. RecvInv' /\ DisconnectInv'
    BY <1>1, <2>3, RecvFrame, DisconnectFrame DEF IInv
  <2>6. OwnerInv'
    BY <1>1, <2>1, OwnerFrame DEF IInv
  <2>7. RegistryInv'
    <3>1. ~crashed'
      BY <1>1 DEF IInv, RegistryInv
    <3> QED  BY <1>1, <1>2, <2>1, <3>1, RegistryFrame DEF IInv, EarlyLabels
  <2>8. TypeInv'
    BY <1>1 DEF IInv, TypeInv
  <2> QED  BY <2>1, <2>4, <2>5, <2>6, <2>7, <2>8 DEF IInv
<1> QED  BY <1>1, <1>3, <1>4

LEMMA RegisterSendKeeps ==
    ASSUME IInv, NEW w \in Workers, RegisterSend(w)
    PROVE  IInv'
<1>1. Quiet /\ pc[w] = "registerSend" /\ (Goto(w, "takeQueue") \/ Return(w))
  BY DEF RegisterSend, At, Quiet, sending, messages, budgets
<1>2. ~Early
  BY <1>1, Late DEF IInv, EarlyLabels
<1>3. StackInv' /\ Moves(w) /\ AllStay(w) /\ pc'[w] \in BackLabels \cup {"takeQueue"}
  BY <1>1, OneUsesInv, GotoAll, ReturnAll DEF SendLabels, RecvLabels, DisconnectLabels, Labels
<1> QED  BY <1>1, <1>2, <1>3, QuietFrame DEF EarlyLabels, BackLabels

\* The frame of an action that changes owner or posted besides moving.
LEMMA EventFrame ==
    ASSUME IInv, NEW w \in Workers, StackInv', Moves(w), ~Early,
           UNCHANGED <<connected, registry, crashed>>,
           sendRegistered' \in BOOLEAN, owner' \in [Ops -> BOOLEAN], posted' \in [Ops -> Nat],
           posted'["connect"] = posted["connect"],
           pc'[w] \notin EarlyLabels \cup {"releaseSession"}
    PROVE  TypeInv' /\ RegistryInv'
<1>1. TypeInv'
  BY DEF IInv, TypeInv
<1>2. ~crashed'
  BY DEF IInv, RegistryInv
<1>3. RegistryInv'
  BY <1>2, RegistryFrame DEF IInv
<1> QED  BY <1>1, <1>3

LEMMA TakeQueueKeeps ==
    ASSUME IInv, NEW w \in Workers, TakeQueue(w)
    PROVE  IInv'
<1>1. /\ pc[w] = "takeQueue" /\ Goto(w, "wsaSend")
      /\ owner' = [owner EXCEPT !["send"] = TRUE]
      /\ UNCHANGED <<connected, sendRegistered, posted, registry, crashed>>
  BY DEF TakeQueue, SetOwner, At, messages, budgets
<1>2. ~Early
  BY <1>1, Late DEF IInv, EarlyLabels
<1>3. StackInv' /\ Moves(w) /\ AllStay(w) /\ pc'[w] = "wsaSend"
  BY <1>1, OneUsesInv, GotoAll DEF SendLabels, RecvLabels, DisconnectLabels, Labels
<1>4. SendInv' /\ RecvInv' /\ DisconnectInv'
  BY <1>1, <1>3, SendFrame, RecvFrame, DisconnectFrame DEF IInv, AllStay
<1>5. OwnerInv'
  BY <1>1 DEF IInv, OwnerInv, TypeInv, Ops
<1>6. TypeInv' /\ RegistryInv'
  BY <1>1, <1>2, <1>3, EventFrame DEF IInv, TypeInv, EarlyLabels
<1> QED  BY <1>3, <1>4, <1>5, <1>6 DEF IInv

LEMMA WsaSendKeeps ==
    ASSUME IInv, NEW w \in Workers, WsaSend(w)
    PROVE  IInv'
<1>1. /\ pc[w] = "wsaSend" /\ Return(w)
      /\ posted' = [posted EXCEPT !["send"] = @ + 1]
      /\ UNCHANGED <<connected, sendRegistered, owner, registry, crashed>>
  BY DEF WsaSend, Post, At, sending, budgets
<1>2. ~Early
  BY <1>1, Late DEF IInv, EarlyLabels
<1>3. /\ StackInv' /\ Moves(w) /\ AllStay(w) /\ pc'[w] \in BackLabels
      /\ ~Within(w, SendLabels)'
  BY <1>1, OneUsesInv, ReturnAll DEF SendLabels
<1>4. Within(w, SendLabels) /\ posted["send"] = 0 /\ sendRegistered
  BY <1>1 DEF IInv, SendInv, OneUser, Nobody, Within, SendLabels
<1>5. /\ posted' \in [Ops -> Nat] /\ posted'["send"] = 1
      /\ \A op \in Ops \ {"send"} : posted'[op] = posted[op]
  BY <1>1, <1>4 DEF IInv, TypeInv, Ops
<1>6. Nobody(SendLabels)' /\ Alone(SendLabels)'
  BY <1>3, <1>4, UserLeaves, UsersStay DEF IInv, SendInv, OneUser, AllStay
<1>7. SendInv'
  BY <1>1, <1>3, <1>4, <1>5, <1>6 DEF SendInv, OneUser, AllStay, Stays
<1>8. RecvInv' /\ DisconnectInv'
  BY <1>1, <1>3, <1>5, RecvFrame, DisconnectFrame DEF IInv, AllStay, Ops
<1>9. OwnerInv'
  BY <1>1, <1>3, <1>5 DEF IInv, OwnerInv, Moves, BackLabels
<1>10. TypeInv' /\ RegistryInv'
  BY <1>1, <1>2, <1>3, <1>5, EventFrame DEF IInv, TypeInv, EarlyLabels, BackLabels, Ops
<1> QED  BY <1>3, <1>7, <1>8, <1>9, <1>10 DEF IInv

LEMMA WsaSendFailsKeeps ==
    ASSUME IInv, NEW w \in Workers, WsaSendFails(w)
    PROVE  IInv'
<1>1. /\ Quiet /\ pc[w] = "wsaSend"
      /\ Call(w, "disconnect", "sendFailed") \/ Goto(w, "sendFailed")
  BY DEF WsaSendFails, At, Quiet, sending
<1>2. ~Early
  BY <1>1, Late DEF IInv, EarlyLabels
<1>3. StackInv' /\ Moves(w) /\ AllStay(w) /\ pc'[w] \in {"disconnect", "sendFailed"}
  BY <1>1, OneUsesInv, GotoAll, CallAll
     DEF SendLabels, RecvLabels, DisconnectLabels, BackLabels, Labels
<1> QED  BY <1>1, <1>2, <1>3, QuietFrame DEF EarlyLabels

\* Nobody else is within the send labels while a worker is.
LEMMA AloneInSend ==
    ASSUME IInv, NEW w \in Workers, pc[w] \in SendLabels
    PROVE  /\ Within(w, SendLabels) /\ posted["send"] = 0 /\ sendRegistered
           /\ \A u \in Workers \ {w} : pc[u] # "wsaSend"
  BY DEF IInv, SendInv, OneUser, Nobody, Alone, Within, SendLabels

LEMMA SendFailedKeeps ==
    ASSUME IInv, NEW w \in Workers, SendFailed(w)
    PROVE  IInv'
<1>1. /\ pc[w] = "sendFailed" /\ Return(w) /\ sendRegistered' = FALSE
      /\ owner' = [owner EXCEPT !["send"] = FALSE]
      /\ UNCHANGED <<connected, posted, registry, crashed>>
  BY DEF SendFailed, SetOwner, At, messages, budgets
<1>2. ~Early
  BY <1>1, Late DEF IInv, EarlyLabels
<1>3. /\ StackInv' /\ Moves(w) /\ AllStay(w) /\ pc'[w] \in BackLabels
      /\ ~Within(w, SendLabels)'
  BY <1>1, OneUsesInv, ReturnAll DEF SendLabels
<1>4. /\ Within(w, SendLabels) /\ posted["send"] = 0
      /\ \A u \in Workers \ {w} : pc[u] # "wsaSend"
  BY <1>1, AloneInSend DEF SendLabels
<1>5. Nobody(SendLabels)' /\ Alone(SendLabels)'
  BY <1>3, <1>4, UserLeaves, UsersStay DEF IInv, SendInv, OneUser, AllStay
<1>6. SendInv'
  BY <1>1, <1>3, <1>4, <1>5 DEF SendInv, OneUser, AllStay, Stays
<1>7. RecvInv' /\ DisconnectInv'
  BY <1>1, <1>3, RecvFrame, DisconnectFrame DEF IInv, AllStay
<1>8. OwnerInv'
  BY <1>1, <1>3, <1>4 DEF IInv, OwnerInv, TypeInv, Moves, BackLabels, Ops
<1>9. TypeInv' /\ RegistryInv'
  BY <1>1, <1>2, <1>3, EventFrame DEF IInv, TypeInv, EarlyLabels, BackLabels
<1> QED  BY <1>3, <1>6, <1>7, <1>8, <1>9 DEF IInv

LEMMA ProcessSendKeeps ==
    ASSUME IInv, NEW w \in Workers, ProcessSend(w)
    PROVE  IInv'
<1>1. /\ pc[w] = "processSend" /\ (Goto(w, "disconnect") \/ Goto(w, "sendNext"))
      /\ owner' = [owner EXCEPT !["send"] = FALSE]
      /\ UNCHANGED <<connected, sendRegistered, posted, registry, crashed>>
  BY DEF ProcessSend, SetOwner, At, messages, budgets
<1>2. ~Early
  BY <1>1, Late DEF IInv, EarlyLabels
<1>3. StackInv' /\ Moves(w) /\ AllStay(w) /\ pc'[w] \in {"disconnect", "sendNext"}
  BY <1>1, OneUsesInv, GotoAll DEF SendLabels, RecvLabels, DisconnectLabels, Labels
<1>4. SendInv' /\ RecvInv' /\ DisconnectInv'
  BY <1>1, <1>3, SendFrame, RecvFrame, DisconnectFrame DEF IInv, AllStay
<1>5. posted["send"] = 0 /\ \A u \in Workers \ {w} : pc[u] # "wsaSend"
  BY <1>1, AloneInSend DEF SendLabels
<1>6. OwnerInv'
  BY <1>1, <1>3, <1>5 DEF IInv, OwnerInv, TypeInv, Moves, Ops
<1>7. TypeInv' /\ RegistryInv'
  BY <1>1, <1>2, <1>3, EventFrame DEF IInv, TypeInv, EarlyLabels
<1> QED  BY <1>3, <1>4, <1>6, <1>7 DEF IInv

LEMMA SendNextKeeps ==
    ASSUME IInv, NEW w \in Workers, SendNext(w)
    PROVE  IInv'
<1>1. /\ pc[w] = "sendNext" /\ UNCHANGED <<connected, owner, posted, registry, crashed>>
      /\ \/ Return(w) /\ sendRegistered' = FALSE
         \/ Call(w, "registerSend", "unlock") /\ UNCHANGED sendRegistered
  BY DEF SendNext, At, messages, budgets
<1>2. ~Early
  BY <1>1, Late DEF IInv, EarlyLabels
<1>3. CASE Call(w, "registerSend", "unlock") /\ UNCHANGED sendRegistered
  <2>1. StackInv' /\ Moves(w) /\ AllStay(w) /\ pc'[w] = "registerSend"
    BY <1>1, <1>3, OneUsesInv, CallAll
       DEF SendLabels, RecvLabels, DisconnectLabels, BackLabels, Labels
  <2> QED  BY <1>1, <1>2, <1>3, <2>1, QuietFrame DEF Quiet, EarlyLabels
<1>4. CASE Return(w) /\ sendRegistered' = FALSE
  <2>1. /\ StackInv' /\ Moves(w) /\ AllStay(w) /\ pc'[w] \in BackLabels
        /\ ~Within(w, SendLabels)'
    BY <1>1, <1>4, OneUsesInv, ReturnAll DEF SendLabels
  <2>2. Within(w, SendLabels) /\ posted["send"] = 0
    BY <1>1, AloneInSend DEF SendLabels
  <2>3. Nobody(SendLabels)' /\ Alone(SendLabels)'
    BY <2>1, <2>2, UserLeaves, UsersStay DEF IInv, SendInv, OneUser, AllStay
  <2>4. SendInv'
    BY <1>1, <2>1, <2>2, <2>3 DEF SendInv, OneUser, AllStay, Stays
  <2>5. RecvInv' /\ DisconnectInv'
    BY <1>1, <2>1, RecvFrame, DisconnectFrame DEF IInv, AllStay
  <2>6. OwnerInv'
    BY <1>1, <2>1, OwnerFrame DEF IInv, BackLabels
  <2>7. TypeInv' /\ RegistryInv'
    BY <1>1, <1>2, <1>4, <2>1, EventFrame DEF IInv, TypeInv, EarlyLabels, BackLabels
  <2> QED  BY <2>1, <2>4, <2>5, <2>6, <2>7 DEF IInv
<1> QED  BY <1>1, <1>3, <1>4

LEMMA UnlockKeeps ==
    ASSUME IInv, NEW w \in Workers, Unlock(w)
    PROVE  IInv'
<1>1. Quiet /\ pc[w] = "unlock" /\ Return(w)
  BY DEF Unlock, At, Quiet, messages, budgets
<1>2. ~Early
  BY <1>1, Late DEF IInv, EarlyLabels
<1>3. StackInv' /\ Moves(w) /\ AllStay(w) /\ pc'[w] \in BackLabels
  BY <1>1, OneUsesInv, ReturnAll
<1> QED  BY <1>1, <1>2, <1>3, QuietFrame DEF EarlyLabels, BackLabels
-----------------------------------------------------------------------------
(* One lemma per action: disconnecting *)

LEMMA DisconnectKeeps ==
    ASSUME IInv, NEW w \in Workers, Disconnect(w)
    PROVE  IInv'
<1>1. /\ pc[w] = "disconnect" /\ connected' = FALSE
      /\ UNCHANGED <<sendRegistered, owner, posted, registry, crashed>>
      /\ \/ connected /\ Goto(w, "registerDisconnect")
         \/ ~connected /\ Return(w)
  BY DEF Disconnect, WinsDisconnect, At, sending
<1>2. ~Early
  BY <1>1, Late DEF IInv, EarlyLabels
<1>3. CASE ~connected /\ Return(w)
  <2>1. StackInv' /\ Moves(w) /\ AllStay(w) /\ pc'[w] \in BackLabels
    BY <1>1, <1>3, OneUsesInv, ReturnAll
  <2>2. Quiet
    BY <1>1, <1>3 DEF Quiet, IInv, TypeInv
  <2> QED  BY <1>2, <2>1, <2>2, QuietFrame DEF EarlyLabels, BackLabels
<1>4. CASE connected /\ Goto(w, "registerDisconnect")
  <2>1. /\ StackInv' /\ Moves(w) /\ pc'[w] = "registerDisconnect" /\ stack'[w] = stack[w]
    BY <1>1, <1>4, OneUsesInv, GotoMoves DEF Labels
  <2>2. /\ Nobody(DisconnectLabels) /\ posted["disconnect"] = 0
        /\ ~Within(w, DisconnectLabels)
    BY <1>4 DEF IInv, DisconnectInv, Nobody
  <2>3. OneUse(DisconnectLabels)' /\ Stays(w, SendLabels) /\ Stays(w, RecvLabels)
    BY <2>1, <2>2, OneUsesInv, GotoStays DEF OneUses, RecvLabels, SendLabels
  <2>4. registry["service"] = "in"
    BY <1>2, <1>4 DEF IInv, RegistryInv, Early, EarlyLabels
  <2>5. DisconnectInv'
    BY <1>1, <2>1, <2>2, <2>3, <2>4, UserEnters DEF DisconnectInv, OneUser
  <2>6. SendInv' /\ RecvInv'
    BY <1>1, <2>3, SendFrame, RecvFrame DEF IInv
  <2>7. OwnerInv'
    BY <1>1, <2>1, OwnerFrame DEF IInv
  <2>8. RegistryInv'
    <3>1. ~crashed'
      BY <1>1 DEF IInv, RegistryInv
    <3> QED  BY <1>1, <1>2, <2>1, <3>1, RegistryFrame DEF IInv, EarlyLabels
  <2>9. TypeInv'
    BY <1>1 DEF IInv, TypeInv
  <2> QED  BY <2>1, <2>5, <2>6, <2>7, <2>8, <2>9 DEF IInv
<1> QED  BY <1>1, <1>3, <1>4

\* Nobody else is within the disconnect labels while a worker is.
LEMMA AloneInDisconnect ==
    ASSUME IInv, NEW w \in Workers, pc[w] \in DisconnectLabels
    PROVE  /\ Within(w, DisconnectLabels) /\ posted["disconnect"] = 0
           /\ ~connected /\ registry["service"] = "in"
  BY DEF IInv, TypeInv, DisconnectInv, OneUser, Nobody, Within

LEMMA RegisterDisconnectKeeps ==
    ASSUME IInv, NEW w \in Workers, RegisterDisconnect(w)
    PROVE  IInv'
<1>1. /\ pc[w] = "registerDisconnect" /\ Return(w)
      /\ UNCHANGED <<connected, sendRegistered, registry, crashed>>
      /\ \/ /\ owner' = [owner EXCEPT !["disconnect"] = TRUE]
            /\ posted' = [posted EXCEPT !["disconnect"] = @ + 1]
         \/ UNCHANGED <<owner, posted>>
  BY DEF RegisterDisconnect, Post, SetOwner, At, sending
<1>2. ~Early
  BY <1>1, Late DEF IInv, EarlyLabels
<1>3. /\ StackInv' /\ Moves(w) /\ AllStay(w) /\ pc'[w] \in BackLabels
      /\ ~Within(w, DisconnectLabels)'
  BY <1>1, OneUsesInv, ReturnAll DEF DisconnectLabels
<1>4. CASE UNCHANGED <<owner, posted>>
  BY <1>1, <1>2, <1>3, <1>4, QuietFrame DEF Quiet, EarlyLabels, BackLabels
<1>5. CASE /\ owner' = [owner EXCEPT !["disconnect"] = TRUE]
           /\ posted' = [posted EXCEPT !["disconnect"] = @ + 1]
  <2>1. /\ Within(w, DisconnectLabels) /\ posted["disconnect"] = 0
        /\ ~connected /\ registry["service"] = "in"
    BY <1>1, AloneInDisconnect DEF DisconnectLabels
  <2>2. /\ posted' \in [Ops -> Nat] /\ posted'["disconnect"] = 1
        /\ \A op \in Ops \ {"disconnect"} : posted'[op] = posted[op]
    BY <1>5, <2>1 DEF IInv, TypeInv, Ops
  <2>3. Nobody(DisconnectLabels)' /\ Alone(DisconnectLabels)'
    BY <1>3, <2>1, UserLeaves, UsersStay DEF IInv, DisconnectInv, OneUser, AllStay
  <2>4. DisconnectInv'
    BY <1>1, <1>3, <2>1, <2>2, <2>3 DEF DisconnectInv, OneUser, AllStay, Stays
  <2>5. SendInv' /\ RecvInv'
    BY <1>1, <1>3, <2>2, SendFrame, RecvFrame DEF IInv, AllStay, Ops
  <2>6. OwnerInv'
    BY <1>3, <1>5, <2>2 DEF IInv, OwnerInv, TypeInv, Moves, BackLabels, Ops
  <2>7. TypeInv' /\ RegistryInv'
    BY <1>1, <1>2, <1>3, <1>5, <2>2, EventFrame
       DEF IInv, TypeInv, EarlyLabels, BackLabels, Ops
  <2> QED  BY <1>3, <2>4, <2>5, <2>6, <2>7 DEF IInv
<1> QED  BY <1>1, <1>4, <1>5

LEMMA ProcessDisconnectKeeps ==
    ASSUME IInv, NEW w \in Workers, ProcessDisconnect(w)
    PROVE  IInv'
<1>1. /\ pc[w] = "processDisconnect" /\ Goto(w, "onDisconnected")
      /\ owner' = [owner EXCEPT !["disconnect"] = FALSE]
      /\ UNCHANGED <<connected, sendRegistered, posted, registry, crashed>>
  BY DEF ProcessDisconnect, SetOwner, At, sending
<1>2. ~Early
  BY <1>1, Late DEF IInv, EarlyLabels
<1>3. StackInv' /\ Moves(w) /\ AllStay(w) /\ pc'[w] = "onDisconnected"
  BY <1>1, OneUsesInv, GotoAll DEF SendLabels, RecvLabels, DisconnectLabels, Labels
<1>4. SendInv' /\ RecvInv' /\ DisconnectInv'
  BY <1>1, <1>3, SendFrame, RecvFrame, DisconnectFrame DEF IInv, AllStay
<1>5. posted["disconnect"] = 0
  BY <1>1, AloneInDisconnect DEF DisconnectLabels
<1>6. OwnerInv'
  BY <1>1, <1>3, <1>5 DEF IInv, OwnerInv, TypeInv, Moves, Ops
<1>7. TypeInv' /\ RegistryInv'
  BY <1>1, <1>2, <1>3, EventFrame DEF IInv, TypeInv, EarlyLabels
<1> QED  BY <1>3, <1>4, <1>6, <1>7 DEF IInv

LEMMA OnDisconnectedKeeps ==
    ASSUME IInv, NEW w \in Workers, OnDisconnected(w)
    PROVE  IInv'
<1>1. /\ pc[w] = "onDisconnected" /\ Goto(w, "releaseSession")
      /\ registry' = [registry EXCEPT !["content"] = "out"]
      /\ UNCHANGED <<connected, sendRegistered, owner, posted, crashed>>
  BY DEF OnDisconnected, At, sending
<1>2. ~Early
  BY <1>1, Late DEF IInv, EarlyLabels
<1>3. StackInv' /\ Moves(w) /\ AllStay(w) /\ pc'[w] = "releaseSession"
  BY <1>1, OneUsesInv, GotoAll DEF SendLabels, RecvLabels, DisconnectLabels, Labels
<1>4. /\ registry' \in [Registries -> {"never", "in", "out"}]
      /\ registry'["service"] = registry["service"] /\ registry'["content"] = "out"
  BY <1>1 DEF IInv, TypeInv, Registries
<1>5. SendInv' /\ RecvInv' /\ DisconnectInv'
  BY <1>1, <1>3, <1>4, SendFrame, RecvFrame, DisconnectFrame DEF IInv, AllStay
<1>6. OwnerInv'
  BY <1>1, <1>3, OwnerFrame DEF IInv
<1>7. TypeInv' /\ ~crashed'
  BY <1>1, <1>4 DEF IInv, TypeInv, RegistryInv
<1>8. RegistryInv'
  BY <1>1, <1>2, <1>3, <1>4, <1>7, RegistryFrame DEF IInv, EarlyLabels
<1> QED  BY <1>3, <1>5, <1>6, <1>7, <1>8 DEF IInv

\* The session is in the service's set when ReleaseSession erases it, and is
\* disconnected for good.
LEMMA ReleaseSessionKeeps ==
    ASSUME IInv, NEW w \in Workers, ReleaseSession(w)
    PROVE  IInv'
<1>1. /\ pc[w] = "releaseSession"
      /\ UNCHANGED <<connected, sendRegistered, owner, posted>>
  BY DEF ReleaseSession, At, sending
<1>2. /\ Within(w, DisconnectLabels) /\ posted["disconnect"] = 0
      /\ ~connected /\ registry["service"] = "in"
  BY <1>1, AloneInDisconnect DEF DisconnectLabels
<1>3. registry' = [registry EXCEPT !["service"] = "out"] /\ Return(w) /\ UNCHANGED crashed
  BY <1>2 DEF ReleaseSession
<1>4. ~Early
  BY <1>1, Late DEF IInv, EarlyLabels
<1>5. /\ StackInv' /\ Moves(w) /\ AllStay(w) /\ pc'[w] \in BackLabels
      /\ ~Within(w, DisconnectLabels)'
  BY <1>1, <1>3, OneUsesInv, ReturnAll DEF DisconnectLabels
<1>6. /\ registry' \in [Registries -> {"never", "in", "out"}]
      /\ registry'["content"] = registry["content"]
  BY <1>3 DEF IInv, TypeInv, Registries
<1>7. Nobody(DisconnectLabels)' /\ Alone(DisconnectLabels)'
  BY <1>2, <1>5, UserLeaves, UsersStay DEF IInv, DisconnectInv, OneUser, AllStay
<1>8. DisconnectInv'
  BY <1>1, <1>2, <1>5, <1>7 DEF DisconnectInv, OneUser, AllStay, Stays
<1>9. SendInv' /\ RecvInv'
  BY <1>1, <1>5, SendFrame, RecvFrame DEF IInv, AllStay
<1>10. OwnerInv'
  BY <1>1, <1>5, OwnerFrame DEF IInv, BackLabels
<1>11. TypeInv' /\ ~crashed'
  BY <1>1, <1>3, <1>6 DEF IInv, TypeInv, RegistryInv
<1>12. RegistryInv'
  BY <1>1, <1>2, <1>4, <1>5, <1>6, <1>11, RegistryFrame DEF IInv, EarlyLabels, BackLabels
<1> QED  BY <1>5, <1>8, <1>9, <1>10, <1>11, <1>12 DEF IInv

-----------------------------------------------------------------------------
(* One lemma per action: connecting *)

\* A worker that starts the connection is alone with the session: the others
\* are idle, and nothing is posted.
LEMMA AloneInRecv ==
    ASSUME IInv, NEW w \in Workers, pc[w] \in RecvLabels
    PROVE  /\ Within(w, RecvLabels) /\ posted["recv"] = 0 /\ posted["connect"] = 0
           /\ \A u \in Workers \ {w} : pc[u] \notin RecvLabels
  BY DEF IInv, RecvInv, OneUser, Nobody, Alone, Within

LEMMA AloneEarly ==
    ASSUME IInv, NEW w \in Workers, pc[w] \in EarlyLabels
    PROVE  /\ \A op \in Ops : posted[op] = 0
           /\ \A u \in Workers \ {w} : pc[u] = "idle"
           /\ registry["content"] = "never" /\ ~crashed
           /\ Nobody(DisconnectLabels)
<1>1. posted["connect"] = 0 /\ \A u \in Workers \ {w} : pc[u] \notin EarlyLabels
  BY AloneInRecv DEF RecvLabels, EarlyLabels
<1>2. Early
  BY DEF Early
<1>3. \A u \in Workers : pc[u] \in EarlyLabels \cup {"idle"}
  BY <1>2 DEF IInv, RegistryInv
<1>4. ASSUME NEW u \in Workers, NEW i \in DOMAIN stack[u]
      PROVE  stack[u][i] \notin DisconnectLabels
  <2>1. stack[u] \in Seq(BackLabels)
    BY DEF IInv, StackInv
  <2> QED  BY <1>4, <2>1 DEF BackLabels, DisconnectLabels
<1>5. Nobody(DisconnectLabels)
  BY <1>3, <1>4 DEF Nobody, Within, EarlyLabels, DisconnectLabels
<1> QED  BY <1>1, <1>2, <1>3, <1>5 DEF IInv, RegistryInv, Ops

LEMMA ProcessConnectKeeps ==
    ASSUME IInv, NEW w \in Workers, ProcessConnect(w)
    PROVE  IInv'
<1>1. /\ pc[w] = "processConnect" /\ owner' = [owner EXCEPT !["connect"] = FALSE]
      /\ UNCHANGED <<sendRegistered, posted, registry, crashed>>
      /\ \/ connected' = FALSE /\ Return(w)
         \/ connected' = TRUE /\ Goto(w, "addSession")
  BY DEF ProcessConnect, SetOwner, At, sending
<1>2. /\ \A op \in Ops : posted[op] = 0
      /\ \A u \in Workers \ {w} : pc[u] = "idle"
      /\ registry["content"] = "never" /\ ~crashed
      /\ Nobody(DisconnectLabels)
  BY <1>1, AloneEarly DEF EarlyLabels
<1>3. /\ StackInv' /\ Moves(w) /\ AllStay(w)
      /\ \/ connected' = FALSE /\ pc'[w] \in BackLabels
         \/ connected' = TRUE /\ pc'[w] = "addSession"
  BY <1>1, OneUsesInv, GotoAll, ReturnAll DEF SendLabels, RecvLabels, DisconnectLabels, Labels
<1>4. SendInv' /\ RecvInv'
  BY <1>1, <1>3, SendFrame, RecvFrame DEF IInv, AllStay
<1>5. Nobody(DisconnectLabels)' /\ Alone(DisconnectLabels)'
  BY <1>2, <1>3, UsersStay DEF IInv, DisconnectInv, OneUser, AllStay
<1>6. DisconnectInv'
  BY <1>1, <1>2, <1>3, <1>5 DEF DisconnectInv, OneUser, AllStay, Stays, Ops
<1>7. OwnerInv'
  BY <1>1, <1>2, <1>3 DEF IInv, OwnerInv, TypeInv, Moves, BackLabels, Ops
<1>8. TypeInv'
  BY <1>1 DEF IInv, TypeInv
<1>9. RegistryInv'
  <2>1. registry["service"] = "never"
    BY <1>1 DEF IInv, RegistryInv
  <2>2. \A u \in Workers \ {w} : pc'[u] = "idle"
    BY <1>2, <1>3 DEF Moves
  <2>3. ~crashed' /\ posted'["connect"] = 0
    BY <1>1, <1>2 DEF Ops
  <2>4. CASE connected' = FALSE /\ pc'[w] \in BackLabels
    <3>1. ~Early'
      BY <2>2, <2>3, <2>4 DEF Early, EarlyLabels, BackLabels
    <3> QED  BY <2>2, <2>3, <2>4, <3>1 DEF RegistryInv, BackLabels
  <2>5. CASE connected' = TRUE /\ pc'[w] = "addSession"
    BY <1>1, <1>2, <2>1, <2>2, <2>3, <2>5 DEF RegistryInv, EarlyLabels
  <2> QED  BY <1>3, <2>4, <2>5
<1> QED  BY <1>3, <1>4, <1>6, <1>7, <1>8, <1>9 DEF IInv

LEMMA AddSessionKeeps ==
    ASSUME IInv, NEW w \in Workers, AddSession(w)
    PROVE  IInv'
<1>1. /\ pc[w] = "addSession" /\ registry' = [registry EXCEPT !["service"] = "in"]
      /\ Goto(w, "onConnected")
      /\ UNCHANGED <<connected, sendRegistered, owner, posted, crashed>>
  BY DEF AddSession, At, sending
<1>2. /\ \A op \in Ops : posted[op] = 0
      /\ \A u \in Workers \ {w} : pc[u] = "idle"
      /\ registry["content"] = "never" /\ ~crashed
      /\ Nobody(DisconnectLabels)
  BY <1>1, AloneEarly DEF EarlyLabels
<1>3. StackInv' /\ Moves(w) /\ AllStay(w) /\ pc'[w] = "onConnected"
  BY <1>1, OneUsesInv, GotoAll DEF SendLabels, RecvLabels, DisconnectLabels, Labels
<1>4. /\ registry' \in [Registries -> {"never", "in", "out"}]
      /\ registry'["service"] = "in" /\ registry'["content"] = "never"
  BY <1>1, <1>2 DEF IInv, TypeInv, Registries
<1>5. SendInv' /\ RecvInv'
  BY <1>1, <1>3, SendFrame, RecvFrame DEF IInv, AllStay
<1>6. Nobody(DisconnectLabels)' /\ Alone(DisconnectLabels)'
  BY <1>2, <1>3, UsersStay DEF IInv, DisconnectInv, OneUser, AllStay
<1>7. DisconnectInv'
  BY <1>1, <1>2, <1>3, <1>6 DEF DisconnectInv, OneUser, AllStay, Stays, Ops
<1>8. OwnerInv'
  BY <1>1, <1>3, OwnerFrame DEF IInv
<1>9. TypeInv'
  BY <1>1, <1>4 DEF IInv, TypeInv
<1>10. RegistryInv'
  <2>1. connected
    BY <1>1 DEF IInv, RegistryInv
  <2>2. \A u \in Workers \ {w} : pc'[u] = "idle"
    BY <1>2, <1>3 DEF Moves
  <2>3. ~crashed' /\ posted' = posted /\ connected'
    BY <1>1, <1>2, <2>1
  <2> QED  BY <1>2, <1>3, <1>4, <2>2, <2>3 DEF RegistryInv, EarlyLabels, Ops
<1> QED  BY <1>3, <1>5, <1>7, <1>8, <1>9, <1>10 DEF IInv

LEMMA OnConnectedKeeps ==
    ASSUME IInv, NEW w \in Workers, OnConnected(w)
    PROVE  IInv'
<1>1. /\ pc[w] = "onConnected" /\ registry' = [registry EXCEPT !["content"] = "in"]
      /\ Goto(w, "registerRecv") \/ Call(w, "send", "registerRecv")
      /\ UNCHANGED <<connected, sendRegistered, owner, posted, crashed>>
  BY DEF OnConnected, At, sending
<1>2. /\ \A op \in Ops : posted[op] = 0
      /\ \A u \in Workers \ {w} : pc[u] = "idle"
      /\ registry["content"] = "never" /\ ~crashed
      /\ Nobody(DisconnectLabels)
  BY <1>1, AloneEarly DEF EarlyLabels
<1>3. StackInv' /\ Moves(w) /\ AllStay(w) /\ pc'[w] \in {"registerRecv", "send"}
  BY <1>1, OneUsesInv, GotoAll, CallAll
     DEF SendLabels, RecvLabels, DisconnectLabels, BackLabels, Labels
<1>4. /\ registry' \in [Registries -> {"never", "in", "out"}]
      /\ registry'["service"] = registry["service"]
  BY <1>1, <1>2 DEF IInv, TypeInv, Registries
<1>5. SendInv' /\ RecvInv' /\ DisconnectInv'
  BY <1>1, <1>3, <1>4, SendFrame, RecvFrame, DisconnectFrame DEF IInv, AllStay
<1>6. OwnerInv'
  BY <1>1, <1>3, OwnerFrame DEF IInv
<1>7. TypeInv'
  BY <1>1, <1>4 DEF IInv, TypeInv
<1>8. RegistryInv'
  <2>1. \A u \in Workers \ {w} : pc'[u] = "idle"
    BY <1>2, <1>3 DEF Moves
  <2>2. ~crashed' /\ posted'["connect"] = 0
    BY <1>1, <1>2 DEF Ops
  <2>3. registry'["service"] = "in"
    BY <1>1, <1>2, <1>4 DEF IInv, RegistryInv
  <2>4. ~Early'
    BY <1>3, <2>1, <2>2 DEF Early, EarlyLabels
  <2> QED  BY <1>3, <2>1, <2>2, <2>3, <2>4 DEF RegistryInv
<1> QED  BY <1>3, <1>5, <1>6, <1>7, <1>8 DEF IInv
-----------------------------------------------------------------------------
(* One lemma per action: receiving *)

LEMMA RegisterRecvKeeps ==
    ASSUME IInv, NEW w \in Workers, RegisterRecv(w)
    PROVE  IInv'
<1>1. Quiet /\ pc[w] = "registerRecv" /\ (Goto(w, "wsaRecv") \/ Return(w))
  BY DEF RegisterRecv, At, Quiet, sending, messages, budgets
<1>2. ~Early
  BY <1>1, Late DEF IInv, EarlyLabels
<1>3. StackInv' /\ Moves(w) /\ AllStay(w) /\ pc'[w] \in BackLabels \cup {"wsaRecv"}
  BY <1>1, OneUsesInv, GotoAll, ReturnAll DEF SendLabels, RecvLabels, DisconnectLabels, Labels
<1> QED  BY <1>1, <1>2, <1>3, QuietFrame DEF EarlyLabels, BackLabels

LEMMA WsaRecvKeeps ==
    ASSUME IInv, NEW w \in Workers, WsaRecv(w)
    PROVE  IInv'
<1>1. /\ pc[w] = "wsaRecv" /\ Return(w)
      /\ owner' = [owner EXCEPT !["recv"] = TRUE]
      /\ posted' = [posted EXCEPT !["recv"] = @ + 1]
      /\ UNCHANGED <<connected, sendRegistered, registry, crashed>>
  BY DEF WsaRecv, Post, SetOwner, At, sending
<1>2. ~Early
  BY <1>1, Late DEF IInv, EarlyLabels
<1>3. /\ StackInv' /\ Moves(w) /\ AllStay(w) /\ pc'[w] \in BackLabels
      /\ ~Within(w, RecvLabels)'
  BY <1>1, OneUsesInv, ReturnAll DEF RecvLabels
<1>4. Within(w, RecvLabels) /\ posted["recv"] = 0 /\ posted["connect"] = 0
  BY <1>1, AloneInRecv DEF RecvLabels
<1>5. /\ posted' \in [Ops -> Nat] /\ posted'["recv"] = 1
      /\ \A op \in Ops \ {"recv"} : posted'[op] = posted[op]
  BY <1>1, <1>4 DEF IInv, TypeInv, Ops
<1>6. Nobody(RecvLabels)' /\ Alone(RecvLabels)'
  BY <1>3, <1>4, UserLeaves, UsersStay DEF IInv, RecvInv, OneUser, AllStay
<1>7. RecvInv'
  BY <1>3, <1>4, <1>5, <1>6 DEF RecvInv, OneUser, AllStay, Stays, Ops
<1>8. SendInv' /\ DisconnectInv'
  BY <1>1, <1>3, <1>5, SendFrame, DisconnectFrame DEF IInv, AllStay, Ops
<1>9. OwnerInv'
  BY <1>1, <1>3, <1>5 DEF IInv, OwnerInv, TypeInv, Moves, BackLabels, Ops
<1>10. TypeInv' /\ RegistryInv'
  BY <1>1, <1>2, <1>3, <1>5, EventFrame DEF IInv, TypeInv, EarlyLabels, BackLabels, Ops
<1> QED  BY <1>3, <1>7, <1>8, <1>9, <1>10 DEF IInv

LEMMA WsaRecvFailsKeeps ==
    ASSUME IInv, NEW w \in Workers, WsaRecvFails(w)
    PROVE  IInv'
<1>1. /\ pc[w] = "wsaRecv" /\ owner' = [owner EXCEPT !["recv"] = TRUE]
      /\ Call(w, "disconnect", "recvFailed") \/ Goto(w, "recvFailed")
      /\ UNCHANGED <<connected, sendRegistered, posted, registry, crashed>>
  BY DEF WsaRecvFails, SetOwner, At, sending
<1>2. ~Early
  BY <1>1, Late DEF IInv, EarlyLabels
<1>3. StackInv' /\ Moves(w) /\ AllStay(w) /\ pc'[w] \in {"disconnect", "recvFailed"}
  BY <1>1, OneUsesInv, GotoAll, CallAll
     DEF SendLabels, RecvLabels, DisconnectLabels, BackLabels, Labels
<1>4. SendInv' /\ RecvInv' /\ DisconnectInv'
  BY <1>1, <1>3, SendFrame, RecvFrame, DisconnectFrame DEF IInv, AllStay
<1>5. OwnerInv'
  BY <1>1, <1>3 DEF IInv, OwnerInv, TypeInv, Moves, Ops
<1>6. TypeInv' /\ RegistryInv'
  BY <1>1, <1>2, <1>3, EventFrame DEF IInv, TypeInv, EarlyLabels
<1> QED  BY <1>3, <1>4, <1>5, <1>6 DEF IInv

\* The receive's owner is dropped by the one worker that has its completion.
LEMMA RecvDropped ==
    ASSUME IInv, NEW w \in Workers, pc[w] \in RecvLabels \ EarlyLabels,
           owner' = [owner EXCEPT !["recv"] = FALSE],
           UNCHANGED <<connected, sendRegistered, posted, registry, crashed>>,
           StackInv', Moves(w), AllStay(w),
           pc'[w] \in BackLabels \cup {"disconnect", "onRecv"}
    PROVE  IInv'
<1>1. pc[w] # "idle" /\ posted["recv"] = 0
  BY AloneInRecv DEF RecvLabels
<1>2. ~Early
  BY <1>1, Late DEF IInv
<1>3. SendInv' /\ RecvInv' /\ DisconnectInv'
  BY SendFrame, RecvFrame, DisconnectFrame DEF IInv, AllStay
<1>4. OwnerInv'
  BY <1>1 DEF IInv, OwnerInv, TypeInv, Moves, BackLabels, Ops
<1>5. TypeInv' /\ RegistryInv'
  BY <1>2, EventFrame DEF IInv, TypeInv, EarlyLabels, BackLabels
<1> QED  BY <1>3, <1>4, <1>5 DEF IInv

LEMMA RecvFailedKeeps ==
    ASSUME IInv, NEW w \in Workers, RecvFailed(w)
    PROVE  IInv'
<1>1. /\ pc[w] = "recvFailed" /\ Return(w)
      /\ owner' = [owner EXCEPT !["recv"] = FALSE]
      /\ UNCHANGED <<connected, sendRegistered, posted, registry, crashed>>
  BY DEF RecvFailed, SetOwner, At, sending
<1>2. StackInv' /\ Moves(w) /\ AllStay(w) /\ pc'[w] \in BackLabels
  BY <1>1, OneUsesInv, ReturnAll
<1> QED  BY <1>1, <1>2, RecvDropped DEF RecvLabels, EarlyLabels

LEMMA ProcessRecvNothingKeeps ==
    ASSUME IInv, NEW w \in Workers, ProcessRecvNothing(w)
    PROVE  IInv'
<1>1. /\ pc[w] = "processRecv" /\ Goto(w, "disconnect")
      /\ owner' = [owner EXCEPT !["recv"] = FALSE]
      /\ UNCHANGED <<connected, sendRegistered, posted, registry, crashed>>
  BY DEF ProcessRecvNothing, SetOwner, At, sending
<1>2. StackInv' /\ Moves(w) /\ AllStay(w) /\ pc'[w] = "disconnect"
  BY <1>1, OneUsesInv, GotoAll DEF SendLabels, RecvLabels, DisconnectLabels, Labels
<1> QED  BY <1>1, <1>2, RecvDropped DEF RecvLabels, EarlyLabels

LEMMA ProcessRecvKeeps ==
    ASSUME IInv, NEW w \in Workers, ProcessRecv(w)
    PROVE  IInv'
<1>1. /\ pc[w] = "processRecv" /\ Goto(w, "onRecv")
      /\ owner' = [owner EXCEPT !["recv"] = FALSE]
      /\ UNCHANGED <<connected, sendRegistered, posted, registry, crashed>>
  BY DEF ProcessRecv, SetOwner, At, sending
<1>2. StackInv' /\ Moves(w) /\ AllStay(w) /\ pc'[w] = "onRecv"
  BY <1>1, OneUsesInv, GotoAll DEF SendLabels, RecvLabels, DisconnectLabels, Labels
<1> QED  BY <1>1, <1>2, RecvDropped DEF RecvLabels, EarlyLabels

LEMMA OnRecvReturnsKeeps ==
    ASSUME IInv, NEW w \in Workers, OnRecvReturns(w)
    PROVE  IInv'
<1>1. Quiet /\ pc[w] = "onRecv" /\ (Goto(w, "registerRecv") \/ Goto(w, "disconnect"))
  BY DEF OnRecvReturns, At, Quiet, sending, messages, budgets
<1>2. ~Early
  BY <1>1, Late DEF IInv, EarlyLabels
<1>3. StackInv' /\ Moves(w) /\ AllStay(w) /\ pc'[w] \in {"registerRecv", "disconnect"}
  BY <1>1, OneUsesInv, GotoAll DEF SendLabels, RecvLabels, DisconnectLabels, Labels
<1> QED  BY <1>1, <1>2, <1>3, QuietFrame DEF EarlyLabels

-----------------------------------------------------------------------------
(* One lemma per completion *)

\* A completion's event has an owner, and its handler is the operation's.
LEMMA Dequeued ==
    ASSUME IInv, NEW w \in Workers, NEW op \in Ops, Dispatch(w, op)
    PROVE  /\ posted[op] = 1 /\ posted' \in [Ops -> Nat] /\ posted'[op] = 0
           /\ \A other \in Ops \ {op} : posted'[other] = posted[other]
           /\ StackInv' /\ Moves(w) /\ pc[w] = "idle"
           /\ pc'[w] = Handler[op] /\ stack'[w] = <<"idle">> \o stack[w]
           /\ UNCHANGED <<connected, sendRegistered, owner, registry, crashed>>
           /\ TypeInv' /\ ~crashed'
<1>1. pc[w] = "idle" /\ posted[op] > 0 /\ posted' = [posted EXCEPT ![op] = @ - 1]
  BY DEF Dispatch, At
<1>2. \A o \in Ops : posted[o] \in {0, 1}
  BY DEF IInv, SendInv, RecvInv, DisconnectInv, OneUser, Ops
<1>3. posted[op] = 1 /\ owner[op]
  BY <1>1, <1>2 DEF IInv, OwnerInv
<1>4. Call(w, Handler[op], "idle")
      /\ UNCHANGED <<connected, sendRegistered, owner, registry, crashed>>
  BY <1>3 DEF Dispatch, sending
<1>5. Handler[op] \in Labels \ {"idle"} /\ "idle" \in BackLabels
  BY DEF Handler, Ops, Labels, BackLabels
<1>6. /\ StackInv' /\ Moves(w) /\ pc'[w] = Handler[op]
      /\ stack'[w] = <<"idle">> \o stack[w]
  BY <1>1, <1>4, <1>5, CallMoves DEF IInv
<1>7. /\ posted' \in [Ops -> Nat] /\ posted'[op] = 0
      /\ \A other \in Ops \ {op} : posted'[other] = posted[other]
  BY <1>1, <1>3 DEF IInv, TypeInv
<1> QED  BY <1>1, <1>3, <1>4, <1>6, <1>7 DEF IInv, TypeInv, RegistryInv

\* Apart from the connection's, a completion is dequeued only once the
\* connection is set up.
LEMMA DequeuedLate ==
    ASSUME IInv, NEW w \in Workers, NEW op \in Ops \ {"connect"}, Dispatch(w, op)
    PROVE  ~Early /\ RegistryInv'
<1>1. /\ posted[op] = 1 /\ posted'["connect"] = posted["connect"]
      /\ Moves(w) /\ pc'[w] = Handler[op] /\ ~crashed'
      /\ UNCHANGED <<connected, registry>>
  BY Dequeued DEF Ops
<1>2. ~Early
  BY <1>1 DEF IInv, RegistryInv
<1>3. pc'[w] \notin EarlyLabels /\ pc'[w] # "releaseSession"
  BY <1>1 DEF Handler, Ops, EarlyLabels
<1> QED  BY <1>1, <1>2, <1>3, RegistryFrame DEF IInv

LEMMA DispatchSendKeeps ==
    ASSUME IInv, NEW w \in Workers, Dispatch(w, "send")
    PROVE  IInv'
<1>1. /\ posted["send"] = 1 /\ posted' \in [Ops -> Nat] /\ posted'["send"] = 0
      /\ \A other \in Ops \ {"send"} : posted'[other] = posted[other]
      /\ StackInv' /\ Moves(w) /\ pc[w] = "idle"
      /\ pc'[w] = "processSend" /\ stack'[w] = <<"idle">> \o stack[w]
      /\ UNCHANGED <<connected, sendRegistered, owner, registry, crashed>>
      /\ TypeInv' /\ RegistryInv'
  BY Dequeued, DequeuedLate DEF Ops, Handler
<1>2. Nobody(SendLabels) /\ ~Within(w, SendLabels) /\ sendRegistered
  BY <1>1 DEF IInv, SendInv, OneUser, Nobody
<1>3. "idle" \in BackLabels /\ "idle" \notin SendLabels \cup RecvLabels \cup DisconnectLabels
      /\ "processSend" \notin RecvLabels \cup DisconnectLabels
  BY DEF BackLabels, SendLabels, RecvLabels, DisconnectLabels
<1>4. OneUse(SendLabels)' /\ Stays(w, RecvLabels) /\ Stays(w, DisconnectLabels)
  BY <1>1, <1>2, <1>3, OneUsesInv, CallStays DEF OneUses
<1>5. SendInv'
  BY <1>1, <1>2, <1>4, UserEnters DEF SendInv, OneUser
<1>6. RecvInv' /\ DisconnectInv'
  BY <1>1, <1>4, RecvFrame, DisconnectFrame DEF IInv, Ops
<1>7. OwnerInv'
  BY <1>1 DEF IInv, OwnerInv, Moves, Ops
<1> QED  BY <1>1, <1>5, <1>6, <1>7 DEF IInv

LEMMA DispatchDisconnectKeeps ==
    ASSUME IInv, NEW w \in Workers, Dispatch(w, "disconnect")
    PROVE  IInv'
<1>1. /\ posted["disconnect"] = 1 /\ posted' \in [Ops -> Nat] /\ posted'["disconnect"] = 0
      /\ \A other \in Ops \ {"disconnect"} : posted'[other] = posted[other]
      /\ StackInv' /\ Moves(w) /\ pc[w] = "idle"
      /\ pc'[w] = "processDisconnect" /\ stack'[w] = <<"idle">> \o stack[w]
      /\ UNCHANGED <<connected, sendRegistered, owner, registry, crashed>>
      /\ TypeInv' /\ RegistryInv'
  BY Dequeued, DequeuedLate DEF Ops, Handler
<1>2. /\ Nobody(DisconnectLabels) /\ ~Within(w, DisconnectLabels)
      /\ ~connected /\ registry["service"] = "in"
  BY <1>1 DEF IInv, TypeInv, DisconnectInv, OneUser, Nobody
<1>3. "idle" \in BackLabels /\ "idle" \notin SendLabels \cup RecvLabels \cup DisconnectLabels
      /\ "processDisconnect" \notin RecvLabels \cup SendLabels
  BY DEF BackLabels, SendLabels, RecvLabels, DisconnectLabels
<1>4. OneUse(DisconnectLabels)' /\ Stays(w, RecvLabels) /\ Stays(w, SendLabels)
  BY <1>1, <1>2, <1>3, OneUsesInv, CallStays DEF OneUses
<1>5. DisconnectInv'
  BY <1>1, <1>2, <1>4, UserEnters DEF DisconnectInv, OneUser
<1>6. RecvInv' /\ SendInv'
  BY <1>1, <1>4, RecvFrame, SendFrame DEF IInv, Ops
<1>7. OwnerInv'
  BY <1>1 DEF IInv, OwnerInv, Moves, Ops
<1> QED  BY <1>1, <1>5, <1>6, <1>7 DEF IInv

\* The receive event's user was Windows, with the connection or a receive.
LEMMA DispatchRecvKeeps ==
    ASSUME IInv, NEW w \in Workers, NEW op \in {"recv", "connect"}, Dispatch(w, op),
           RegistryInv'
    PROVE  IInv'
<1>1. /\ op \in Ops /\ posted[op] = 1 /\ posted' \in [Ops -> Nat] /\ posted'[op] = 0
      /\ \A other \in Ops \ {op} : posted'[other] = posted[other]
      /\ StackInv' /\ Moves(w) /\ pc[w] = "idle"
      /\ pc'[w] = Handler[op] /\ stack'[w] = <<"idle">> \o stack[w]
      /\ UNCHANGED <<connected, sendRegistered, owner, registry, crashed>>
      /\ TypeInv'
  BY Dequeued DEF Ops
<1>2. /\ Nobody(RecvLabels) /\ ~Within(w, RecvLabels)
      /\ posted'["recv"] = 0 /\ posted'["connect"] = 0
  BY <1>1 DEF IInv, RecvInv, OneUser, Nobody, Ops
<1>3. "idle" \in BackLabels /\ "idle" \notin SendLabels \cup RecvLabels \cup DisconnectLabels
      /\ Handler[op] \notin DisconnectLabels \cup SendLabels \cup {"wsaSend"}
  BY DEF BackLabels, SendLabels, RecvLabels, DisconnectLabels, Handler, Ops
<1>4. OneUse(RecvLabels)' /\ Stays(w, SendLabels) /\ Stays(w, DisconnectLabels)
  BY <1>1, <1>2, <1>3, OneUsesInv, CallStays DEF OneUses
<1>5. RecvInv'
  BY <1>1, <1>2, <1>4, UserEnters DEF RecvInv, OneUser
<1>6. DisconnectInv' /\ SendInv'
  BY <1>1, <1>4, DisconnectFrame, SendFrame DEF IInv, Ops
<1>7. OwnerInv'
  BY <1>1, <1>3 DEF IInv, OwnerInv, Moves
<1> QED  BY <1>1, <1>5, <1>6, <1>7 DEF IInv

LEMMA DispatchConnectRegistry ==
    ASSUME IInv, NEW w \in Workers, Dispatch(w, "connect")
    PROVE  RegistryInv'
<1>1. /\ posted["connect"] = 1 /\ posted' \in [Ops -> Nat] /\ posted'["connect"] = 0
      /\ \A other \in Ops \ {"connect"} : posted'[other] = posted[other]
      /\ Moves(w) /\ pc'[w] = "processConnect"
      /\ UNCHANGED <<connected, registry>> /\ ~crashed'
  BY Dequeued DEF Ops, Handler
<1>2. Early
  BY <1>1 DEF Early
<1>3. \A u \in Workers : pc[u] \notin RecvLabels
  BY <1>1 DEF IInv, RecvInv, OneUser, Nobody, Within
<1>4. \A u \in Workers \ {w} : pc'[u] = "idle"
  BY <1>1, <1>2, <1>3 DEF IInv, RegistryInv, Moves, EarlyLabels, RecvLabels
<1>5. ~connected /\ registry["service"] = "never" /\ registry["content"] = "never"
      /\ \A op \in Ops \ {"connect"} : posted[op] = 0
  BY <1>1, <1>2 DEF IInv, RegistryInv
<1> QED  BY <1>1, <1>4, <1>5 DEF RegistryInv, EarlyLabels

LEMMA DispatchKeeps ==
    ASSUME IInv, NEW w \in Workers, NEW op \in Ops, Dispatch(w, op)
    PROVE  IInv'
<1>1. CASE op = "connect"
  BY <1>1, DispatchConnectRegistry, DispatchRecvKeeps
<1>2. CASE op = "recv"
  <2>1. RegistryInv'
    BY <1>2, DequeuedLate DEF Ops
  <2> QED  BY <1>2, <2>1, DispatchRecvKeeps
<1>3. CASE op = "send"
  BY <1>3, DispatchSendKeeps
<1>4. CASE op = "disconnect"
  BY <1>4, DispatchDisconnectKeeps
<1> QED  BY <1>1, <1>2, <1>3, <1>4 DEF Ops
-----------------------------------------------------------------------------
(* The invariant *)

LEMMA InitHolds == Init => IInv
<1> SUFFICES ASSUME Init PROVE IInv
  OBVIOUS
<1>1. TypeInv /\ OwnerInv
  <2>1. owner \in [Ops -> BOOLEAN]
    BY DEF Init
  <2>2. owner["connect"]
    BY DEF Init, Ops
  <2>3. \A op \in Ops : posted[op] \in {0, 1} /\ (posted[op] = 1 => op = "connect")
    BY DEF Init, Ops
  <2>4. posted \in [Ops -> Nat] /\ \A w \in Workers : pc[w] = "idle"
    BY DEF Init
  <2> QED  BY <2>1, <2>2, <2>3, <2>4 DEF Init, TypeInv, OwnerInv, Registries
<1>2. StackInv
  BY DEF Init, StackInv, Labels, BackLabels
<1>3. ASSUME NEW L, "idle" \notin L
      PROVE  OneUse(L) /\ Alone(L) /\ Nobody(L)
  BY <1>3 DEF Init, OneUse, Alone, Nobody, Within
<1>4. /\ OneUses /\ Alone(SendLabels) /\ Nobody(SendLabels)
      /\ Alone(RecvLabels) /\ Nobody(RecvLabels)
      /\ Alone(DisconnectLabels) /\ Nobody(DisconnectLabels)
  BY <1>3 DEF OneUses, SendLabels, RecvLabels, DisconnectLabels
<1>5. /\ posted["connect"] = 1 /\ posted["send"] = 0
      /\ posted["recv"] = 0 /\ posted["disconnect"] = 0
  BY DEF Init, Ops
<1>6. SendInv /\ RecvInv /\ DisconnectInv
  BY <1>4, <1>5 DEF SendInv, RecvInv, DisconnectInv, OneUser, OneUses
<1>7. RegistryInv
  BY <1>5 DEF Init, RegistryInv, EarlyLabels, Ops, Registries
<1> QED  BY <1>1, <1>2, <1>6, <1>7 DEF IInv

LEMMA ContinueKeeps ==
    ASSUME IInv, NEW w \in Workers, Continue(w)
    PROVE  IInv'
  BY SendCheckKeeps, SendPushKeeps, RegisterSendKeeps, TakeQueueKeeps, WsaSendKeeps,
     WsaSendFailsKeeps, SendFailedKeeps, ProcessSendKeeps, SendNextKeeps, UnlockKeeps,
     DisconnectKeeps, RegisterDisconnectKeeps, ProcessDisconnectKeeps, OnDisconnectedKeeps,
     ReleaseSessionKeeps, ProcessConnectKeeps, AddSessionKeeps, OnConnectedKeeps,
     RegisterRecvKeeps, WsaRecvKeeps, WsaRecvFailsKeeps, RecvFailedKeeps,
     ProcessRecvNothingKeeps, ProcessRecvKeeps, OnRecvReturnsKeeps
     DEF Continue

LEMMA StutterKeeps ==
    ASSUME IInv, UNCHANGED vars
    PROVE  IInv'
  BY DEF IInv, vars, threads, sending, TypeInv, StackInv, SendInv, RecvInv, DisconnectInv,
         OwnerInv, RegistryInv, Early, OneUse, OneUser, Alone, Nobody, Within

LEMMA NextKeeps == IInv /\ [Next]_vars => IInv'
<1> SUFFICES ASSUME IInv, [Next]_vars PROVE IInv'
  OBVIOUS
<1>1. CASE UNCHANGED vars
  BY <1>1, StutterKeeps
<1>2. CASE Next
  <2>1. PICK w \in Workers : CallSend(w) \/ Continue(w) \/ \E op \in Ops : Dispatch(w, op)
    BY <1>2 DEF Next
  <2> QED  BY <2>1, CallSendKeeps, ContinueKeeps, DispatchKeeps
<1> QED  BY <1>1, <1>2

\* The inductive invariant holds in every reachable state.
THEOREM Invariance == Spec => []IInv
  BY InitHolds, NextKeeps, PTL DEF Spec

-----------------------------------------------------------------------------
(* Every event has one user *)

LEMMA AtMostOne ==
    ASSUME NEW S \in SUBSET Workers, \A w, u \in S : w = u
    PROVE  Cardinality(S) \in {0, 1} /\ (S = {} => Cardinality(S) = 0)
<1>1. CASE S = {}
  BY <1>1, FS_EmptySet
<1>2. CASE S # {}
  <2>1. PICK w \in S : S = {w}
    BY <1>2
  <2> QED  BY <1>2, <2>1, FS_Singleton
<1> QED  BY <1>1, <1>2

LEMMA ExclusiveHolds ==
    ASSUME IInv
    PROVE  EventsExclusive
<1>1. SendEventExclusive
  <2>1. SendRegistrars = {w \in Workers : Within(w, SendLabels)}
    BY DEF SendRegistrars, SendLabels
  <2>2. /\ Cardinality(SendRegistrars) \in {0, 1}
        /\ posted["send"] = 1 => Cardinality(SendRegistrars) = 0
    BY <2>1, AtMostOne DEF IInv, SendInv, OneUser, Alone, Nobody
  <2> QED  BY <2>2 DEF SendEventExclusive, IInv, SendInv, OneUser
<1>2. RecvEventExclusive
  <2> DEFINE S == {w \in Workers : Within(w, RecvLabels)}
  <2>1. /\ Cardinality(S) \in {0, 1}
        /\ posted["recv"] = 1 \/ posted["connect"] = 1 => Cardinality(S) = 0
    BY AtMostOne DEF IInv, RecvInv, OneUser, Alone, Nobody
  <2>2. Cardinality(S) + posted["recv"] + posted["connect"] <= 1
    BY <2>1 DEF IInv, RecvInv, OneUser
  <2> QED  BY <2>2 DEF RecvEventExclusive, RecvLabels
<1>3. InFlightIsOwned
  BY DEF InFlightIsOwned, IInv, OwnerInv, SendInv, RecvInv, DisconnectInv, OneUser, Ops
<1> QED  BY <1>1, <1>2, <1>3 DEF EventsExclusive

\* However many workers share the session and whatever fails: each IocpEvent and
\* its buffers have one user at a time, and the session outlives it.
THEOREM EventsHaveOneUser == Spec => []EventsExclusive
  BY Invariance, ExclusiveHolds, PTL

-----------------------------------------------------------------------------
(* The registries *)

\* One step of the session's history in the sets that hold it.
RegistryStep ==
    /\ \A r \in Registries : registry[r] = "out" => registry'[r] = "out"
    /\ registry'["content"] = "in" => registry'["service"] = "in"

LEMMA RegistryStepHolds == IInv /\ [Next]_vars => [RegistryStep]_registry
<1> SUFFICES ASSUME IInv, Next, registry' # registry PROVE RegistryStep
  BY DEF vars
<1>1. PICK w \in Workers : CallSend(w) \/ Continue(w) \/ \E op \in Ops : Dispatch(w, op)
  BY DEF Next
<1>2. AddSession(w) \/ OnConnected(w) \/ OnDisconnected(w) \/ ReleaseSession(w)
  BY <1>1 DEF CallSend, Continue, Dispatch, SendCheck, SendPush, RegisterSend, TakeQueue,
     WsaSend, WsaSendFails, SendFailed, ProcessSend, SendNext, Unlock, Disconnect,
     RegisterDisconnect, ProcessDisconnect, ProcessConnect, RegisterRecv, WsaRecv,
     WsaRecvFails, RecvFailed, ProcessRecvNothing, ProcessRecv, OnRecvReturns
<1>3. registry \in [Registries -> {"never", "in", "out"}]
  BY DEF IInv, TypeInv
<1>4. CASE AddSession(w)
  <2>1. /\ pc[w] = "addSession" /\ registry' = [registry EXCEPT !["service"] = "in"]
    BY <1>4 DEF AddSession, At
  <2>2. registry["service"] = "never" /\ registry["content"] = "never"
    BY <2>1, AloneEarly DEF IInv, RegistryInv, EarlyLabels
  <2> QED  BY <1>3, <2>1, <2>2 DEF RegistryStep, Registries
<1>5. CASE OnConnected(w)
  <2>1. pc[w] = "onConnected" /\ registry' = [registry EXCEPT !["content"] = "in"]
    BY <1>5 DEF OnConnected, At
  <2>2. registry["content"] = "never" /\ registry["service"] = "in"
    BY <2>1, AloneEarly DEF IInv, RegistryInv, EarlyLabels
  <2> QED  BY <1>3, <2>1, <2>2 DEF RegistryStep, Registries
<1>6. CASE OnDisconnected(w)
  BY <1>3, <1>6 DEF OnDisconnected, RegistryStep, Registries
<1>7. CASE ReleaseSession(w)
  <2>1. pc[w] = "releaseSession"
    BY <1>7 DEF ReleaseSession, At
  <2>2. registry["content"] = "out" /\ registry["service"] = "in"
    BY <2>1, AloneInDisconnect DEF IInv, RegistryInv, DisconnectLabels
  <2> QED  BY <1>3, <1>7, <2>2 DEF ReleaseSession, RegistryStep, Registries
<1> QED  BY <1>2, <1>4, <1>5, <1>6, <1>7

\* ReleaseSession's and Dispatch's assertions hold, a session leaves a registry
\* for good, and content never knows a session that the service has let go of.
THEOREM RegistriesStayNested == Spec => RegistriesNest
<1>1. IInv => ~crashed
  BY DEF IInv, RegistryInv
<1>2. Spec => [](~crashed)
  BY <1>1, Invariance, PTL
<1>3. Spec => [][RegistryStep]_registry
  BY Invariance, RegistryStepHolds, PTL DEF Spec
<1> QED  BY <1>2, <1>3, PTL DEF RegistriesNest, RegistryStep
-----------------------------------------------------------------------------
(***************************************************************************)
(* The messages: what is handed to WSASend is never empty and in order,    *)
(* and nobody waits for a connected session that nobody works for.  Where  *)
(* every failed call disconnects, Session implements SendPipe: Send,       *)
(* RegisterSend and ProcessSend are a pipe that breaks at most once.       *)
(***************************************************************************)
\* Sequences of message numbers.
Increasing(s) == \A i, j \in DOMAIN s : i < j => s[i] < s[j]
Below(s, t) == \A i \in DOMAIN s : \A j \in DOMAIN t : s[i] < t[j]
AtMost(s, n) == \A i \in DOMAIN s : s[i] <= n

CountInv ==
    /\ sendQueue \in Seq(Nat) /\ sendBuffers \in Seq(Nat)
    /\ wire \in Seq(Nat) /\ lost \in Seq(Nat)
    /\ pushed \in Nat /\ others \in Nat

\* What the registrar takes is there to be taken, and joins nothing.
QueueInv ==
    /\ \A w \in Workers :
        /\ pc[w] \in {"registerSend", "takeQueue"} => sendQueue # <<>>
        /\ pc[w] \in {"registerSend", "takeQueue", "sendNext"} => sendBuffers = <<>>
        /\ pc[w] = "wsaSend" => sendBuffers # <<>>
    /\ ~sendRegistered => sendBuffers = <<>>
    /\ Early => ~sendRegistered /\ sendQueue = <<>> /\ lost = <<>>

\* On the wire, taken and queued: three increasing runs, one after the other.
OrderInv ==
    /\ Increasing(wire) /\ Increasing(sendQueue)
    /\ AtMost(wire, pushed) /\ AtMost(sendQueue, pushed) /\ Below(wire, sendQueue)
    /\ \A w \in Workers : pc[w] = "wsaSend" =>
        /\ Increasing(sendBuffers) /\ AtMost(sendBuffers, pushed)
        /\ Below(wire, sendBuffers) /\ Below(sendBuffers, sendQueue)

\* Where a call has failed, or its caller is about to say so.
FailLabels == {"sendFailed", "recvFailed"}
Disconnecting == \E w \in Workers : pc[w] = "disconnect"

\* Where every failure disconnects, a connected session is attended to.
AttendedInv == others = 0 /\ connected =>
    /\ sendRegistered => ~Nobody(SendLabels) \/ posted["send"] = 1 \/ Disconnecting
    /\ ~sendRegistered => sendQueue = <<>>
    /\ ~Nobody(RecvLabels) \/ posted["recv"] = 1 \/ Disconnecting
    /\ \A w \in Workers : Within(w, FailLabels) => pc[w] = "disconnect"

\* And nothing is sent after a message that was lost.
LostInv == others = 0 /\ lost # <<>> =>
    /\ \A w \in Workers : pc[w] \notin {"takeQueue", "wsaSend"}
    /\ connected => \E w \in Workers : pc[w] = "disconnect" /\ Within(w, {"sendFailed"})

DInv == CountInv /\ QueueInv /\ OrderInv /\ AttendedInv /\ LostInv
-----------------------------------------------------------------------------
(* Moves that keep the session attended *)

\* Worker w does not give up what it is there for, unless it hands it to
\* Windows or is about to disconnect the session.
Attends(w) == others' = 0 /\ connected' =>
    /\ pc[w] # "disconnect"
    /\ sendRegistered' /\ (posted["send"] = 1 \/ Within(w, SendLabels)) =>
          posted'["send"] = 1 \/ Within(w, SendLabels)' \/ pc'[w] = "disconnect"
    /\ posted["recv"] = 1 \/ Within(w, RecvLabels) =>
          posted'["recv"] = 1 \/ Within(w, RecvLabels)' \/ pc'[w] = "disconnect"
    /\ Within(w, FailLabels)' => pc'[w] = "disconnect"

\* A session is connected once, and others only grows.
Onward == (connected' => connected) /\ (others' = 0 => others = 0)

LEMMA GotoAttends ==
    ASSUME IInv, AttendedInv, Onward, NEW w \in Workers, pc[w] \notin {"idle", "disconnect"},
           NEW label \in Labels \ {"idle"}, Goto(w, label),
           label \in FailLabels => others' # 0 \/ ~connected',
           pc[w] \in SendLabels => label \in SendLabels \cup {"disconnect"},
           pc[w] \in RecvLabels => label \in RecvLabels \cup {"disconnect"},
           posted'["send"] = posted["send"], posted'["recv"] = posted["recv"]
    PROVE  Moves(w) /\ pc'[w] = label /\ Attends(w)
<1>1. Moves(w) /\ pc'[w] = label /\ stack'[w] = stack[w]
  BY GotoMoves DEF IInv
<1>2. ASSUME NEW L, Within(w, L), pc[w] \in L => label \in L
      PROVE  Within(w, L)'
  BY <1>1, <1>2 DEF Within
<1>3. Within(w, SendLabels) => Within(w, SendLabels)' \/ label = "disconnect"
  BY <1>2
<1>4. Within(w, RecvLabels) => Within(w, RecvLabels)' \/ label = "disconnect"
  BY <1>2
<1>5. Within(w, FailLabels)' => Within(w, FailLabels) \/ label \in FailLabels
  BY <1>1 DEF Within
<1> QED  BY <1>1, <1>3, <1>4, <1>5 DEF Attends, AttendedInv, Onward

LEMMA CallAttends ==
    ASSUME IInv, AttendedInv, Onward, NEW w \in Workers, pc[w] # "disconnect",
           NEW label \in Labels \ {"idle"}, NEW back \in BackLabels,
           back = "idle" <=> pc[w] = "idle", Call(w, label, back),
           label \notin FailLabels, back \in FailLabels => label = "disconnect",
           pc[w] \in SendLabels => label \in SendLabels \/ back \in SendLabels,
           pc[w] \in RecvLabels => label \in RecvLabels \/ back \in RecvLabels,
           posted'["send"] = posted["send"] \/ label \in SendLabels,
           posted'["recv"] = posted["recv"] \/ label \in RecvLabels
    PROVE  Moves(w) /\ pc'[w] = label /\ Attends(w)
<1>1. Moves(w) /\ pc'[w] = label /\ stack'[w] = <<back>> \o stack[w]
  BY CallMoves DEF IInv
<1>2. /\ DOMAIN stack'[w] = 1 .. Len(stack[w]) + 1 /\ DOMAIN stack[w] = 1 .. Len(stack[w])
      /\ Len(stack[w]) \in Nat /\ stack'[w][1] = back
      /\ \A i \in 1 .. Len(stack[w]) : stack'[w][i + 1] = stack[w][i]
      /\ \A i \in 1 .. Len(stack[w]) + 1 :
            i # 1 => i - 1 \in DOMAIN stack[w] /\ stack'[w][i] = stack[w][i - 1]
  <2>1. stack[w] \in Seq(BackLabels)
    BY DEF IInv, StackInv
  <2> QED  BY <1>1, <2>1, Pushed
<1>3. ASSUME NEW L, label \in L \/ back \in L
      PROVE  Within(w, L)'
  <2>1. 1 \in DOMAIN stack'[w]
    BY <1>2
  <2> QED  BY <1>1, <1>2, <1>3, <2>1 DEF Within
<1>4. ASSUME NEW L, Within(w, L), pc[w] \in L => label \in L \/ back \in L
      PROVE  Within(w, L)'
  <2>1. CASE pc[w] \in L
    BY <1>3, <1>4, <2>1
  <2>2. CASE pc[w] \notin L
    <3>1. PICK i \in DOMAIN stack[w] : stack[w][i] \in L
      BY <1>4, <2>2 DEF Within
    <3>2. i + 1 \in DOMAIN stack'[w] /\ stack'[w][i + 1] \in L
      BY <1>2, <3>1
    <3> QED  BY <3>2 DEF Within
  <2> QED  BY <2>1, <2>2
<1>5. Within(w, SendLabels) => Within(w, SendLabels)'
  BY <1>4
<1>6. Within(w, RecvLabels) => Within(w, RecvLabels)'
  BY <1>4
<1>7. Within(w, FailLabels)' => Within(w, FailLabels) \/ back \in FailLabels
  BY <1>1, <1>2 DEF Within
<1> QED  BY <1>1, <1>3, <1>5, <1>6, <1>7 DEF Attends, AttendedInv, Onward

LEMMA ReturnAttends ==
    ASSUME IInv, AttendedInv, Onward, NEW w \in Workers, pc[w] \notin {"idle", "disconnect"},
           Return(w),
           pc[w] \in SendLabels =>
               posted'["send"] = 1 \/ ~connected' \/ ~sendRegistered' \/ others' # 0,
           pc[w] \in RecvLabels => posted'["recv"] = 1 \/ ~connected' \/ others' # 0,
           posted["send"] = 1 => posted'["send"] = 1,
           posted["recv"] = 1 => posted'["recv"] = 1
    PROVE  Moves(w) /\ pc'[w] \in BackLabels /\ Attends(w)
<1>1. /\ Moves(w) /\ stack[w] # <<>> /\ pc'[w] = stack[w][1] /\ pc'[w] \in BackLabels
      /\ stack'[w] = Tail(stack[w]) /\ stack[w] \in Seq(BackLabels)
  BY ReturnMoves DEF IInv, StackInv
<1>2. /\ DOMAIN stack'[w] = 1 .. Len(stack[w]) - 1 /\ Len(stack[w]) \in Nat
      /\ 1 \in DOMAIN stack[w] /\ DOMAIN stack[w] = 1 .. Len(stack[w])
      /\ \A i \in DOMAIN stack'[w] : i + 1 \in DOMAIN stack[w] /\ stack'[w][i] = stack[w][i + 1]
  BY <1>1, Popped
<1>3. ASSUME NEW L, Within(w, L), pc[w] \notin L
      PROVE  Within(w, L)'
  <2>1. PICK i \in DOMAIN stack[w] : stack[w][i] \in L
    BY <1>3 DEF Within
  <2>2. CASE i = 1
    BY <1>1, <2>1, <2>2 DEF Within
  <2>3. CASE i # 1
    <3>1. i - 1 \in DOMAIN stack'[w] /\ (i - 1) + 1 = i
      BY <1>2, <2>1, <2>3
    <3>2. stack'[w][i - 1] = stack[w][i]
      BY <1>2, <3>1
    <3> QED  BY <2>1, <3>1, <3>2 DEF Within
  <2> QED  BY <2>2, <2>3
<1>4. Within(w, FailLabels)' => Within(w, FailLabels)
  BY <1>1, <1>2 DEF Within
<1>5. Within(w, SendLabels) /\ pc[w] \notin SendLabels => Within(w, SendLabels)'
  BY <1>3
<1>6. Within(w, RecvLabels) /\ pc[w] \notin RecvLabels => Within(w, RecvLabels)'
  BY <1>3
<1> QED  BY <1>1, <1>4, <1>5, <1>6 DEF Attends, AttendedInv, Onward

LEMMA AttendedFrame ==
    ASSUME IInv, AttendedInv, Onward, NEW w \in Workers, Moves(w), Attends(w),
           sendRegistered' => sendRegistered \/ Within(w, SendLabels)',
           others' = 0 /\ connected' /\ ~sendRegistered' =>
               sendQueue' = <<>> \/ (~sendRegistered /\ sendQueue' = sendQueue)
    PROVE  AttendedInv'
<1> SUFFICES ASSUME others' = 0, connected' PROVE AttendedInv'
  BY DEF AttendedInv
<1>1. others = 0 /\ connected
  BY DEF Onward
<1>2. ASSUME NEW L
      PROVE  /\ Within(w, L)' => ~Nobody(L)'
             /\ ~Nobody(L) => Within(w, L) \/ ~Nobody(L)'
  BY DEF Nobody, Moves, Within
<1>3. Disconnecting => Disconnecting'
  BY DEF Disconnecting, Attends, Moves
<1>4. pc'[w] = "disconnect" => Disconnecting'
  BY DEF Disconnecting
<1>5. sendRegistered' => ~Nobody(SendLabels)' \/ posted'["send"] = 1 \/ Disconnecting'
  BY <1>1, <1>2, <1>3, <1>4 DEF Attends, AttendedInv
<1>6. ~Nobody(RecvLabels)' \/ posted'["recv"] = 1 \/ Disconnecting'
  BY <1>1, <1>2, <1>3, <1>4 DEF Attends, AttendedInv
<1>7. \A u \in Workers : Within(u, FailLabels)' => pc'[u] = "disconnect"
  BY <1>1 DEF Attends, AttendedInv, Moves, Within
<1>8. ~sendRegistered' => sendQueue' = <<>>
  BY <1>1 DEF AttendedInv
<1> QED  BY <1>5, <1>6, <1>7, <1>8 DEF AttendedInv
LEMMA LostFrame ==
    ASSUME LostInv, Onward, NEW w \in Workers, Moves(w), Attends(w), lost' = lost,
           pc'[w] \in {"takeQueue", "wsaSend"} => (others' = 0 => lost = <<>>)
    PROVE  LostInv'
<1> SUFFICES ASSUME others' = 0, lost # <<>> PROVE LostInv'
  BY DEF LostInv
<1>1. \A u \in Workers : pc'[u] \notin {"takeQueue", "wsaSend"}
  BY DEF LostInv, Moves, Onward
<1>2. ASSUME connected'
      PROVE  \E u \in Workers : pc'[u] = "disconnect" /\ Within(u, {"sendFailed"})'
  <2>1. PICK u \in Workers : pc[u] = "disconnect" /\ Within(u, {"sendFailed"})
    BY <1>2 DEF LostInv, Onward
  <2>2. u # w
    BY <1>2, <2>1 DEF Attends
  <2> QED  BY <2>1, <2>2 DEF Moves, Within
<1> QED  BY <1>1, <1>2 DEF LostInv

\* Everything about messages but whose turn it is.
Messages == <<sendQueue, sendRegistered, sendBuffers, pushed, wire, lost>>

\* A worker moves, and no message does.
LEMMA PlainKeeps ==
    ASSUME IInv, DInv, UNCHANGED Messages, Onward, others' \in Nat,
           NEW w \in Workers, Moves(w), Attends(w),
           pc'[w] \in EarlyLabels \/ posted'["connect"] = 1 => Early,
           pc'[w] \notin {"wsaSend", "sendNext"},
           pc'[w] = "takeQueue" =>
               pc[w] = "registerSend" /\ (others' = 0 => lost = <<>>),
           pc'[w] = "registerSend" => sendQueue # <<>> /\ sendBuffers = <<>>
    PROVE  DInv'
<1>1. CountInv'
  BY DEF DInv, CountInv, Messages
<1>2. QueueInv'
  <2>1. Early' => Early
    BY DEF Early, Moves
  <2>2. ASSUME NEW u \in Workers
        PROVE  /\ pc'[u] \in {"registerSend", "takeQueue"} => sendQueue # <<>>
               /\ pc'[u] \in {"registerSend", "takeQueue", "sendNext"} => sendBuffers = <<>>
               /\ pc'[u] = "wsaSend" => sendBuffers # <<>>
    BY DEF DInv, QueueInv, Moves
  <2> QED  BY <2>1, <2>2 DEF DInv, QueueInv, Messages
<1>3. OrderInv'
  <2>1. \A u \in Workers : pc'[u] = "wsaSend" => pc[u] = "wsaSend"
    BY DEF Moves
  <2> QED  BY <2>1 DEF DInv, OrderInv, Messages, Increasing, Below, AtMost
<1>4. AttendedInv'
  BY AttendedFrame DEF DInv, Messages
<1>5. LostInv'
  BY LostFrame DEF DInv, Messages
<1> QED  BY <1>1, <1>2, <1>3, <1>4, <1>5 DEF DInv

-----------------------------------------------------------------------------
(* The actions that move no message *)

LEMMA CallSendPlain ==
    ASSUME IInv, DInv, NEW w \in Workers, CallSend(w)
    PROVE  DInv'
<1>1. /\ UNCHANGED Messages /\ UNCHANGED <<connected, others, posted>>
      /\ Call(w, "send", pc[w]) /\ pc[w] \in {"idle", "onRecv"}
  BY DEF CallSend, At, Messages, sending, messages, budgets
<1>2. Onward /\ others' \in Nat
  BY <1>1 DEF Onward, DInv, CountInv
<1>3. Moves(w) /\ pc'[w] = "send" /\ Attends(w)
  BY <1>1, <1>2, CallAttends
     DEF BackLabels, SendLabels, RecvLabels, FailLabels, Labels, DInv
<1> QED  BY <1>1, <1>2, <1>3, PlainKeeps DEF EarlyLabels, Early

\* The same for an action that goes on or returns, and changes nothing that
\* the invariant is about but others.
LEMMA GoesOnOrReturns ==
    ASSUME IInv, DInv, UNCHANGED Messages, Onward, others' \in Nat,
           posted'["connect"] = posted["connect"],
           posted'["send"] = posted["send"], posted'["recv"] = posted["recv"],
           NEW w \in Workers, pc[w] \notin {"idle", "disconnect"},
           NEW label \in Labels \ {"idle", "registerSend", "takeQueue", "wsaSend", "sendNext"},
           label \in EarlyLabels => pc[w] \in EarlyLabels,
           label \in FailLabels => others' # 0 \/ ~connected',
           pc[w] \in SendLabels => label \in SendLabels \cup {"disconnect"},
           pc[w] \in RecvLabels => label \in RecvLabels \cup {"disconnect"},
           \/ Goto(w, label)
           \/ Return(w) /\ pc[w] \notin SendLabels \cup RecvLabels
    PROVE  DInv'
<1>1. CASE Goto(w, label)
  <2>1. Moves(w) /\ pc'[w] = label /\ Attends(w)
    BY <1>1, GotoAttends DEF DInv
  <2>2. pc'[w] \in EarlyLabels \/ posted'["connect"] = 1 => Early
    BY <2>1 DEF Early
  <2>3. pc'[w] \notin {"registerSend", "takeQueue", "wsaSend", "sendNext"}
    BY <2>1
  <2> QED  BY <2>1, <2>2, <2>3, PlainKeeps
<1>2. CASE Return(w) /\ pc[w] \notin SendLabels \cup RecvLabels
  <2>1. Moves(w) /\ pc'[w] \in BackLabels /\ Attends(w)
    BY <1>2, ReturnAttends DEF DInv
  <2> QED  BY <2>1, PlainKeeps DEF Early, EarlyLabels, BackLabels
<1> QED  BY <1>1, <1>2

LEMMA SendCheckPlain ==
    ASSUME IInv, DInv, NEW w \in Workers, SendCheck(w)
    PROVE  DInv'
<1>1. /\ UNCHANGED Messages /\ UNCHANGED <<connected, others, posted>>
      /\ pc[w] = "send" /\ (Goto(w, "push") \/ Return(w))
  BY DEF SendCheck, At, Messages, sending, messages, budgets
<1>2. Onward /\ others' \in Nat
  BY <1>1 DEF Onward, DInv, CountInv
<1> QED  BY <1>1, <1>2, GoesOnOrReturns
            DEF SendLabels, RecvLabels, FailLabels, EarlyLabels, Labels

LEMMA RegisterSendPlain ==
    ASSUME IInv, DInv, NEW w \in Workers, RegisterSend(w)
    PROVE  DInv'
<1>1. /\ UNCHANGED Messages /\ UNCHANGED <<connected, others, posted>>
      /\ pc[w] = "registerSend" /\ w \in Workers
      /\ \/ connected /\ Goto(w, "takeQueue")
         \/ ~connected /\ Return(w)
  BY DEF RegisterSend, At, Messages, sending, messages, budgets
<1>2. Onward /\ others' \in Nat
  BY <1>1 DEF Onward, DInv, CountInv
<1>3. CASE connected /\ Goto(w, "takeQueue")
  <2>1. others = 0 => lost = <<>>
    <3> SUFFICES ASSUME others = 0, lost # <<>> PROVE FALSE
      OBVIOUS
    <3>1. PICK u \in Workers : pc[u] = "disconnect" /\ Within(u, {"sendFailed"})
      BY <1>3 DEF DInv, LostInv
    <3>2. Within(u, SendLabels) /\ Within(w, SendLabels)
      BY <1>1, <3>1 DEF Within, SendLabels
    <3> QED  BY <1>1, <3>1, <3>2 DEF IInv, SendInv, OneUser, Alone
  <2>2. Moves(w) /\ pc'[w] = "takeQueue" /\ Attends(w)
    BY <1>1, <1>2, <1>3, GotoAttends DEF SendLabels, RecvLabels, FailLabels, Labels, DInv
  <2> QED  BY <1>1, <1>2, <2>1, <2>2, PlainKeeps DEF EarlyLabels, Early
<1>4. CASE ~connected /\ Return(w)
  <2>1. Moves(w) /\ pc'[w] \in BackLabels /\ Attends(w)
    BY <1>1, <1>2, <1>4, ReturnAttends DEF RecvLabels, DInv
  <2> QED  BY <1>1, <1>2, <2>1, PlainKeeps DEF EarlyLabels, Early, BackLabels
<1> QED  BY <1>1, <1>3, <1>4

LEMMA UnlockPlain ==
    ASSUME IInv, DInv, NEW w \in Workers, Unlock(w)
    PROVE  DInv'
<1>1. /\ UNCHANGED Messages /\ UNCHANGED <<connected, others, posted>>
      /\ pc[w] = "unlock" /\ Return(w)
  BY DEF Unlock, At, Messages, messages, budgets
<1>2. Onward /\ others' \in Nat
  BY <1>1 DEF Onward, DInv, CountInv
<1>3. Moves(w) /\ pc'[w] \in BackLabels /\ Attends(w)
  BY <1>1, <1>2, ReturnAttends DEF SendLabels, RecvLabels, DInv
<1> QED  BY <1>1, <1>2, <1>3, PlainKeeps DEF EarlyLabels, Early, BackLabels

LEMMA DisconnectPlain ==
    ASSUME IInv, DInv, NEW w \in Workers, Disconnect(w)
    PROVE  DInv'
<1>1. /\ UNCHANGED Messages /\ UNCHANGED <<others, posted>> /\ connected' = FALSE
      /\ pc[w] = "disconnect" /\ (Goto(w, "registerDisconnect") \/ Return(w))
  BY DEF Disconnect, At, Messages, sending, messages, budgets
<1>2. Onward /\ others' \in Nat /\ Attends(w)
  BY <1>1 DEF Onward, Attends, DInv, CountInv
<1>3. Moves(w) /\ pc'[w] \in BackLabels \cup {"registerDisconnect"}
  BY <1>1, GotoMoves, ReturnMoves DEF IInv, Labels
<1> QED  BY <1>1, <1>2, <1>3, PlainKeeps DEF EarlyLabels, Early, BackLabels

LEMMA DisconnectingPlain ==
    ASSUME IInv, DInv, NEW w \in Workers,
           RegisterDisconnect(w) \/ ProcessDisconnect(w) \/ OnDisconnected(w) \/ ReleaseSession(w)
    PROVE  DInv'
<1>1. pc[w] = "releaseSession" => registry["service"] = "in"
  BY AloneInDisconnect DEF DisconnectLabels
<1>2. /\ UNCHANGED Messages /\ UNCHANGED <<connected, others>>
      /\ pc[w] \in DisconnectLabels
      /\ Goto(w, "onDisconnected") \/ Goto(w, "releaseSession") \/ Return(w)
  BY <1>1 DEF RegisterDisconnect, ProcessDisconnect, OnDisconnected, ReleaseSession,
              DisconnectLabels, At, Messages, sending, messages, budgets
<1>3. /\ posted'["connect"] = posted["connect"] /\ posted'["send"] = posted["send"]
      /\ posted'["recv"] = posted["recv"]
  BY DEF RegisterDisconnect, ProcessDisconnect, OnDisconnected, ReleaseSession, Post, IInv,
         TypeInv, Ops
<1>4. Onward /\ others' \in Nat
  BY <1>2 DEF Onward, DInv, CountInv
<1> QED  BY <1>2, <1>3, <1>4, GoesOnOrReturns
            DEF SendLabels, RecvLabels, DisconnectLabels, FailLabels, EarlyLabels, Labels

LEMMA AddSessionPlain ==
    ASSUME IInv, DInv, NEW w \in Workers, AddSession(w)
    PROVE  DInv'
<1>1. /\ UNCHANGED Messages /\ UNCHANGED <<connected, others, posted>>
      /\ pc[w] = "addSession" /\ Goto(w, "onConnected")
  BY DEF AddSession, At, Messages, sending, messages, budgets
<1>2. Onward /\ others' \in Nat
  BY <1>1 DEF Onward, DInv, CountInv
<1> QED  BY <1>1, <1>2, GoesOnOrReturns
            DEF SendLabels, RecvLabels, FailLabels, EarlyLabels, Labels

LEMMA OnConnectedPlain ==
    ASSUME IInv, DInv, NEW w \in Workers, OnConnected(w)
    PROVE  DInv'
<1>1. /\ UNCHANGED Messages /\ UNCHANGED <<connected, others, posted>>
      /\ pc[w] = "onConnected"
      /\ Goto(w, "registerRecv") \/ Call(w, "send", "registerRecv")
  BY DEF OnConnected, At, Messages, sending, messages, budgets
<1>2. Onward /\ others' \in Nat
  BY <1>1 DEF Onward, DInv, CountInv
<1>3. CASE Goto(w, "registerRecv")
  BY <1>1, <1>2, <1>3, GoesOnOrReturns
     DEF SendLabels, RecvLabels, FailLabels, EarlyLabels, Labels
<1>4. CASE Call(w, "send", "registerRecv")
  <2>1. Moves(w) /\ pc'[w] = "send" /\ Attends(w)
    BY <1>1, <1>2, <1>4, CallAttends
       DEF BackLabels, SendLabels, RecvLabels, FailLabels, Labels, DInv
  <2> QED  BY <1>1, <1>2, <2>1, PlainKeeps DEF EarlyLabels, Early
<1> QED  BY <1>1, <1>3, <1>4

LEMMA RegisterRecvPlain ==
    ASSUME IInv, DInv, NEW w \in Workers, RegisterRecv(w)
    PROVE  DInv'
<1>1. /\ UNCHANGED Messages /\ UNCHANGED <<connected, others, posted>>
      /\ pc[w] = "registerRecv"
      /\ \/ connected /\ Goto(w, "wsaRecv")
         \/ ~connected /\ Return(w)
  BY DEF RegisterRecv, At, Messages, sending, messages, budgets
<1>2. Onward /\ others' \in Nat
  BY <1>1 DEF Onward, DInv, CountInv
<1>3. CASE Goto(w, "wsaRecv")
  BY <1>1, <1>2, <1>3, GoesOnOrReturns
     DEF SendLabels, RecvLabels, FailLabels, EarlyLabels, Labels
<1>4. CASE ~connected /\ Return(w)
  <2>1. Moves(w) /\ pc'[w] \in BackLabels /\ Attends(w)
    BY <1>1, <1>2, <1>4, ReturnAttends DEF SendLabels, DInv
  <2> QED  BY <1>1, <1>2, <2>1, PlainKeeps DEF EarlyLabels, Early, BackLabels
<1> QED  BY <1>1, <1>3, <1>4

LEMMA WsaRecvPlain ==
    ASSUME IInv, DInv, NEW w \in Workers, WsaRecv(w)
    PROVE  DInv'
<1>1. /\ UNCHANGED Messages /\ UNCHANGED <<connected, others>>
      /\ pc[w] = "wsaRecv" /\ Return(w) /\ posted' = [posted EXCEPT !["recv"] = @ + 1]
  BY DEF WsaRecv, Post, At, Messages, sending, messages, budgets
<1>2. Onward /\ others' \in Nat
  BY <1>1 DEF Onward, DInv, CountInv
<1>3. posted["recv"] = 0
  BY <1>1, AloneInRecv DEF RecvLabels
<1>4. /\ posted'["recv"] = 1 /\ posted'["send"] = posted["send"]
      /\ posted'["connect"] = posted["connect"]
  BY <1>1, <1>3 DEF IInv, TypeInv, Ops
<1>5. Moves(w) /\ pc'[w] \in BackLabels /\ Attends(w)
  BY <1>1, <1>2, <1>4, ReturnAttends DEF SendLabels, DInv
<1> QED  BY <1>1, <1>2, <1>4, <1>5, PlainKeeps DEF EarlyLabels, Early, BackLabels

LEMMA Logged ==
    ASSUME DInv, OtherError
    PROVE  others' \in Nat /\ (others' = 0 => others = 0 /\ ~connected)
  BY DEF OtherError, DInv, CountInv

LEMMA WsaRecvFailsPlain ==
    ASSUME IInv, DInv, NEW w \in Workers, WsaRecvFails(w)
    PROVE  DInv'
<1>1. /\ UNCHANGED Messages /\ UNCHANGED <<connected, posted>> /\ pc[w] = "wsaRecv"
      /\ \/ Call(w, "disconnect", "recvFailed") /\ UNCHANGED others
         \/ OtherError /\ Goto(w, "recvFailed")
  BY DEF WsaRecvFails, At, Messages, sending, messages
<1>2. Onward /\ others' \in Nat
  BY <1>1, Logged DEF Onward, DInv, CountInv
<1>3. CASE OtherError /\ Goto(w, "recvFailed")
  <2>1. others' # 0 \/ ~connected'
    BY <1>1, <1>3, Logged
  <2> QED  BY <1>1, <1>2, <1>3, <2>1, GoesOnOrReturns
              DEF SendLabels, RecvLabels, FailLabels, EarlyLabels, Labels
<1>4. CASE Call(w, "disconnect", "recvFailed")
  <2>1. Moves(w) /\ pc'[w] = "disconnect" /\ Attends(w)
    BY <1>1, <1>2, <1>4, CallAttends
       DEF BackLabels, SendLabels, RecvLabels, FailLabels, Labels, DInv
  <2> QED  BY <1>1, <1>2, <2>1, PlainKeeps DEF EarlyLabels, Early
<1> QED  BY <1>1, <1>3, <1>4

LEMMA RecvFailedPlain ==
    ASSUME IInv, DInv, NEW w \in Workers, RecvFailed(w)
    PROVE  DInv'
<1>1. /\ UNCHANGED Messages /\ UNCHANGED <<connected, others, posted>>
      /\ pc[w] = "recvFailed" /\ Return(w)
  BY DEF RecvFailed, At, Messages, sending, messages, budgets
<1>2. Onward /\ others' \in Nat
  BY <1>1 DEF Onward, DInv, CountInv
<1>3. ~connected' \/ others' # 0
  BY <1>1 DEF DInv, AttendedInv, Within, FailLabels
<1>4. Moves(w) /\ pc'[w] \in BackLabels /\ Attends(w)
  BY <1>1, <1>2, <1>3, ReturnAttends DEF SendLabels, DInv
<1> QED  BY <1>1, <1>2, <1>4, PlainKeeps DEF EarlyLabels, Early, BackLabels

LEMMA ReceivedPlain ==
    ASSUME IInv, DInv, NEW w \in Workers,
           ProcessRecvNothing(w) \/ ProcessRecv(w) \/ OnRecvReturns(w)
    PROVE  DInv'
<1>1. /\ UNCHANGED Messages /\ UNCHANGED <<connected, others, posted>>
      /\ pc[w] \in {"processRecv", "onRecv"}
      /\ Goto(w, "onRecv") \/ Goto(w, "registerRecv") \/ Goto(w, "disconnect")
  BY DEF ProcessRecvNothing, ProcessRecv, OnRecvReturns, At, Messages, sending, messages, budgets
<1>2. Onward /\ others' \in Nat
  BY <1>1 DEF Onward, DInv, CountInv
<1> QED  BY <1>1, <1>2, GoesOnOrReturns
            DEF SendLabels, RecvLabels, FailLabels, EarlyLabels, Labels

LEMMA DispatchPlain ==
    ASSUME IInv, DInv, NEW w \in Workers, NEW op \in Ops, Dispatch(w, op)
    PROVE  DInv'
<1>1. /\ posted[op] = 1 /\ posted'[op] = 0 /\ pc[w] = "idle" /\ pc'[w] = Handler[op]
      /\ \A other \in Ops \ {op} : posted'[other] = posted[other]
      /\ UNCHANGED connected /\ ~crashed'
  BY Dequeued
<1>2. UNCHANGED Messages /\ UNCHANGED others /\ Call(w, Handler[op], "idle")
  BY <1>1 DEF Dispatch, Messages, sending, messages, budgets
<1>3. Onward /\ others' \in Nat
  BY <1>1, <1>2 DEF Onward, DInv, CountInv
<1>4. /\ Handler[op] \in Labels \ {"idle"} /\ Handler[op] \notin FailLabels
      /\ op = "send" => Handler[op] \in SendLabels
      /\ op = "recv" => Handler[op] \in RecvLabels
      /\ Handler[op] \in EarlyLabels => op = "connect"
      /\ Handler[op] \notin {"takeQueue", "wsaSend", "sendNext", "registerSend"}
  BY DEF Handler, Ops, Labels, FailLabels, SendLabels, RecvLabels, EarlyLabels
<1>5. Moves(w) /\ Attends(w)
  BY <1>1, <1>2, <1>3, <1>4, CallAttends
     DEF Ops, BackLabels, SendLabels, RecvLabels, FailLabels, DInv
<1>6. pc'[w] \in EarlyLabels \/ posted'["connect"] = 1 => Early
  BY <1>1, <1>4 DEF Early, Ops
<1> QED  BY <1>1, <1>2, <1>3, <1>4, <1>5, <1>6, PlainKeeps
-----------------------------------------------------------------------------
(* The actions that move messages *)

LEMMA Appended ==
    ASSUME NEW s \in Seq(Nat), NEW n \in Nat, AtMost(s, n)
    PROVE  /\ Append(s, n + 1) \in Seq(Nat) /\ Append(s, n + 1) # <<>>
           /\ Increasing(s) => Increasing(Append(s, n + 1))
           /\ AtMost(Append(s, n + 1), n + 1)
           /\ \A r \in Seq(Nat) :
                AtMost(r, n) => AtMost(r, n + 1) /\ (Below(r, s) => Below(r, Append(s, n + 1)))
<1> DEFINE t == Append(s, n + 1)
<1>1. /\ t \in Seq(Nat) /\ t # <<>> /\ DOMAIN t = 1 .. Len(s) + 1 /\ Len(s) \in Nat
      /\ DOMAIN s = 1 .. Len(s)
      /\ t[Len(s) + 1] = n + 1 /\ \A i \in 1 .. Len(s) : t[i] = s[i] /\ s[i] \in Nat
  OBVIOUS
<1> HIDE DEF t
<1>2. Increasing(s) => Increasing(t)
  <2> SUFFICES ASSUME Increasing(s), NEW i \in DOMAIN t, NEW k \in DOMAIN t, i < k
               PROVE  t[i] < t[k]
    BY DEF Increasing
  <2>1. i \in 1 .. Len(s) /\ i \in DOMAIN s /\ t[i] = s[i] /\ s[i] \in Nat
    BY <1>1
  <2>2. CASE k \in 1 .. Len(s)
    BY <1>1, <2>1, <2>2 DEF Increasing
  <2>3. CASE k = Len(s) + 1
    <3>1. s[i] <= n
      BY <2>1 DEF AtMost
    <3> QED  BY <1>1, <2>1, <2>3, <3>1
  <2> QED  BY <1>1, <2>2, <2>3
<1>3. AtMost(t, n + 1)
  <2> SUFFICES ASSUME NEW i \in DOMAIN t PROVE t[i] <= n + 1
    BY DEF AtMost
  <2>1. CASE i \in 1 .. Len(s)
    <3>1. t[i] = s[i] /\ s[i] \in Nat /\ s[i] <= n
      BY <1>1, <2>1 DEF AtMost
    <3> QED  BY <3>1
  <2>2. CASE i = Len(s) + 1
    BY <1>1, <2>2
  <2> QED  BY <1>1, <2>1, <2>2
<1>4. ASSUME NEW r \in Seq(Nat), AtMost(r, n)
      PROVE  AtMost(r, n + 1) /\ (Below(r, s) => Below(r, t))
  <2>1. \A i \in DOMAIN r : r[i] \in Nat /\ r[i] <= n
    BY <1>4 DEF AtMost
  <2>2. AtMost(r, n + 1)
    BY <2>1 DEF AtMost
  <2>3. ASSUME Below(r, s), NEW i \in DOMAIN r, NEW k \in DOMAIN t
        PROVE  r[i] < t[k]
    <3>1. CASE k \in 1 .. Len(s)
      BY <1>1, <2>3, <3>1 DEF Below
    <3>2. CASE k = Len(s) + 1
      BY <1>1, <2>1, <3>2
    <3> QED  BY <1>1, <3>1, <3>2
  <2> QED  BY <2>2, <2>3 DEF Below
<1> QED  BY <1>1, <1>2, <1>3, <1>4 DEF t

LEMMA Joined ==
    ASSUME NEW s \in Seq(Nat), NEW t \in Seq(Nat)
    PROVE  /\ s \o t \in Seq(Nat)
           /\ Increasing(s) /\ Increasing(t) /\ Below(s, t) => Increasing(s \o t)
           /\ \A n \in Nat : AtMost(s, n) /\ AtMost(t, n) => AtMost(s \o t, n)
           /\ \A r \in Seq(Nat) : Below(s, r) /\ Below(t, r) => Below(s \o t, r)
           /\ s = <<>> => s \o t = t
           /\ t # <<>> => s \o t # <<>>
<1> DEFINE j == s \o t
<1>1. /\ j \in Seq(Nat) /\ DOMAIN j = 1 .. Len(s) + Len(t) /\ Len(s) \in Nat /\ Len(t) \in Nat
      /\ \A i \in 1 .. Len(s) : i \in DOMAIN s /\ j[i] = s[i]
      /\ \A i \in Len(s) + 1 .. Len(s) + Len(t) :
            i - Len(s) \in DOMAIN t /\ j[i] = t[i - Len(s)]
      /\ s = <<>> => j = t
      /\ t # <<>> => j # <<>>
  <2>1. j \in Seq(Nat) /\ Len(j) = Len(s) + Len(t) /\ Len(s) \in Nat /\ Len(t) \in Nat
    OBVIOUS
  <2>2. s = <<>> => j = t
    OBVIOUS
  <2>3. t # <<>> => Len(t) # 0
    OBVIOUS
  <2>4. t # <<>> => j # <<>>
    BY <2>1, <2>3
  <2>5. DOMAIN j = 1 .. Len(s) + Len(t)
    BY <2>1
  <2>6. \A i \in 1 .. Len(s) : i \in DOMAIN s /\ j[i] = s[i]
    BY <2>1
  <2>7. \A i \in Len(s) + 1 .. Len(s) + Len(t) :
            i - Len(s) \in DOMAIN t /\ j[i] = t[i - Len(s)]
    BY <2>1
  <2> QED  BY <2>1, <2>2, <2>4, <2>5, <2>6, <2>7
<1> HIDE DEF j
<1>2. \A i \in DOMAIN j : i \in 1 .. Len(s) \/ i \in Len(s) + 1 .. Len(s) + Len(t)
  BY <1>1
<1>3. ASSUME Increasing(s), Increasing(t), Below(s, t),
             NEW i \in DOMAIN j, NEW k \in DOMAIN j, i < k
      PROVE  j[i] < j[k]
  <2>1. CASE k \in 1 .. Len(s)
    <3>1. i \in 1 .. Len(s)
      BY <1>1, <1>3, <2>1
    <3> QED  BY <1>1, <1>3, <2>1, <3>1 DEF Increasing
  <2>2. CASE k \in Len(s) + 1 .. Len(s) + Len(t) /\ i \in 1 .. Len(s)
    BY <1>1, <1>3, <2>2 DEF Below
  <2>3. CASE k \in Len(s) + 1 .. Len(s) + Len(t) /\ i \in Len(s) + 1 .. Len(s) + Len(t)
    <3>1. i - Len(s) < k - Len(s)
      BY <1>1, <1>3, <2>3
    <3> QED  BY <1>1, <1>3, <2>3, <3>1 DEF Increasing
  <2> QED  BY <1>2, <2>1, <2>2, <2>3
<1>4. Increasing(s) /\ Increasing(t) /\ Below(s, t) => Increasing(j)
  BY <1>3 DEF Increasing
<1>5. \A n \in Nat : AtMost(s, n) /\ AtMost(t, n) => AtMost(j, n)
  BY <1>1, <1>2 DEF AtMost
<1>6. \A r \in Seq(Nat) : Below(s, r) /\ Below(t, r) => Below(j, r)
  BY <1>1, <1>2 DEF Below
<1> QED  BY <1>1, <1>4, <1>5, <1>6 DEF j

LEMMA SendPushMoves ==
    ASSUME IInv, DInv, NEW w \in Workers, SendPush(w)
    PROVE  DInv'
<1>1. /\ pc[w] = "push" /\ sendRegistered' = TRUE
      /\ pushed' = pushed + 1 /\ sendQueue' = Append(sendQueue, pushed + 1)
      /\ UNCHANGED <<connected, sendBuffers, posted, wire, lost, others>>
      /\ \/ ~sendRegistered /\ Goto(w, "registerSend")
         \/ sendRegistered /\ Return(w)
  BY DEF SendPush, WinsSend, At, budgets
<1>2. Onward
  BY <1>1 DEF Onward
<1>3. /\ Moves(w) /\ Attends(w)
      /\ \/ ~sendRegistered /\ pc'[w] = "registerSend"
         \/ sendRegistered /\ pc'[w] \in BackLabels
  BY <1>1, <1>2, GotoAttends, ReturnAttends
     DEF SendLabels, RecvLabels, FailLabels, Labels, DInv
<1>4. /\ sendQueue' \in Seq(Nat) /\ sendQueue' # <<>>
      /\ Increasing(sendQueue') /\ AtMost(sendQueue', pushed')
      /\ \A r \in Seq(Nat) :
            AtMost(r, pushed) => AtMost(r, pushed')
                                    /\ (Below(r, sendQueue) => Below(r, sendQueue'))
  BY <1>1, Appended DEF DInv, CountInv, OrderInv
<1>5. CountInv'
  BY <1>1, <1>4 DEF DInv, CountInv
<1>6. QueueInv'
  <2>1. ~Early
    BY <1>1, Late DEF IInv, EarlyLabels
  <2>2. ~Early'
    BY <1>1, <1>3, <2>1 DEF Early, EarlyLabels, BackLabels, Moves
  <2>3. \A u \in Workers :
        /\ pc'[u] \in {"registerSend", "takeQueue", "sendNext"} => sendBuffers = <<>>
        /\ pc'[u] = "wsaSend" => sendBuffers # <<>>
    BY <1>3 DEF DInv, QueueInv, Moves, BackLabels
  <2> QED  BY <1>1, <1>4, <2>2, <2>3 DEF QueueInv
<1>7. OrderInv'
  <2>1. \A u \in Workers : pc'[u] = "wsaSend" => pc[u] = "wsaSend"
    BY <1>3 DEF Moves, BackLabels
  <2>2. Increasing(wire)' /\ AtMost(wire, pushed)' /\ Below(wire, sendQueue)'
    BY <1>1, <1>4 DEF DInv, CountInv, OrderInv, Increasing
  <2>3. ASSUME NEW u \in Workers, pc'[u] = "wsaSend"
        PROVE  /\ Increasing(sendBuffers)' /\ AtMost(sendBuffers, pushed)'
               /\ Below(wire, sendBuffers)' /\ Below(sendBuffers, sendQueue)'
    BY <1>1, <1>4, <2>1, <2>3 DEF DInv, CountInv, OrderInv, Increasing, Below
  <2> QED  BY <1>4, <2>2, <2>3 DEF OrderInv
<1>8. AttendedInv'
  BY <1>1, <1>2, <1>3, AttendedFrame DEF DInv, Within, SendLabels
<1>9. LostInv'
  BY <1>1, <1>2, <1>3, LostFrame DEF DInv, BackLabels
<1> QED  BY <1>5, <1>6, <1>7, <1>8, <1>9 DEF DInv

\* While a worker is at one of the send labels no other is at any, and it is
\* past the connection's start.
LEMMA AloneAtSend ==
    ASSUME IInv, NEW w \in Workers, pc[w] \in SendLabels
    PROVE  /\ posted["send"] = 0 /\ sendRegistered /\ ~Early
           /\ \A u \in Workers \ {w} : pc[u] \notin SendLabels
<1>1. pc[w] \notin EarlyLabels /\ pc[w] # "idle"
  BY DEF SendLabels, EarlyLabels
<1>2. \A u \in Workers \ {w} : pc[u] \notin SendLabels
  BY DEF IInv, SendInv, OneUser, Alone, Within
<1> QED  BY <1>1, <1>2, Late, AloneInSend DEF IInv

\* It leaves nobody at them but itself.
LEMMA AloneAfterSend ==
    ASSUME IInv, NEW w \in Workers, pc[w] \in SendLabels, Moves(w),
           pc'[w] \notin EarlyLabels, posted'["connect"] = posted["connect"]
    PROVE  ~Early' /\ \A u \in Workers : pc'[u] \in SendLabels => u = w
  BY AloneAtSend DEF Moves, Early

LEMMA TakeQueueMoves ==
    ASSUME IInv, DInv, NEW w \in Workers, TakeQueue(w)
    PROVE  DInv'
<1>1. /\ pc[w] = "takeQueue" /\ Goto(w, "wsaSend")
      /\ sendBuffers' = sendBuffers \o sendQueue /\ sendQueue' = <<>>
      /\ UNCHANGED <<connected, sendRegistered, posted, pushed, wire, lost, others>>
  BY DEF TakeQueue, At, messages, budgets
<1>2. Onward
  BY <1>1 DEF Onward
<1>3. Moves(w) /\ Attends(w) /\ pc'[w] = "wsaSend"
  BY <1>1, <1>2, GotoAttends DEF SendLabels, RecvLabels, FailLabels, Labels, DInv
<1>4. sendQueue # <<>> /\ sendBuffers = <<>>
  BY <1>1 DEF DInv, QueueInv
<1>5. sendBuffers' = sendQueue
  BY <1>1, <1>4, Joined DEF DInv, CountInv
<1>6. /\ sendRegistered /\ ~Early'
      /\ \A u \in Workers : pc'[u] \in SendLabels => u = w
  BY <1>1, <1>3, AloneAtSend, AloneAfterSend DEF SendLabels, EarlyLabels
<1>7. CountInv'
  BY <1>1, <1>5 DEF DInv, CountInv
<1>8. QueueInv'
  BY <1>1, <1>3, <1>4, <1>5, <1>6 DEF QueueInv, SendLabels
<1>9. OrderInv'
  BY <1>1, <1>5 DEF DInv, OrderInv, Increasing, Below, AtMost
<1>10. AttendedInv'
  BY <1>1, <1>2, <1>3, <1>6, AttendedFrame DEF DInv
<1>11. others = 0 => lost = <<>>
  BY <1>1 DEF DInv, LostInv
<1>12. LostInv'
  BY <1>1, <1>2, <1>3, <1>11, LostFrame DEF DInv
<1> QED  BY <1>7, <1>8, <1>9, <1>10, <1>12 DEF DInv

LEMMA WsaSendMoves ==
    ASSUME IInv, DInv, NEW w \in Workers, WsaSend(w)
    PROVE  DInv'
<1>1. /\ pc[w] = "wsaSend" /\ Return(w) /\ wire' = wire \o sendBuffers
      /\ posted' = [posted EXCEPT !["send"] = @ + 1]
      /\ UNCHANGED <<connected, sendRegistered, sendQueue, sendBuffers, pushed, lost, others>>
  BY DEF WsaSend, Post, At, sending, budgets
<1>2. Onward
  BY <1>1 DEF Onward
<1>3. /\ posted["send"] = 0 /\ posted'["send"] = 1
      /\ posted'["recv"] = posted["recv"] /\ posted'["connect"] = posted["connect"]
  BY <1>1, AloneAtSend DEF SendLabels, IInv, TypeInv, Ops
<1>4. Moves(w) /\ Attends(w) /\ pc'[w] \in BackLabels
  BY <1>1, <1>2, <1>3, ReturnAttends DEF RecvLabels, DInv
<1>5. /\ sendRegistered /\ ~Early'
      /\ \A u \in Workers : pc'[u] \in SendLabels => u = w
  BY <1>1, <1>3, <1>4, AloneAtSend, AloneAfterSend DEF SendLabels, EarlyLabels, BackLabels
<1>6. CountInv'
  BY <1>1, Joined DEF DInv, CountInv
<1>7. QueueInv'
  BY <1>1, <1>4, <1>5 DEF QueueInv, SendLabels, BackLabels
<1>8. OrderInv'
  <2>1. Increasing(wire') /\ AtMost(wire', pushed) /\ Below(wire', sendQueue)
    BY <1>1, Joined DEF DInv, CountInv, OrderInv
  <2>2. \A u \in Workers : pc'[u] # "wsaSend"
    BY <1>4, <1>5 DEF SendLabels, BackLabels
  <2> QED  BY <1>1, <2>1, <2>2 DEF DInv, OrderInv, Increasing, Below, AtMost
<1>9. AttendedInv'
  BY <1>1, <1>2, <1>4, <1>5, AttendedFrame DEF DInv
<1>10. LostInv'
  BY <1>1, <1>2, <1>4, LostFrame DEF DInv, BackLabels
<1> QED  BY <1>6, <1>7, <1>8, <1>9, <1>10 DEF DInv
LEMMA WsaSendFailsMoves ==
    ASSUME IInv, DInv, NEW w \in Workers, WsaSendFails(w)
    PROVE  DInv'
<1>1. /\ pc[w] = "wsaSend" /\ lost' = lost \o sendBuffers
      /\ UNCHANGED <<connected, sendRegistered, sendQueue, sendBuffers, posted, pushed, wire>>
      /\ \/ Call(w, "disconnect", "sendFailed") /\ UNCHANGED others
         \/ OtherError /\ Goto(w, "sendFailed")
  BY DEF WsaSendFails, At, sending
<1>2. Onward /\ others' \in Nat
  BY <1>1, Logged DEF Onward, DInv, CountInv
<1>3. ASSUME Call(w, "disconnect", "sendFailed")
      PROVE  Moves(w) /\ Attends(w) /\ pc'[w] = "disconnect" /\ Within(w, {"sendFailed"})'
  <2>1. Moves(w) /\ Attends(w) /\ pc'[w] = "disconnect"
    BY <1>1, <1>2, <1>3, CallAttends
       DEF BackLabels, SendLabels, RecvLabels, FailLabels, Labels, DInv
  <2>2. Within(w, {"sendFailed"})'
    <3>1. stack'[w] = <<"sendFailed">> \o stack[w]
      BY <1>1, <1>3, CallMoves DEF BackLabels, Labels, IInv
    <3>2. stack[w] \in Seq(BackLabels) /\ "sendFailed" \in BackLabels
      BY DEF IInv, StackInv, BackLabels
    <3>3. 1 \in DOMAIN stack'[w] /\ stack'[w][1] = "sendFailed"
      BY <3>1, <3>2, Pushed
    <3> QED  BY <3>3 DEF Within
  <2> QED  BY <2>1, <2>2
<1>4. ASSUME OtherError, Goto(w, "sendFailed")
      PROVE  Moves(w) /\ Attends(w) /\ pc'[w] = "sendFailed" /\ (others' # 0 \/ ~connected')
  <2>1. others' # 0 \/ ~connected'
    BY <1>1, <1>4, Logged
  <2>2. Moves(w) /\ Attends(w) /\ pc'[w] = "sendFailed"
    BY <1>1, <1>2, <1>4, <2>1, GotoAttends
       DEF SendLabels, RecvLabels, FailLabels, Labels, DInv
  <2> QED  BY <2>1, <2>2
<1>5. /\ Moves(w) /\ Attends(w)
      /\ \/ pc'[w] = "disconnect" /\ Within(w, {"sendFailed"})'
         \/ pc'[w] = "sendFailed" /\ (others' # 0 \/ ~connected')
  BY <1>1, <1>3, <1>4
<1>6. /\ sendRegistered /\ ~Early'
      /\ \A u \in Workers : pc'[u] \in SendLabels => u = w
  BY <1>1, <1>5, AloneAtSend, AloneAfterSend DEF SendLabels, EarlyLabels
<1>7. CountInv'
  BY <1>1, <1>2, Joined DEF DInv, CountInv
<1>8. \A u \in Workers : pc'[u] \notin {"registerSend", "takeQueue", "wsaSend", "sendNext"}
  BY <1>5, <1>6 DEF SendLabels
<1>9. QueueInv'
  BY <1>1, <1>6, <1>8 DEF QueueInv
<1>10. OrderInv'
  BY <1>1, <1>8 DEF DInv, OrderInv, Increasing, Below, AtMost
<1>11. AttendedInv'
  BY <1>1, <1>2, <1>5, <1>6, AttendedFrame DEF DInv
<1>12. LostInv'
  BY <1>5, <1>8 DEF LostInv
<1> QED  BY <1>7, <1>9, <1>10, <1>11, <1>12 DEF DInv

LEMMA SendFailedMoves ==
    ASSUME IInv, DInv, NEW w \in Workers, SendFailed(w)
    PROVE  DInv'
<1>1. /\ pc[w] = "sendFailed" /\ Return(w) /\ sendBuffers' = <<>> /\ sendRegistered' = FALSE
      /\ UNCHANGED <<connected, sendQueue, posted, pushed, wire, lost, others>>
  BY DEF SendFailed, At, messages, budgets
<1>2. Onward
  BY <1>1 DEF Onward
<1>3. others # 0 \/ ~connected
  BY <1>1 DEF DInv, AttendedInv, Within, FailLabels
<1>4. Moves(w) /\ Attends(w) /\ pc'[w] \in BackLabels
  BY <1>1, <1>2, ReturnAttends DEF RecvLabels, DInv
<1>5. ~Early' /\ \A u \in Workers : pc'[u] \in SendLabels => u = w
  BY <1>1, <1>4, AloneAfterSend DEF SendLabels, EarlyLabels, BackLabels
<1>6. CountInv'
  BY <1>1 DEF DInv, CountInv
<1>7. \A u \in Workers : pc'[u] \notin {"registerSend", "takeQueue", "wsaSend", "sendNext"}
  BY <1>4, <1>5 DEF SendLabels, BackLabels
<1>8. QueueInv'
  BY <1>1, <1>5, <1>7 DEF QueueInv
<1>9. OrderInv'
  BY <1>1, <1>7 DEF DInv, OrderInv, Increasing, Below, AtMost
<1>10. AttendedInv'
  BY <1>1, <1>2, <1>3, <1>4, AttendedFrame DEF DInv
<1>11. LostInv'
  BY <1>1, <1>2, <1>4, LostFrame DEF DInv, BackLabels
<1> QED  BY <1>6, <1>8, <1>9, <1>10, <1>11 DEF DInv

LEMMA ProcessSendMoves ==
    ASSUME IInv, DInv, NEW w \in Workers, ProcessSend(w)
    PROVE  DInv'
<1>1. /\ pc[w] = "processSend" /\ sendBuffers' = <<>>
      /\ Goto(w, "disconnect") \/ Goto(w, "sendNext")
      /\ UNCHANGED <<connected, sendRegistered, sendQueue, posted, pushed, wire, lost, others>>
  BY DEF ProcessSend, At, messages, budgets
<1>2. Onward
  BY <1>1 DEF Onward
<1>3. Moves(w) /\ Attends(w) /\ pc'[w] \in {"disconnect", "sendNext"}
  BY <1>1, <1>2, GotoAttends DEF SendLabels, RecvLabels, FailLabels, Labels, DInv
<1>4. /\ sendRegistered /\ ~Early'
      /\ \A u \in Workers : pc'[u] \in SendLabels => u = w
  BY <1>1, <1>3, AloneAtSend, AloneAfterSend DEF SendLabels, EarlyLabels
<1>5. CountInv'
  BY <1>1 DEF DInv, CountInv
<1>6. \A u \in Workers : pc'[u] \notin {"registerSend", "takeQueue", "wsaSend"}
  BY <1>3, <1>4 DEF SendLabels
<1>7. QueueInv'
  BY <1>1, <1>4, <1>6 DEF QueueInv
<1>8. OrderInv'
  BY <1>1, <1>6 DEF DInv, OrderInv, Increasing, Below, AtMost
<1>9. AttendedInv'
  BY <1>1, <1>2, <1>3, <1>4, AttendedFrame DEF DInv
<1>10. LostInv'
  BY <1>1, <1>2, <1>3, LostFrame DEF DInv
<1> QED  BY <1>5, <1>7, <1>8, <1>9, <1>10 DEF DInv

LEMMA SendNextMoves ==
    ASSUME IInv, DInv, NEW w \in Workers, SendNext(w)
    PROVE  DInv'
<1>1. /\ pc[w] = "sendNext"
      /\ UNCHANGED <<connected, sendQueue, sendBuffers, posted, pushed, wire, lost, others>>
      /\ \/ sendQueue = <<>> /\ Return(w) /\ sendRegistered' = FALSE
         \/ sendQueue # <<>> /\ Call(w, "registerSend", "unlock") /\ UNCHANGED sendRegistered
  BY DEF SendNext, NothingQueued, At, messages, budgets
<1>2. Onward /\ others' \in Nat
  BY <1>1 DEF Onward, DInv, CountInv
<1>3. sendBuffers = <<>>
  BY <1>1 DEF DInv, QueueInv
<1>4. CASE sendQueue # <<>> /\ Call(w, "registerSend", "unlock") /\ UNCHANGED sendRegistered
  <2>1. Moves(w) /\ Attends(w) /\ pc'[w] = "registerSend"
    BY <1>1, <1>2, <1>4, CallAttends
       DEF BackLabels, SendLabels, RecvLabels, FailLabels, Labels, DInv
  <2>2. UNCHANGED Messages
    BY <1>1, <1>4 DEF Messages
  <2> QED  BY <1>1, <1>2, <1>3, <1>4, <2>1, <2>2, PlainKeeps DEF EarlyLabels, Early
<1>5. CASE sendQueue = <<>> /\ Return(w) /\ sendRegistered' = FALSE
  <2>1. Moves(w) /\ Attends(w) /\ pc'[w] \in BackLabels
    BY <1>1, <1>2, <1>5, ReturnAttends DEF RecvLabels, DInv
  <2>2. ~Early' /\ \A u \in Workers : pc'[u] \in SendLabels => u = w
    BY <1>1, <2>1, AloneAfterSend DEF SendLabels, EarlyLabels, BackLabels
  <2>3. \A u \in Workers : pc'[u] \notin {"registerSend", "takeQueue", "wsaSend", "sendNext"}
    BY <2>1, <2>2 DEF SendLabels, BackLabels
  <2>4. CountInv' /\ QueueInv'
    BY <1>1, <1>3, <2>2, <2>3 DEF DInv, CountInv, QueueInv
  <2>5. OrderInv'
    BY <1>1, <2>3 DEF DInv, OrderInv, Increasing, Below, AtMost
  <2>6. AttendedInv'
    BY <1>1, <1>2, <1>5, <2>1, AttendedFrame DEF DInv
  <2>7. LostInv'
    BY <1>1, <1>2, <2>1, LostFrame DEF DInv, BackLabels
  <2> QED  BY <2>4, <2>5, <2>6, <2>7 DEF DInv
<1> QED  BY <1>1, <1>4, <1>5

LEMMA ProcessConnectMoves ==
    ASSUME IInv, DInv, NEW w \in Workers, ProcessConnect(w)
    PROVE  DInv'
<1>1. /\ pc[w] = "processConnect" /\ UNCHANGED Messages /\ UNCHANGED <<posted, others>>
      /\ \/ connected' = FALSE /\ Return(w)
         \/ connected' = TRUE /\ Goto(w, "addSession")
  BY DEF ProcessConnect, At, Messages, sending, messages, budgets
<1>2. Early /\ \A u \in Workers \ {w} : pc[u] = "idle"
  BY <1>1, AloneEarly DEF Early, EarlyLabels
<1>3. ~sendRegistered /\ sendQueue = <<>> /\ lost = <<>>
  BY <1>2 DEF DInv, QueueInv
<1>4. /\ Moves(w)
      /\ \/ connected' = FALSE /\ pc'[w] \in BackLabels
         \/ connected' = TRUE /\ pc'[w] = "addSession" /\ stack'[w] = stack[w]
  BY <1>1, GotoMoves, ReturnMoves DEF IInv, Labels
<1>5. \A u \in Workers : pc'[u] \in BackLabels \cup {"addSession"}
  BY <1>2, <1>4 DEF Moves, BackLabels
<1>6. CountInv'
  BY <1>1 DEF DInv, CountInv, Messages
<1>7. QueueInv'
  BY <1>1, <1>3, <1>5 DEF DInv, QueueInv, Messages, BackLabels
<1>8. OrderInv'
  BY <1>1, <1>5 DEF DInv, OrderInv, Messages, Increasing, Below, AtMost, BackLabels
<1>9. LostInv'
  BY <1>1, <1>3 DEF LostInv, Messages
<1>10. AttendedInv'
  <2> SUFFICES ASSUME connected' PROVE AttendedInv'
    BY DEF AttendedInv
  <2>1. pc'[w] = "addSession" /\ stack'[w] = stack[w]
    BY <1>4
  <2>2. ~Nobody(RecvLabels)'
    BY <2>1 DEF Nobody, Within, RecvLabels
  <2>3. ~Within(w, FailLabels)'
    <3>1. \A i \in DOMAIN stack[w] : stack[w][i] # "sendFailed"
      BY <1>3 DEF IInv, SendInv, Nobody, Within, SendLabels
    <3>2. \A i \in DOMAIN stack[w] : stack[w][i] # "recvFailed"
      BY <1>1 DEF IInv, RecvInv, OneUse, RecvLabels
    <3> QED  BY <2>1, <3>1, <3>2 DEF Within, FailLabels
  <2>4. ASSUME NEW u \in Workers \ {w}
        PROVE  ~Within(u, FailLabels)'
    <3>1. pc'[u] = "idle" /\ stack'[u] = <<>>
      BY <1>2, <1>4 DEF Moves, IInv, StackInv
    <3> QED  BY <3>1 DEF Within, FailLabels
  <2> QED  BY <1>1, <1>3, <2>2, <2>3, <2>4 DEF AttendedInv, Messages
<1> QED  BY <1>6, <1>7, <1>8, <1>9, <1>10 DEF DInv
-----------------------------------------------------------------------------
(* The invariant *)

LEMMA InitCounts == Init => DInv
<1> SUFFICES ASSUME Init PROVE DInv
  OBVIOUS
<1>1. CountInv /\ QueueInv /\ OrderInv
  BY DEF Init, CountInv, QueueInv, OrderInv, Increasing, Below, AtMost
<1>2. AttendedInv /\ LostInv
  BY DEF Init, AttendedInv, LostInv
<1> QED  BY <1>1, <1>2 DEF DInv

LEMMA ContinueCounts ==
    ASSUME IInv, DInv, NEW w \in Workers, Continue(w)
    PROVE  DInv'
  BY SendCheckPlain, SendPushMoves, RegisterSendPlain, TakeQueueMoves, WsaSendMoves,
     WsaSendFailsMoves, SendFailedMoves, ProcessSendMoves, SendNextMoves, UnlockPlain,
     DisconnectPlain, DisconnectingPlain, ProcessConnectMoves, AddSessionPlain,
     OnConnectedPlain, RegisterRecvPlain, WsaRecvPlain, WsaRecvFailsPlain, RecvFailedPlain,
     ReceivedPlain
     DEF Continue

LEMMA StutterCounts ==
    ASSUME DInv, UNCHANGED vars
    PROVE  DInv'
  BY DEF DInv, vars, threads, sending, messages, budgets, CountInv, QueueInv, OrderInv,
         AttendedInv, LostInv, Early, Nobody, Within, Disconnecting, Increasing, Below, AtMost

LEMMA NextCounts == IInv /\ DInv /\ [Next]_vars => DInv'
<1> SUFFICES ASSUME IInv, DInv, [Next]_vars PROVE DInv'
  OBVIOUS
<1>1. CASE UNCHANGED vars
  BY <1>1, StutterCounts
<1>2. CASE Next
  <2>1. PICK w \in Workers : CallSend(w) \/ Continue(w) \/ \E op \in Ops : Dispatch(w, op)
    BY <1>2 DEF Next
  <2> QED  BY <2>1, CallSendPlain, ContinueCounts, DispatchPlain
<1> QED  BY <1>1, <1>2

\* Both inductive invariants hold in every reachable state.
THEOREM SendInvariance == Spec => [](IInv /\ DInv)
  BY Invariance, InitCounts, NextCounts, PTL DEF Spec

\* However Sends of many workers interleave: no WSASend is empty, and the wire
\* carries the messages in the order in which they were pushed.
THEOREM WireIsExact == Spec => []WireExact
<1>1. DInv => WireExact
  BY DEF DInv, QueueInv, OrderInv, Increasing, WireExact, NeverSendsNothing, WireInOrder
<1> QED  BY <1>1, SendInvariance, PTL

\* As long as every failure disconnects, a connected session has somebody who
\* will send what is queued and somebody who will notice that the peer leaves.
THEOREM NobodyWaits == Spec => []AttendedUnlessLogged
<1>1. IInv /\ DInv => AttendedUnlessLogged
  <2> SUFFICES ASSUME IInv, DInv, others = 0, connected
               PROVE  AttendedUnlessLogged
    BY DEF AttendedUnlessLogged, NothingStrandedUnlessLogged, NothingStranded,
           ListeningUnlessLogged
  <2>1. Disconnecting => \E w \in Workers : Within(w, {"disconnect"})
    BY DEF Disconnecting, Within
  <2>2. ~Nobody(SendLabels) => SendRegistrars # {}
    BY DEF Nobody, SendRegistrars, SendLabels
  <2>3. NothingStranded
    BY <2>1, <2>2 DEF NothingStranded, DInv, AttendedInv
  <2>4. ASSUME NEW w \in Workers, Within(w, RecvLabels)
        PROVE  Within(w, {"addSession", "onConnected", "registerRecv", "wsaRecv", "recvFailed",
                          "processRecv", "onRecv", "disconnect"})
    <3>1. pc[w] # "processConnect"
      BY DEF IInv, RegistryInv
    <3>2. stack[w] \in Seq(BackLabels)
      BY DEF IInv, StackInv
    <3> QED  BY <2>4, <3>1, <3>2 DEF Within, RecvLabels, BackLabels
  <2>5. ASSUME NEW w \in Workers, Within(w, {"disconnect"})
        PROVE  Within(w, {"addSession", "onConnected", "registerRecv", "wsaRecv", "recvFailed",
                          "processRecv", "onRecv", "disconnect"})
    BY <2>5 DEF Within
  <2>6. ListeningUnlessLogged
    BY <2>1, <2>4, <2>5 DEF ListeningUnlessLogged, DInv, AttendedInv, Nobody
  <2> QED  BY <2>3, <2>6 DEF AttendedUnlessLogged, NothingStrandedUnlessLogged
<1> QED  BY <1>1, SendInvariance, PTL

-----------------------------------------------------------------------------
(* What the pipe does to its sequences *)

LEMMA PipeAppended ==
    ASSUME NEW s \in Seq(Nat), NEW t \in Seq(Nat), NEW n \in Nat
    PROVE  s \o Append(t, n) = Append(s \o t, n)
<1>1. Append(t, n) = t \o <<n>> /\ Append(s \o t, n) = (s \o t) \o <<n>>
  BY AppendIsConcat, ConcatProperties
<1>2. <<n>> \in Seq(Nat)
  OBVIOUS
<1> QED  BY <1>1, <1>2, ConcatAssociative

LEMMA PipeSplit ==
    ASSUME NEW s \in Seq(Nat), s # <<>>, NEW t \in Seq(Nat)
    PROVE  /\ Len(s) \in 1 .. Len(s \o t)
           /\ SubSeq(s \o t, 1, Len(s)) = s
           /\ SubSeq(s \o t, Len(s) + 1, Len(s \o t)) = t
<1>1. Len(s) \in Nat \ {0} /\ Len(t) \in Nat /\ Len(s \o t) = Len(s) + Len(t)
  BY ConcatProperties, EmptySeq
<1>2. SubSeq(s \o t, 1, Len(s)) = s
  BY <1>1, SubSeqOfConcat1, SubSeqFull
<1>3. SubSeq(s \o t, Len(s) + 1, Len(s \o t)) = t
  <2>1. CASE t = <<>>
    <3>1. Len(t) = 0
      BY <2>1
    <3> QED  BY <1>1, <2>1, <3>1, SubSeqEmpty
  <2>2. CASE t # <<>>
    <3>1. Len(t) # 0
      BY <2>2, EmptySeq
    <3>2. SubSeq(s \o t, Len(s) + 1, Len(s) + Len(t))
            = SubSeq(t, Len(s) + 1 - Len(s), Len(s) + Len(t) - Len(s))
      BY <1>1, <3>1, SubSeqOfConcat2
    <3>3. SubSeq(t, 1, Len(t)) = t
      BY SubSeqFull
    <3> QED  BY <1>1, <3>2, <3>3
  <2> QED  BY <2>1, <2>2
<1> QED  BY <1>1, <1>2, <1>3

-----------------------------------------------------------------------------
(* Every step is a step of the pipe or invisible *)

\* A worker is at WSASend, with what it took.
Transmitting == \E w \in Workers : pc[w] = "wsaSend"

LEMMA TakenIs ==
    /\ Transmitting => Taken = sendBuffers
    /\ ~Transmitting => Taken = <<>>
  BY DEF Taken, Transmitting

LEMMA TakenNextIs ==
    /\ Transmitting' => Taken' = sendBuffers'
    /\ ~Transmitting' => Taken' = <<>>
  BY DEF Taken, Transmitting

\* What is taken stays taken while no worker comes to or leaves WSASend.
LEMMA TakenStays ==
    ASSUME NEW w \in Workers, Moves(w), pc[w] # "wsaSend", pc'[w] # "wsaSend",
           UNCHANGED sendBuffers \/ ~Transmitting
    PROVE  Taken' = Taken
<1>1. Transmitting' <=> Transmitting
  BY DEF Transmitting, Moves
<1> QED  BY <1>1, TakenIs, TakenNextIs

LEMMA Invisible ==
    ASSUME UNCHANGED <<pushed, sendQueue, wire, lost>>, Taken' = Taken
    PROVE  UNCHANGED Pipe!pipe
  BY DEF Pipe!pipe

\* Only the worker at WSASend is within the send labels.
LEMMA TransmitterAlone ==
    ASSUME IInv, NEW w \in Workers, pc[w] \in SendLabels
    PROVE  /\ pc[w] # "wsaSend" => ~Transmitting
           /\ Moves(w) /\ pc'[w] # "wsaSend" => ~Transmitting'
  BY AloneAtSend DEF Transmitting, Moves, SendLabels

LEMMA PipeAccept ==
    ASSUME IInv, DInv, NEW w \in Workers, SendPush(w)
    PROVE  Pipe!Accept
<1>1. /\ pc[w] = "push" /\ pushed' = pushed + 1 /\ sendQueue' = Append(sendQueue, pushed + 1)
      /\ UNCHANGED <<sendBuffers, wire, lost>>
      /\ Goto(w, "registerSend") \/ Return(w)
  BY DEF SendPush, WinsSend, At
<1>2. Moves(w) /\ pc'[w] \in BackLabels \cup {"registerSend"}
  BY <1>1, GotoMoves, ReturnMoves DEF IInv, Labels
<1>3. Taken' = Taken
  BY <1>1, <1>2, TakenStays DEF BackLabels
<1>4. Taken \in Seq(Nat) /\ sendQueue \in Seq(Nat) /\ pushed + 1 \in Nat
  BY DEF Taken, DInv, CountInv
<1>5. Taken' \o sendQueue' = Append(Taken \o sendQueue, pushed + 1)
  BY <1>1, <1>3, <1>4, PipeAppended
<1> QED  BY <1>1, <1>5 DEF Pipe!Accept

\* A step that moves the whole queue to the registrar is invisible.
LEMMA PipeTake ==
    ASSUME IInv, DInv, NEW w \in Workers, TakeQueue(w)
    PROVE  UNCHANGED Pipe!pipe
<1>1. /\ pc[w] = "takeQueue" /\ Goto(w, "wsaSend")
      /\ sendBuffers' = sendBuffers \o sendQueue /\ sendQueue' = <<>>
      /\ UNCHANGED <<pushed, wire, lost>>
  BY DEF TakeQueue, At, messages
<1>2. sendBuffers = <<>> /\ sendBuffers \in Seq(Nat) /\ sendQueue \in Seq(Nat)
  BY <1>1 DEF DInv, QueueInv, CountInv
<1>3. sendBuffers' = sendQueue
  BY <1>1, <1>2, ConcatEmptySeq
<1>4. ~Transmitting
  BY <1>1, TransmitterAlone DEF SendLabels
<1>5. Transmitting'
  BY <1>1, GotoMoves DEF IInv, Labels, Transmitting
<1>6. Taken = <<>> /\ Taken' = sendQueue
  BY <1>3, <1>4, <1>5, TakenIs, TakenNextIs
<1>7. Taken \o sendQueue = sendQueue /\ Taken' \o sendQueue' = sendQueue
  BY <1>1, <1>2, <1>6, ConcatEmptySeq
<1> QED  BY <1>1, <1>7 DEF Pipe!pipe

LEMMA PipeTransmit ==
    ASSUME IInv, DInv, others = 0, NEW w \in Workers, WsaSend(w)
    PROVE  Pipe!Transmit
<1>1. /\ pc[w] = "wsaSend" /\ Return(w) /\ wire' = wire \o sendBuffers
      /\ UNCHANGED <<pushed, sendQueue, lost>>
  BY DEF WsaSend, At, sending
<1>2. sendBuffers # <<>> /\ sendBuffers \in Seq(Nat) /\ sendQueue \in Seq(Nat)
  BY <1>1 DEF DInv, QueueInv, CountInv
<1>3. Transmitting /\ ~Transmitting'
  <2>1. Moves(w) /\ pc'[w] # "wsaSend"
    BY <1>1, ReturnMoves DEF IInv, BackLabels
  <2> QED  BY <1>1, <2>1, TransmitterAlone DEF Transmitting, SendLabels
<1>4. Taken = sendBuffers /\ Taken' \o sendQueue' = sendQueue
  BY <1>1, <1>2, <1>3, TakenIs, TakenNextIs, ConcatEmptySeq
<1>5. lost = <<>>
  BY <1>1 DEF DInv, LostInv
<1>6. /\ Len(sendBuffers) \in 1 .. Len(Taken \o sendQueue)
      /\ wire' = wire \o SubSeq(Taken \o sendQueue, 1, Len(sendBuffers))
      /\ Taken' \o sendQueue'
           = SubSeq(Taken \o sendQueue, Len(sendBuffers) + 1, Len(Taken \o sendQueue))
  BY <1>1, <1>2, <1>4, PipeSplit
<1> QED  BY <1>1, <1>5, <1>6 DEF Pipe!Transmit

LEMMA PipeBreak ==
    ASSUME IInv, DInv, NEW w \in Workers, WsaSendFails(w)
    PROVE  Pipe!Break
<1>1. /\ pc[w] = "wsaSend" /\ lost' = lost \o sendBuffers
      /\ UNCHANGED <<pushed, sendQueue, wire>>
      /\ Call(w, "disconnect", "sendFailed") \/ Goto(w, "sendFailed")
  BY DEF WsaSendFails, At, sending
<1>2. /\ sendBuffers # <<>> /\ sendBuffers \in Seq(Nat) /\ sendQueue \in Seq(Nat)
      /\ lost \in Seq(Nat)
  BY <1>1 DEF DInv, QueueInv, CountInv
<1>3. Transmitting /\ ~Transmitting'
  <2>1. Moves(w) /\ pc'[w] # "wsaSend"
    BY <1>1, GotoMoves, CallMoves DEF IInv, Labels, BackLabels
  <2> QED  BY <1>1, <2>1, TransmitterAlone DEF Transmitting, SendLabels
<1>4. Taken = sendBuffers /\ Taken' \o sendQueue' = sendQueue
  BY <1>1, <1>2, <1>3, TakenIs, TakenNextIs, ConcatEmptySeq
<1>5. lost' # <<>>
  BY <1>1, <1>2, Joined
<1>6. /\ Len(sendBuffers) \in 1 .. Len(Taken \o sendQueue)
      /\ Taken' \o sendQueue'
           = SubSeq(Taken \o sendQueue, Len(sendBuffers) + 1, Len(Taken \o sendQueue))
  BY <1>2, <1>4, PipeSplit
<1> QED  BY <1>1, <1>5, <1>6 DEF Pipe!Break

\* The buffers that are released have been through WSASend.
LEMMA PipeRelease ==
    ASSUME IInv, NEW w \in Workers, SendFailed(w) \/ ProcessSend(w)
    PROVE  UNCHANGED Pipe!pipe
<1>1. /\ pc[w] \in {"sendFailed", "processSend"}
      /\ UNCHANGED <<pushed, sendQueue, wire, lost>>
      /\ Return(w) \/ Goto(w, "disconnect") \/ Goto(w, "sendNext")
  BY DEF SendFailed, ProcessSend, At, messages
<1>2. Moves(w) /\ pc'[w] # "wsaSend"
  BY <1>1, GotoMoves, ReturnMoves DEF IInv, Labels, BackLabels
<1>3. ~Transmitting
  BY <1>1, TransmitterAlone DEF SendLabels
<1>4. Taken' = Taken
  BY <1>1, <1>2, <1>3, TakenStays
<1> QED  BY <1>1, <1>4, Invisible

\* Every other step moves a worker from and to a label that is not WSASend.
LEMMA PipeIdles ==
    ASSUME IInv, NEW w \in Workers, UNCHANGED <<pushed, sendQueue, sendBuffers, wire, lost>>,
           pc[w] # "wsaSend",
           \/ \E label \in Labels \ {"idle", "wsaSend"} : pc[w] # "idle" /\ Goto(w, label)
           \/ \E label \in Labels \ {"idle", "wsaSend"}, back \in BackLabels :
                 (back = "idle" <=> pc[w] = "idle") /\ Call(w, label, back)
           \/ pc[w] # "idle" /\ Return(w)
    PROVE  UNCHANGED Pipe!pipe
<1>1. Moves(w) /\ pc'[w] # "wsaSend"
  BY GotoMoves, CallMoves, ReturnMoves DEF IInv, BackLabels
<1>2. Taken' = Taken
  BY <1>1, TakenStays
<1> QED  BY <1>2, Invisible

LEMMA PipeIdlesSending ==
    ASSUME IInv, NEW w \in Workers,
           CallSend(w) \/ SendCheck(w) \/ RegisterSend(w) \/ SendNext(w) \/ Unlock(w)
    PROVE  UNCHANGED Pipe!pipe
<1>1. UNCHANGED <<pushed, sendQueue, sendBuffers, wire, lost>> /\ pc[w] # "wsaSend"
  BY DEF CallSend, SendCheck, RegisterSend, SendNext, Unlock, At, sending, messages
<1>2. CASE CallSend(w)
  BY <1>1, <1>2, PipeIdles DEF CallSend, At, Labels, BackLabels
<1>3. CASE SendCheck(w) \/ RegisterSend(w) \/ SendNext(w) \/ Unlock(w)
  BY <1>1, <1>3, PipeIdles
     DEF SendCheck, RegisterSend, SendNext, Unlock, At, Labels, BackLabels
<1> QED  BY <1>2, <1>3

LEMMA PipeIdlesDisconnecting ==
    ASSUME IInv, NEW w \in Workers,
           \/ Disconnect(w) \/ RegisterDisconnect(w)
           \/ ProcessDisconnect(w) \/ OnDisconnected(w) \/ ReleaseSession(w)
    PROVE  UNCHANGED Pipe!pipe
<1>1. UNCHANGED <<pushed, sendQueue, sendBuffers, wire, lost>> /\ pc[w] # "wsaSend"
  BY DEF Disconnect, RegisterDisconnect, ProcessDisconnect, OnDisconnected, ReleaseSession,
         At, sending, messages
<1>2. CASE ReleaseSession(w)
  <2>1. pc[w] = "releaseSession" /\ registry["service"] = "in"
    BY <1>2, AloneInDisconnect DEF ReleaseSession, At, DisconnectLabels
  <2> QED  BY <1>1, <1>2, <2>1, PipeIdles DEF ReleaseSession
<1>3. CASE \/ Disconnect(w) \/ RegisterDisconnect(w)
           \/ ProcessDisconnect(w) \/ OnDisconnected(w)
  BY <1>1, <1>3, PipeIdles
     DEF Disconnect, RegisterDisconnect, ProcessDisconnect, OnDisconnected, At, Labels
<1> QED  BY <1>2, <1>3

LEMMA PipeIdlesReceiving ==
    ASSUME IInv, NEW w \in Workers,
           \/ ProcessConnect(w) \/ AddSession(w) \/ OnConnected(w)
           \/ RegisterRecv(w) \/ WsaRecv(w) \/ WsaRecvFails(w) \/ RecvFailed(w)
           \/ ProcessRecvNothing(w) \/ ProcessRecv(w) \/ OnRecvReturns(w)
    PROVE  UNCHANGED Pipe!pipe
<1>1. UNCHANGED <<pushed, sendQueue, sendBuffers, wire, lost>> /\ pc[w] # "wsaSend"
  BY DEF ProcessConnect, AddSession, OnConnected, RegisterRecv, WsaRecv, WsaRecvFails,
         RecvFailed, ProcessRecvNothing, ProcessRecv, OnRecvReturns, At, sending, messages
<1>2. CASE ProcessConnect(w) \/ AddSession(w) \/ OnConnected(w)
  BY <1>1, <1>2, PipeIdles DEF ProcessConnect, AddSession, OnConnected, At, Labels, BackLabels
<1>3. CASE RegisterRecv(w) \/ WsaRecv(w) \/ WsaRecvFails(w) \/ RecvFailed(w)
  BY <1>1, <1>3, PipeIdles
     DEF RegisterRecv, WsaRecv, WsaRecvFails, RecvFailed, At, Labels, BackLabels
<1>4. CASE ProcessRecvNothing(w) \/ ProcessRecv(w) \/ OnRecvReturns(w)
  BY <1>1, <1>4, PipeIdles DEF ProcessRecvNothing, ProcessRecv, OnRecvReturns, At, Labels
<1> QED  BY <1>2, <1>3, <1>4

LEMMA PipeIdlesDispatch ==
    ASSUME IInv, NEW w \in Workers, NEW op \in Ops, Dispatch(w, op)
    PROVE  UNCHANGED Pipe!pipe
<1>1. Moves(w) /\ pc[w] = "idle" /\ pc'[w] = Handler[op]
  BY Dequeued
<1>2. pc'[w] # "wsaSend"
  BY <1>1 DEF Handler, Ops
<1>3. UNCHANGED <<pushed, sendQueue, sendBuffers, wire, lost>>
  BY DEF Dispatch, sending, messages
<1>4. Taken' = Taken
  BY <1>1, <1>2, <1>3, TakenStays
<1> QED  BY <1>3, <1>4, Invisible

LEMMA PipeStep ==
    ASSUME IInv, DInv, others = 0, [Next]_vars
    PROVE  [Pipe!PipeNext]_(Pipe!pipe)
<1>1. CASE UNCHANGED vars
  BY <1>1 DEF vars, threads, sending, messages, Pipe!pipe, Taken
<1>2. CASE Next
  <2>1. PICK w \in Workers : CallSend(w) \/ Continue(w) \/ \E op \in Ops : Dispatch(w, op)
    BY <1>2 DEF Next
  <2>2. CASE SendPush(w) \/ WsaSend(w) \/ WsaSendFails(w)
    BY <2>2, PipeAccept, PipeTransmit, PipeBreak DEF Pipe!PipeNext
  <2>3. CASE ~(SendPush(w) \/ WsaSend(w) \/ WsaSendFails(w))
    BY <2>1, <2>3, PipeTake, PipeRelease, PipeIdlesSending, PipeIdlesDisconnecting,
       PipeIdlesReceiving, PipeIdlesDispatch
       DEF Continue
  <2> QED  BY <2>2, <2>3
<1> QED  BY <1>1, <1>2

-----------------------------------------------------------------------------
(* The implementation *)

\* No failure has only been logged, and none ever is.
NoneLogged == others = 0

LEMMA NoneLoggedStays ==
    ASSUME MaxOther = 0, NoneLogged, [Next]_vars
    PROVE  NoneLogged'
<1> USE DEF NoneLogged
<1>1. OtherError => UNCHANGED others
  BY DEF OtherError
<1>2. CASE UNCHANGED vars
  BY <1>2 DEF vars, budgets
<1>3. CASE Next
  <2>1. PICK w \in Workers : CallSend(w) \/ Continue(w) \/ \E op \in Ops : Dispatch(w, op)
    BY <1>3 DEF Next
  <2>2. UNCHANGED others
    BY <1>1, <2>1 DEF CallSend, Continue, Dispatch, SendCheck, SendPush, RegisterSend,
       TakeQueue, WsaSend, WsaSendFails, SendFailed, ProcessSend, SendNext, Unlock, Disconnect,
       RegisterDisconnect, ProcessDisconnect, OnDisconnected, ReleaseSession, ProcessConnect,
       AddSession, OnConnected, RegisterRecv, WsaRecv, WsaRecvFails, RecvFailed,
       ProcessRecvNothing, ProcessRecv, OnRecvReturns, budgets
  <2> QED  BY <2>2
<1> QED  BY <1>2, <1>3

\* Where every failed call disconnects, messages that Send accepts reach the
\* connection in order, none twice and none skipped, until it breaks for good.
THEOREM Refinement ==
    ASSUME MaxOther = 0
    PROVE  Spec => ImplementsPipe
<1>1. Init => Pipe!PipeInit
  BY DEF Init, Pipe!PipeInit, Taken
<1>2. Init => NoneLogged
  BY DEF Init, NoneLogged
<1>3. IInv /\ DInv /\ NoneLogged /\ [Next]_vars => [Pipe!PipeNext]_(Pipe!pipe)
  BY PipeStep DEF NoneLogged
<1>4. NoneLogged /\ [Next]_vars => NoneLogged'
  BY NoneLoggedStays, MaxOther = 0
<1> QED
  BY <1>1, <1>2, <1>3, <1>4, SendInvariance, PTL DEF Spec, ImplementsPipe, Pipe!PipeSpec
-----------------------------------------------------------------------------
(***************************************************************************)
(* The bounds: how deep a worker's calls nest, and how much of each budget *)
(* is used.                                                                *)
(***************************************************************************)
\* How many callers there can be below a statement: Send and what it calls are
\* reached from a handler, Disconnect from there as well.
Depth(label) ==
    IF label = "idle" THEN 0
    ELSE IF label \in {"disconnect", "registerDisconnect"} THEN 3
    ELSE IF label \in {"send", "push", "registerSend", "takeQueue", "wsaSend", "sendFailed"} THEN 2
    ELSE 1

DepthInv == \A w \in Workers :
    /\ Len(stack[w]) <= Depth(pc[w])
    /\ \A i \in DOMAIN stack[w] : Len(stack[w]) - i <= Depth(stack[w][i])

\* Every Send that was called may still push its message.
Senders == {w \in Workers : pc[w] \in {"send", "push"}}
MessageInv ==
    /\ pushed \in Nat /\ pushed + Cardinality(Senders) <= MaxMsgs
    /\ sendQueue \in Seq(1 .. MaxMsgs) /\ sendBuffers \in Seq(1 .. MaxMsgs)
    /\ wire \in Seq(1 .. MaxMsgs) /\ lost \in Seq(1 .. MaxMsgs)
BudgetInv == lockedBy \in Workers \cup {NoWorker} /\ recvs \in 0 .. MaxRecvs /\ others \in 0 .. MaxOther

BInv == DepthInv /\ MessageInv /\ BudgetInv

LEMMA DepthType == \A label : Depth(label) \in Nat /\ Depth(label) <= 3
  BY DEF Depth

LEMMA GotoDeep ==
    ASSUME StackInv, DepthInv, NEW w \in Workers, pc[w] # "idle",
           NEW label \in Labels \ {"idle"}, Goto(w, label), Depth(pc[w]) <= Depth(label)
    PROVE  DepthInv'
<1>1. Moves(w) /\ pc'[w] = label /\ stack'[w] = stack[w]
  BY GotoMoves
<1>2. Len(stack[w]) \in Nat /\ Depth(pc[w]) \in Nat /\ Depth(label) \in Nat
  BY DepthType DEF StackInv
<1>3. Len(stack[w]) <= Depth(label)
  BY <1>2 DEF DepthInv
<1>4. ASSUME NEW u \in Workers
      PROVE  /\ Len(stack'[u]) <= Depth(pc'[u])
             /\ \A i \in DOMAIN stack'[u] : Len(stack'[u]) - i <= Depth(stack'[u][i])
  <2>1. stack'[u] = stack[u]
    BY <1>1 DEF Moves
  <2>2. Len(stack'[u]) <= Depth(pc'[u])
    BY <1>1, <1>3, <2>1 DEF Moves, DepthInv
  <2> QED  BY <2>1, <2>2 DEF DepthInv
<1> QED  BY <1>4 DEF DepthInv, Depth

LEMMA CallDeep ==
    ASSUME StackInv, DepthInv, NEW w \in Workers,
           NEW label \in Labels \ {"idle"}, NEW back \in BackLabels,
           back = "idle" <=> pc[w] = "idle", Call(w, label, back),
           Depth(pc[w]) <= Depth(back), Depth(pc[w]) + 1 <= Depth(label)
    PROVE  DepthInv'
<1>1. Moves(w) /\ pc'[w] = label /\ stack'[w] = <<back>> \o stack[w]
  BY CallMoves
<1>2. /\ Len(stack[w]) \in Nat /\ Depth(pc[w]) \in Nat /\ Depth(label) \in Nat /\ Depth(back) \in Nat
      /\ stack[w] \in Seq(BackLabels) /\ Len(stack[w]) <= Depth(pc[w])
  BY DepthType DEF StackInv, DepthInv
<1>3. /\ Len(stack'[w]) = Len(stack[w]) + 1 /\ DOMAIN stack'[w] = 1 .. Len(stack[w]) + 1
      /\ stack'[w][1] = back
      /\ \A i \in 1 .. Len(stack[w]) + 1 :
            i # 1 => i - 1 \in DOMAIN stack[w] /\ stack'[w][i] = stack[w][i - 1]
  BY <1>1, <1>2, Pushed
<1>4. ASSUME NEW i \in DOMAIN stack'[w] PROVE Len(stack'[w]) - i <= Depth(stack'[w][i])
  <2>1. CASE i = 1
    BY <1>2, <1>3, <2>1
  <2>2. CASE i # 1
    <3>1. i \in 1 .. Len(stack[w]) + 1
      BY <1>3
    <3>2. i - 1 \in DOMAIN stack[w] /\ stack'[w][i] = stack[w][i - 1]
      BY <1>3, <2>2, <3>1
    <3>3. Len(stack[w]) - (i - 1) <= Depth(stack[w][i - 1])
      BY <3>2 DEF DepthInv
    <3>4. Len(stack'[w]) - i = Len(stack[w]) - (i - 1)
      <4>1. i \in Int /\ Len(stack[w]) \in Int /\ Len(stack'[w]) = Len(stack[w]) + 1
        BY <1>2, <1>3, <3>1
      <4> QED  BY ONLY <4>1
    <3> QED  BY <3>2, <3>3, <3>4
  <2> QED  BY <2>1, <2>2
<1>5. Len(stack'[w]) <= Depth(pc'[w])
  BY <1>1, <1>2, <1>3
<1>6. ASSUME NEW u \in Workers, u # w
      PROVE  /\ Len(stack'[u]) <= Depth(pc'[u])
             /\ \A i \in DOMAIN stack'[u] : Len(stack'[u]) - i <= Depth(stack'[u][i])
  <2>1. pc'[u] = pc[u] /\ stack'[u] = stack[u]
    BY <1>1, <1>6 DEF Moves
  <2> QED  BY <2>1 DEF DepthInv
<1>7. ASSUME NEW u \in Workers
      PROVE  /\ Len(stack'[u]) <= Depth(pc'[u])
             /\ \A i \in DOMAIN stack'[u] : Len(stack'[u]) - i <= Depth(stack'[u][i])
  BY <1>4, <1>5, <1>6
<1> QED  BY <1>7 DEF DepthInv, Depth

LEMMA ReturnDeep ==
    ASSUME StackInv, DepthInv, NEW w \in Workers, pc[w] # "idle", Return(w)
    PROVE  DepthInv'
<1>1. /\ Moves(w) /\ stack[w] # <<>> /\ stack[w] \in Seq(BackLabels)
      /\ pc'[w] = stack[w][1] /\ stack'[w] = Tail(stack[w])
  BY ReturnMoves DEF StackInv
<1>2. /\ Len(stack'[w]) = Len(stack[w]) - 1 /\ DOMAIN stack'[w] = 1 .. Len(stack[w]) - 1
      /\ 1 \in DOMAIN stack[w] /\ Len(stack[w]) \in Nat \ {0}
      /\ \A i \in DOMAIN stack'[w] : i + 1 \in DOMAIN stack[w] /\ stack'[w][i] = stack[w][i + 1]
  BY <1>1, Popped
<1>3. Len(stack'[w]) <= Depth(pc'[w])
  BY <1>1, <1>2 DEF DepthInv
<1>4. ASSUME NEW i \in DOMAIN stack'[w] PROVE Len(stack'[w]) - i <= Depth(stack'[w][i])
  <2>1. Len(stack[w]) - (i + 1) <= Depth(stack[w][i + 1])
    BY <1>2 DEF DepthInv
  <2> QED  BY <1>2, <2>1
<1>5. ASSUME NEW u \in Workers, u # w
      PROVE  /\ Len(stack'[u]) <= Depth(pc'[u])
             /\ \A i \in DOMAIN stack'[u] : Len(stack'[u]) - i <= Depth(stack'[u][i])
  <2>1. pc'[u] = pc[u] /\ stack'[u] = stack[u]
    BY <1>1, <1>5 DEF Moves
  <2> QED  BY <2>1 DEF DepthInv
<1>6. ASSUME NEW u \in Workers
      PROVE  /\ Len(stack'[u]) <= Depth(pc'[u])
             /\ \A i \in DOMAIN stack'[u] : Len(stack'[u]) - i <= Depth(stack'[u][i])
  BY <1>3, <1>4, <1>5
<1> QED  BY <1>6 DEF DepthInv, Depth

\* What a step does with the stacks: nothing, or one worker goes on, returns or
\* calls where its depth allows it.
GoesOn(w) == \E label \in Labels \ {"idle", "send"} :
    pc[w] # "idle" /\ Depth(pc[w]) <= Depth(label) /\ Goto(w, label)
Returns(w) == pc[w] # "idle" /\ Return(w)
Calls(w) == \E label \in Labels \ {"idle", "push"}, back \in BackLabels :
    /\ back = "idle" <=> pc[w] = "idle"
    /\ Depth(pc[w]) <= Depth(back) /\ Depth(pc[w]) + 1 <= Depth(label)
    /\ Call(w, label, back)

LEMMA StepIsDeep ==
    ASSUME StackInv, DepthInv, NEW w \in Workers,
           GoesOn(w) \/ Returns(w) \/ Calls(w) \/ UNCHANGED threads
    PROVE  DepthInv'
<1>1. CASE UNCHANGED threads
  BY <1>1 DEF threads, DepthInv, Depth
<1>2. CASE GoesOn(w)
  BY <1>2, GotoDeep DEF GoesOn
<1>3. CASE Returns(w)
  BY <1>3, ReturnDeep DEF Returns
<1>4. CASE Calls(w)
  BY <1>4, CallDeep DEF Calls
<1> QED  BY <1>1, <1>2, <1>3, <1>4

LEMMA Onwards ==
    ASSUME NEW w \in Workers, NEW label \in Labels \ {"idle", "send"}, Goto(w, label),
           \/ Depth(pc[w]) = 1
           \/ Depth(pc[w]) = 2 /\ Depth(label) = 2
           \/ pc[w] = "disconnect" /\ label = "registerDisconnect"
    PROVE  GoesOn(w)
<1>1. Depth(pc[w]) <= Depth(label) /\ pc[w] # "idle"
  BY DEF Depth
<1> QED  BY <1>1 DEF GoesOn

LEMMA SendSteps ==
    ASSUME NEW w \in Workers,
           \/ SendCheck(w) \/ SendPush(w) \/ RegisterSend(w) \/ TakeQueue(w) \/ WsaSend(w)
           \/ WsaSendFails(w) \/ SendFailed(w) \/ ProcessSend(w) \/ SendNext(w) \/ Unlock(w)
    PROVE  GoesOn(w) \/ Returns(w) \/ Calls(w)
<1>0. /\ \A label \in {"send", "push", "registerSend", "takeQueue", "wsaSend", "sendFailed"} : Depth(label) = 2
      /\ {"push", "registerSend", "takeQueue", "wsaSend", "sendFailed", "sendNext", "disconnect"} \subseteq Labels
      /\ Depth("processSend") = 1 /\ Depth("disconnect") = 3
  BY DEF Depth, Labels
<1>1. CASE SendCheck(w)
  BY <1>0, <1>1, Onwards DEF SendCheck, At, Returns
<1>2. CASE SendPush(w)
  BY <1>0, <1>2, Onwards DEF SendPush, At, Returns
<1>3. CASE RegisterSend(w) \/ TakeQueue(w)
  BY <1>0, <1>3, Onwards DEF RegisterSend, TakeQueue, At, Returns
<1>4. CASE WsaSend(w) \/ SendFailed(w) \/ Unlock(w)
  BY <1>4 DEF WsaSend, SendFailed, Unlock, At, Returns
<1>5. CASE WsaSendFails(w)
  BY <1>5 DEF WsaSendFails, At, GoesOn, Calls, Depth, Labels, BackLabels
<1>6. CASE ProcessSend(w)
  BY <1>0, <1>6, Onwards DEF ProcessSend, At
<1>7. CASE SendNext(w)
  BY <1>7 DEF SendNext, At, Returns, Calls, Depth, Labels, BackLabels
<1> QED  BY <1>1, <1>2, <1>3, <1>4, <1>5, <1>6, <1>7

LEMMA OtherSteps ==
    ASSUME NEW w \in Workers,
           \/ Disconnect(w) \/ RegisterDisconnect(w) \/ ProcessDisconnect(w) \/ OnDisconnected(w)
           \/ ReleaseSession(w) \/ ProcessConnect(w) \/ AddSession(w) \/ OnConnected(w)
           \/ RegisterRecv(w) \/ WsaRecv(w) \/ WsaRecvFails(w) \/ RecvFailed(w)
           \/ ProcessRecvNothing(w) \/ ProcessRecv(w) \/ OnRecvReturns(w)
    PROVE  GoesOn(w) \/ Returns(w) \/ Calls(w) \/ UNCHANGED threads
<1>0. /\ \A label \in {"processDisconnect", "onDisconnected", "processConnect", "addSession",
                       "onConnected", "registerRecv", "wsaRecv", "processRecv", "onRecv"} : Depth(label) = 1
      /\ {"registerDisconnect", "onDisconnected", "releaseSession", "addSession", "onConnected",
          "registerRecv", "wsaRecv", "recvFailed", "onRecv", "disconnect"} \subseteq Labels
  BY DEF Depth, Labels
<1>1. CASE Disconnect(w)
  BY <1>0, <1>1, Onwards DEF Disconnect, At, Returns
<1>2. CASE ProcessConnect(w) \/ RegisterRecv(w)
  BY <1>0, <1>2, Onwards DEF ProcessConnect, RegisterRecv, At, Returns
<1>3. CASE RegisterDisconnect(w) \/ ReleaseSession(w) \/ WsaRecv(w) \/ RecvFailed(w)
  BY <1>3 DEF RegisterDisconnect, ReleaseSession, WsaRecv, RecvFailed, At, Returns
<1>4. CASE ProcessDisconnect(w) \/ OnDisconnected(w) \/ AddSession(w)
  BY <1>0, <1>4, Onwards DEF ProcessDisconnect, OnDisconnected, AddSession, At
<1>5. CASE OnConnected(w)
  <2>1. CASE Goto(w, "registerRecv")
    BY <1>0, <1>5, <2>1, Onwards DEF OnConnected, At
  <2>2. CASE Call(w, "send", "registerRecv")
    <3>1. /\ "send" \in Labels \ {"idle", "push"} /\ "registerRecv" \in BackLabels
          /\ pc[w] = "onConnected" /\ Depth("onConnected") + 1 <= Depth("send")
          /\ Depth("onConnected") <= Depth("registerRecv")
      BY <1>5 DEF OnConnected, At, Labels, BackLabels, Depth
    <3> QED  BY <2>2, <3>1 DEF Calls
  <2> QED  BY <1>5, <2>1, <2>2 DEF OnConnected
<1>6. CASE WsaRecvFails(w)
  <2>1. CASE Goto(w, "recvFailed")
    BY <1>0, <1>6, <2>1, Onwards DEF WsaRecvFails, At
  <2>2. CASE Call(w, "disconnect", "recvFailed")
    <3>1. /\ "disconnect" \in Labels \ {"idle", "push"} /\ "recvFailed" \in BackLabels
          /\ pc[w] = "wsaRecv" /\ Depth("wsaRecv") + 1 <= Depth("disconnect")
          /\ Depth("wsaRecv") <= Depth("recvFailed")
      BY <1>6 DEF WsaRecvFails, At, Labels, BackLabels, Depth
    <3> QED  BY <2>2, <3>1 DEF Calls
  <2> QED  BY <1>6, <2>1, <2>2 DEF WsaRecvFails
<1>7. CASE ProcessRecvNothing(w) \/ ProcessRecv(w) \/ OnRecvReturns(w)
  BY <1>0, <1>7, Onwards DEF ProcessRecvNothing, ProcessRecv, OnRecvReturns, At
<1> QED  BY <1>1, <1>2, <1>3, <1>4, <1>5, <1>6, <1>7

LEMMA FirstSteps ==
    ASSUME NEW w \in Workers, CallSend(w) \/ \E op \in Ops : Dispatch(w, op)
    PROVE  Calls(w) \/ UNCHANGED threads
<1>1. CASE CallSend(w)
  BY <1>1 DEF CallSend, At, Calls, Depth, Labels, BackLabels
<1>2. ASSUME NEW op \in Ops, Dispatch(w, op) PROVE Calls(w) \/ UNCHANGED threads
  <2>1. Handler[op] \in {"processConnect", "processRecv", "processSend", "processDisconnect"}
    BY DEF Handler, Ops
  <2>2. Handler[op] \in Labels \ {"idle", "push"} /\ Depth(Handler[op]) = 1
    BY <2>1 DEF Labels, Depth
  <2> QED  BY <1>2, <2>2 DEF Dispatch, At, Calls, Depth, BackLabels
<1> QED  BY <1>1, <1>2

LEMMA NextIsDeep == IInv /\ DepthInv /\ [Next]_vars => DepthInv'
<1> SUFFICES ASSUME IInv, DepthInv, [Next]_vars PROVE DepthInv'
  OBVIOUS
<1>1. CASE UNCHANGED vars
  BY <1>1 DEF vars, threads, DepthInv, Depth
<1>2. CASE Next
  <2>1. PICK w \in Workers : CallSend(w) \/ Continue(w) \/ \E op \in Ops : Dispatch(w, op)
    BY <1>2 DEF Next
  <2>2. GoesOn(w) \/ Returns(w) \/ Calls(w) \/ UNCHANGED threads
    BY <2>1, SendSteps, OtherSteps, FirstSteps DEF Continue
  <2> QED  BY <2>2, StepIsDeep DEF IInv
<1> QED  BY <1>1, <1>2

LEMMA SendersAre == IsFiniteSet(Senders) /\ Cardinality(Senders) \in Nat /\ Sending = Cardinality(Senders)
<1>1. IsFiniteSet(Senders)
  BY FS_Subset, WorkersAssumption DEF Senders
<1> QED  BY <1>1, FS_CardinalityType DEF Senders, Sending

LEMMA SendersStay ==
    ASSUME StackInv, NEW w \in Workers, Moves(w),
           pc[w] \in {"send", "push"} <=> pc'[w] \in {"send", "push"}
    PROVE  Senders' = Senders
  BY DEF Moves, Senders

LEMMA SenderEnters ==
    ASSUME NEW w \in Workers, Moves(w), pc[w] \notin {"send", "push"}, pc'[w] = "send"
    PROVE  Cardinality(Senders') = Cardinality(Senders) + 1
<1>1. Senders' = Senders \cup {w} /\ w \notin Senders
  BY DEF Moves, Senders
<1> QED  BY <1>1, SendersAre, FS_AddElement

LEMMA SenderLeaves ==
    ASSUME NEW w \in Workers, Moves(w), pc[w] \in {"send", "push"}, pc'[w] \notin {"send", "push"}
    PROVE  Cardinality(Senders') = Cardinality(Senders) - 1
<1>1. Senders' = Senders \ {w} /\ w \in Senders
  BY DEF Moves, Senders
<1> QED  BY <1>1, SendersAre, FS_RemoveElement

\* A worker that is not in Send comes there only by a call.
LEMMA StaysOut ==
    ASSUME StackInv, NEW w \in Workers, pc[w] \notin {"send", "push"},
           \/ \E label \in Labels \ {"idle", "send", "push"} : pc[w] # "idle" /\ Goto(w, label)
           \/ Returns(w)
           \/ \E label \in Labels \ {"idle", "send", "push"}, back \in BackLabels :
                 (back = "idle" <=> pc[w] = "idle") /\ Call(w, label, back)
           \/ UNCHANGED threads
    PROVE  Senders' = Senders
<1>1. ASSUME NEW label \in Labels \ {"idle", "send", "push"}, pc[w] # "idle", Goto(w, label)
      PROVE  Senders' = Senders
  BY <1>1, GotoMoves, SendersStay
<1>2. CASE Returns(w)
  <2>1. Moves(w) /\ pc'[w] \in BackLabels
    BY <1>2, ReturnMoves DEF Returns
  <2> QED  BY <2>1, SendersStay DEF BackLabels
<1>3. ASSUME NEW label \in Labels \ {"idle", "send", "push"}, NEW back \in BackLabels,
             back = "idle" <=> pc[w] = "idle", Call(w, label, back)
      PROVE  Senders' = Senders
  BY <1>3, CallMoves, SendersStay
<1>4. CASE UNCHANGED threads
  BY <1>4 DEF threads, Senders
<1> QED  BY <1>1, <1>2, <1>3, <1>4

LEMMA MessageFrame ==
    ASSUME MessageInv, UNCHANGED pushed, Cardinality(Senders') <= Cardinality(Senders),
           sendQueue' \in Seq(1 .. MaxMsgs), sendBuffers' \in Seq(1 .. MaxMsgs),
           wire' \in Seq(1 .. MaxMsgs), lost' \in Seq(1 .. MaxMsgs)
    PROVE  MessageInv'
<1>1. Cardinality(Senders) \in Nat /\ Cardinality(Senders') \in Nat
  BY SendersAre, WorkersAssumption, FS_Subset, FS_CardinalityType DEF Senders
<1> QED  BY <1>1, BoundAssumption DEF MessageInv

\* Messages go from the queue to the buffers, and from there to the wire or into loss.
LEMMA MessagesMove ==
    ASSUME MessageInv
    PROVE  /\ sendBuffers \o sendQueue \in Seq(1 .. MaxMsgs)
           /\ wire \o sendBuffers \in Seq(1 .. MaxMsgs) /\ lost \o sendBuffers \in Seq(1 .. MaxMsgs)
           /\ <<>> \in Seq(1 .. MaxMsgs)
  BY DEF MessageInv

LEMMA CallSendCounts ==
    ASSUME IInv, MessageInv, NEW w \in Workers, CallSend(w)
    PROVE  MessageInv'
<1>1. /\ pc[w] \in {"idle", "onRecv"} /\ Call(w, "send", pc[w]) /\ pushed + Sending < MaxMsgs
      /\ UNCHANGED <<sending, messages>>
  BY DEF CallSend, At, CanSend
<1>2. "send" \in Labels \ {"idle"} /\ pc[w] \in BackLabels
  BY <1>1 DEF Labels, BackLabels
<1>3. Moves(w) /\ pc'[w] = "send"
  BY <1>1, <1>2, CallMoves DEF IInv
<1>4. Cardinality(Senders') = Cardinality(Senders) + 1
  BY <1>1, <1>3, SenderEnters
<1> QED  BY <1>1, <1>4, SendersAre, BoundAssumption DEF MessageInv, sending, messages

LEMMA OnConnectedCounts ==
    ASSUME IInv, MessageInv, NEW w \in Workers, OnConnected(w)
    PROVE  MessageInv'
<1>1. pc[w] = "onConnected" /\ UNCHANGED <<sending, messages>>
  BY DEF OnConnected, At
<1>2. CASE Goto(w, "registerRecv")
  <2>1. "registerRecv" \in Labels \ {"idle", "send", "push"}
    BY DEF Labels
  <2>2. Senders' = Senders
    BY <1>1, <1>2, <2>1, StaysOut DEF IInv
  <2> QED  BY <1>1, <2>2 DEF MessageInv, sending, messages
<1>3. CASE CanSend /\ Call(w, "send", "registerRecv")
  <2>1. "send" \in Labels \ {"idle"} /\ "registerRecv" \in BackLabels
    BY DEF Labels, BackLabels
  <2>2. Moves(w) /\ pc'[w] = "send"
    BY <1>1, <1>3, <2>1, CallMoves DEF IInv
  <2>3. Cardinality(Senders') = Cardinality(Senders) + 1
    BY <1>1, <2>2, SenderEnters
  <2> QED
    BY <1>1, <1>3, <2>3, SendersAre, BoundAssumption DEF MessageInv, sending, messages, CanSend
<1> QED  BY <1>2, <1>3 DEF OnConnected

LEMMA SendCheckCounts ==
    ASSUME IInv, MessageInv, NEW w \in Workers, SendCheck(w)
    PROVE  MessageInv'
<1>1. pc[w] = "send" /\ UNCHANGED <<sending, messages>>
  BY DEF SendCheck, At
<1>2. CASE Goto(w, "push")
  <2>1. "push" \in Labels \ {"idle"}
    BY DEF Labels
  <2>2. Senders' = Senders
    BY <1>1, <1>2, <2>1, GotoMoves, SendersStay DEF IInv
  <2> QED  BY <1>1, <2>2 DEF MessageInv, sending, messages
<1>3. CASE Return(w)
  <2>1. Moves(w) /\ pc'[w] \in BackLabels
    BY <1>1, <1>3, ReturnMoves DEF IInv
  <2>2. Cardinality(Senders') = Cardinality(Senders) - 1
    BY <1>1, <2>1, SenderLeaves DEF BackLabels
  <2> QED
    BY <1>1, <2>2, SendersAre, BoundAssumption DEF MessageInv, sending, messages
<1> QED  BY <1>2, <1>3 DEF SendCheck

\* The message that is pushed was allowed when Send was called.
LEMMA SendPushCounts ==
    ASSUME IInv, MessageInv, NEW w \in Workers, SendPush(w)
    PROVE  MessageInv'
<1>1. /\ pc[w] = "push" /\ pushed' = pushed + 1 /\ sendQueue' = Append(sendQueue, pushed + 1)
      /\ UNCHANGED <<sendBuffers, wire, lost>>
      /\ Goto(w, "registerSend") \/ Return(w)
  BY DEF SendPush, At
<1>2. Moves(w) /\ pc'[w] \notin {"send", "push"}
  <2>1. CASE Goto(w, "registerSend")
    <3>1. "registerSend" \in Labels \ {"idle"}
      BY DEF Labels
    <3> QED  BY <1>1, <2>1, <3>1, GotoMoves DEF IInv
  <2>2. CASE Return(w)
    BY <1>1, <2>2, ReturnMoves DEF IInv, BackLabels
  <2> QED  BY <1>1, <2>1, <2>2
<1>3. Cardinality(Senders') = Cardinality(Senders) - 1
  BY <1>1, <1>2, SenderLeaves
<1>4. Cardinality(Senders) \in Nat \ {0}
  <2>1. w \in Senders
    BY <1>1 DEF Senders
  <2> QED  BY <2>1, SendersAre, FS_EmptySet
<1>5. pushed + 1 \in 1 .. MaxMsgs
  BY <1>4, BoundAssumption DEF MessageInv
<1>6. sendQueue' \in Seq(1 .. MaxMsgs)
  BY <1>1, <1>5 DEF MessageInv
<1> QED  BY <1>1, <1>3, <1>4, <1>6, BoundAssumption DEF MessageInv

\* In the other steps of sending, nobody comes into or out of Send.
LEMMA RegisterCounts ==
    ASSUME IInv, MessageInv, NEW w \in Workers,
           \/ RegisterSend(w) \/ TakeQueue(w) \/ WsaSend(w) \/ WsaSendFails(w) \/ SendFailed(w)
           \/ ProcessSend(w) \/ SendNext(w) \/ Unlock(w)
    PROVE  MessageInv'
<1>0. {"takeQueue", "wsaSend", "sendFailed", "sendNext", "disconnect", "registerSend"}
          \subseteq Labels \ {"idle", "send", "push"} /\ {"sendFailed", "unlock"} \subseteq BackLabels
  BY DEF Labels, BackLabels
<1>1. Senders' = Senders
  <2>1. CASE RegisterSend(w) \/ TakeQueue(w)
    BY <1>0, <2>1, StaysOut DEF RegisterSend, TakeQueue, At, Returns, IInv
  <2>2. CASE WsaSend(w) \/ SendFailed(w) \/ Unlock(w)
    BY <2>2, StaysOut DEF WsaSend, SendFailed, Unlock, At, Returns, IInv
  <2>3. CASE WsaSendFails(w)
    BY <1>0, <2>3, StaysOut DEF WsaSendFails, At, IInv
  <2>4. CASE ProcessSend(w)
    BY <1>0, <2>4, StaysOut DEF ProcessSend, At, IInv
  <2>5. CASE SendNext(w)
    BY <1>0, <2>5, StaysOut DEF SendNext, At, Returns, IInv
  <2> QED  BY <2>1, <2>2, <2>3, <2>4, <2>5
<1>2. CASE RegisterSend(w) \/ SendNext(w) \/ Unlock(w)
  <2>1. UNCHANGED <<sendQueue, sendBuffers, pushed, wire, lost>>
    BY <1>2 DEF RegisterSend, SendNext, Unlock, sending, messages
  <2> QED  BY <1>1, <2>1 DEF MessageInv
<1>3. CASE TakeQueue(w)
  BY <1>1, <1>3, MessagesMove DEF TakeQueue, messages, MessageInv
<1>4. CASE WsaSend(w) \/ WsaSendFails(w)
  BY <1>1, <1>4, MessagesMove DEF WsaSend, WsaSendFails, sending, MessageInv
<1>5. CASE SendFailed(w) \/ ProcessSend(w)
  BY <1>1, <1>5, MessagesMove DEF SendFailed, ProcessSend, messages, MessageInv
<1> QED  BY <1>2, <1>3, <1>4, <1>5

LEMMA ReceiveCounts ==
    ASSUME IInv, MessageInv, NEW w \in Workers,
           \/ Disconnect(w) \/ RegisterDisconnect(w) \/ ProcessDisconnect(w) \/ OnDisconnected(w)
           \/ ReleaseSession(w) \/ ProcessConnect(w) \/ AddSession(w)
           \/ RegisterRecv(w) \/ WsaRecv(w) \/ WsaRecvFails(w) \/ RecvFailed(w)
           \/ ProcessRecvNothing(w) \/ ProcessRecv(w) \/ OnRecvReturns(w)
    PROVE  MessageInv'
<1>0. {"registerDisconnect", "onDisconnected", "releaseSession", "addSession", "onConnected",
       "wsaRecv", "recvFailed", "disconnect", "onRecv", "registerRecv"}
          \subseteq Labels \ {"idle", "send", "push"} /\ "recvFailed" \in BackLabels
  BY DEF Labels, BackLabels
<1>1. Senders' = Senders
  <2>1. CASE Disconnect(w) \/ ProcessConnect(w) \/ RegisterRecv(w)
    BY <1>0, <2>1, StaysOut DEF Disconnect, ProcessConnect, RegisterRecv, At, Returns, IInv
  <2>2. CASE RegisterDisconnect(w) \/ ReleaseSession(w) \/ WsaRecv(w) \/ RecvFailed(w)
    BY <2>2, StaysOut DEF RegisterDisconnect, ReleaseSession, WsaRecv, RecvFailed, At, Returns, IInv
  <2>3. CASE ProcessDisconnect(w) \/ OnDisconnected(w) \/ AddSession(w)
    BY <1>0, <2>3, StaysOut DEF ProcessDisconnect, OnDisconnected, AddSession, At, IInv
  <2>4. CASE WsaRecvFails(w)
    BY <1>0, <2>4, StaysOut DEF WsaRecvFails, At, IInv
  <2>5. CASE ProcessRecvNothing(w) \/ ProcessRecv(w) \/ OnRecvReturns(w)
    BY <1>0, <2>5, StaysOut DEF ProcessRecvNothing, ProcessRecv, OnRecvReturns, At, IInv
  <2> QED  BY <2>1, <2>2, <2>3, <2>4, <2>5
<1>2. UNCHANGED <<sendQueue, sendBuffers, pushed, wire, lost>>
  BY DEF Disconnect, RegisterDisconnect, ProcessDisconnect, OnDisconnected, ReleaseSession,
         ProcessConnect, AddSession, RegisterRecv, WsaRecv, WsaRecvFails, RecvFailed,
         ProcessRecvNothing, ProcessRecv, OnRecvReturns, sending, messages
<1> QED  BY <1>1, <1>2 DEF MessageInv

LEMMA DispatchCounts ==
    ASSUME IInv, MessageInv, NEW w \in Workers, NEW op \in Ops, Dispatch(w, op)
    PROVE  MessageInv'
<1>1. Handler[op] \in Labels \ {"idle", "send", "push"} /\ "idle" \in BackLabels
  BY DEF Handler, Ops, Labels, BackLabels
<1>2. Senders' = Senders
  BY <1>1, StaysOut DEF Dispatch, At, IInv
<1>3. UNCHANGED <<sendQueue, sendBuffers, pushed, wire, lost>>
  BY DEF Dispatch, sending, messages
<1> QED  BY <1>2, <1>3 DEF MessageInv

LEMMA NextMessages == IInv /\ MessageInv /\ [Next]_vars => MessageInv'
<1> SUFFICES ASSUME IInv, MessageInv, [Next]_vars PROVE MessageInv'
  OBVIOUS
<1>1. CASE UNCHANGED vars
  BY <1>1 DEF vars, threads, sending, messages, MessageInv, Senders
<1>2. CASE Next
  <2>1. PICK w \in Workers : CallSend(w) \/ Continue(w) \/ \E op \in Ops : Dispatch(w, op)
    BY <1>2 DEF Next
  <2> QED
    BY <2>1, CallSendCounts, OnConnectedCounts, SendCheckCounts, SendPushCounts, RegisterCounts,
       ReceiveCounts, DispatchCounts DEF Continue
<1> QED  BY <1>1, <1>2

LEMMA NextBudgets == BudgetInv /\ [Next]_vars => BudgetInv'
<1> SUFFICES ASSUME BudgetInv, [Next]_vars PROVE BudgetInv'
  OBVIOUS
<1>1. CASE UNCHANGED vars
  BY <1>1 DEF vars, sending, budgets, BudgetInv
<1>2. ASSUME NEW w \in Workers, CallSend(w) \/ Continue(w) \/ \E op \in Ops : Dispatch(w, op)
      PROVE  lockedBy' \in {lockedBy, w, NoWorker}
  BY <1>2 DEF CallSend, Continue, Dispatch, SendCheck, SendPush, RegisterSend, TakeQueue, WsaSend,
     WsaSendFails, SendFailed, ProcessSend, SendNext, Unlock, Disconnect, RegisterDisconnect,
     ProcessDisconnect, OnDisconnected, ReleaseSession, ProcessConnect, AddSession, OnConnected,
     RegisterRecv, WsaRecv, WsaRecvFails, RecvFailed, ProcessRecvNothing, ProcessRecv,
     OnRecvReturns, sending
<1>3. ASSUME NEW w \in Workers, CallSend(w) \/ Continue(w) \/ \E op \in Ops : Dispatch(w, op)
      PROVE  /\ recvs' = recvs \/ (recvs < MaxRecvs /\ recvs' = recvs + 1)
             /\ others' = others \/ (others < MaxOther /\ others' = others + 1)
  BY <1>3 DEF CallSend, Continue, Dispatch, SendCheck, SendPush, RegisterSend, TakeQueue, WsaSend,
     WsaSendFails, SendFailed, ProcessSend, SendNext, Unlock, Disconnect, RegisterDisconnect,
     ProcessDisconnect, OnDisconnected, ReleaseSession, ProcessConnect, AddSession, OnConnected,
     RegisterRecv, WsaRecv, WsaRecvFails, RecvFailed, ProcessRecvNothing, ProcessRecv,
     OnRecvReturns, OtherError, budgets
<1>4. CASE Next
  <2>1. PICK w \in Workers : CallSend(w) \/ Continue(w) \/ \E op \in Ops : Dispatch(w, op)
    BY <1>4 DEF Next
  <2> QED  BY <1>2, <1>3, <2>1, BoundAssumption DEF BudgetInv
<1> QED  BY <1>1, <1>4

LEMMA InitBounds == Init => BInv
<1> SUFFICES ASSUME Init PROVE BInv
  OBVIOUS
<1>1. DepthInv
  BY DEF Init, DepthInv, Depth
<1>2. Senders = {}
  BY DEF Init, Senders
<1>3. MessageInv
  BY <1>2, FS_EmptySet, BoundAssumption DEF Init, MessageInv
<1> QED  BY <1>1, <1>3, BoundAssumption DEF Init, BInv, BudgetInv

LEMMA BoundsAreTypes == IInv /\ BInv => TypeOK
<1> SUFFICES ASSUME IInv, BInv PROVE TypeOK
  OBVIOUS
<1>1. ASSUME NEW w \in Workers PROVE stack[w] \in Seq(Labels) /\ Len(stack[w]) <= 3
  <2>1. BackLabels \subseteq Labels
    BY DEF BackLabels, Labels
  <2>2. stack[w] \in Seq(BackLabels)
    BY DEF IInv, StackInv
  <2>3. Len(stack[w]) \in Nat /\ Len(stack[w]) <= Depth(pc[w])
    BY <2>2 DEF BInv, DepthInv
  <2> QED  BY <2>1, <2>2, <2>3, DepthType
<1>2. pushed \in 0 .. MaxMsgs
  BY SendersAre, BoundAssumption DEF BInv, MessageInv
<1> QED  BY <1>1, <1>2 DEF IInv, TypeInv, StackInv, BInv, MessageInv, BudgetInv, TypeOK

\* Types, for every number of workers, messages and failures: no more than three
\* callers wait on any stack, for Disconnect does not call back into Send, and
\* what is queued, sent or lost are messages that were pushed.
THEOREM TypeCorrect == Spec => []TypeOK
<1>1. IInv /\ BInv /\ [Next]_vars => BInv'
  BY NextIsDeep, NextMessages, NextBudgets DEF BInv
<1>2. Spec => [](IInv /\ BInv)
  BY <1>1, Invariance, InitBounds, PTL DEF Spec
<1> QED  BY <1>2, BoundsAreTypes, PTL
=============================================================================
