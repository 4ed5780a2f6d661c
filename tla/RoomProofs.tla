----------------------------- MODULE RoomProofs -----------------------------
(***************************************************************************)
(* Proofs about Room, for every finite set of players, every limit and     *)
(* every number of messages: members hear exactly the messages of their    *)
(* stay, the room never holds too many, and a null session needs a member  *)
(* whose session was destroyed.                                            *)
(***************************************************************************)
EXTENDS Room, FiniteSetTheorems, SequenceTheorems, TLAPS

Messages == [kind : {"enter", "leave", "chat"}, by : Players]

TypeInv ==
    /\ members \subseteq Players
    /\ todo \subseteq Players
    /\ lockedBy \in Players \cup {NoPlayer}
    /\ strict \in BOOLEAN
    /\ crashed \in BOOLEAN
    /\ live \in [Players -> BOOLEAN]
    /\ inbox \in [Players -> Seq(Nat)]
    /\ log \in Seq(Messages)
    /\ Len(log) <= MaxMessages

\* The room's map is what its history says, and within its limit.
MemberInv ==
    /\ \A p \in Players : p \in members <=> Inside(p, Len(log))
    /\ Cardinality(members) <= MaxPlayerCount

\* Whoever is still to be reached is a member or the player at work, who is alive.
LockInv ==
    /\ lockedBy = NoPlayer => todo = {}
    /\ lockedBy # NoPlayer => log # <<>> /\ live[lockedBy] /\ todo \subseteq members \cup {lockedBy}

Heard(p, n) == \E i \in DOMAIN inbox[p] : inbox[p][i] = n

\* Only those still to be reached miss a message, and only the last one.
HeardInv == \A p \in Players :
    /\ p \in todo => ShouldHear(p, Len(log)) /\ ~Heard(p, Len(log))
    /\ live[p] => \A n \in 1 .. Len(log) :
           ShouldHear(p, n) => Heard(p, n) \/ (p \in todo /\ n = Len(log))

\* What was heard is a part of the log without repetitions and gaps.
OrderInv == \A p \in Players : \A i \in DOMAIN inbox[p] :
    /\ inbox[p][i] \in 1 .. Len(log)
    /\ \A j \in DOMAIN inbox[p] : i < j => inbox[p][i] < inbox[p][j]
    /\ ShouldHear(p, inbox[p][i])
    /\ \A n \in 1 .. inbox[p][i] : ShouldHear(p, n) => Heard(p, n)

IInv == TypeInv /\ MemberInv /\ LockInv /\ HeardInv /\ OrderInv /\ CrashNeedsDeadMember

-----------------------------------------------------------------------------
(* Lemmas *)

\* A new message changes nothing about the old ones.
LEMMA HistoryGrows ==
    ASSUME TypeInv, NEW p \in Players, NEW e \in Messages, log' = Append(log, e),
           NEW m, m = Len(log)
    PROVE  /\ \A n \in 0 .. m : Inside(p, n)' <=> Inside(p, n)
           /\ \A n \in 1 .. m : ShouldHear(p, n)' <=> ShouldHear(p, n)
           /\ Inside(p, m + 1)' <=> (e = Entered(p) \/ (Inside(p, m) /\ e # Left(p)))
           /\ ShouldHear(p, m + 1)' <=> (Inside(p, m) \/ e = Entered(p) \/ e = Left(p))
<1>1. /\ m \in Nat /\ \A n \in 1 .. m : log'[n] = log[n]
      /\ log'[m + 1] = e
  BY DEF TypeInv
<1>2. Entered(p) # Left(p) /\ Entered(p)' = Entered(p) /\ Left(p)' = Left(p)
  BY DEF Entered, Left
<1>3. ASSUME NEW n \in 0 .. m
      PROVE  Inside(p, n)' <=> Inside(p, n)
  BY <1>1, <1>2 DEF Inside
<1>4. ASSUME NEW n \in 1 .. m
      PROVE  ShouldHear(p, n)' <=> ShouldHear(p, n)
  BY <1>1, <1>2, <1>3 DEF ShouldHear
<1>5. Inside(p, m + 1)' <=> (e = Entered(p) \/ (Inside(p, m) /\ e # Left(p)))
  <2>1. ASSUME e = Entered(p)
        PROVE  Inside(p, m + 1)'
    BY <1>1, <1>2, <2>1 DEF Inside
  <2>2. ASSUME Inside(p, m), e # Left(p)
        PROVE  Inside(p, m + 1)'
    <3>1. PICK i \in 1 .. m : log[i] = Entered(p) /\ \A j \in i + 1 .. m : log[j] # Left(p)
      BY <2>2 DEF Inside
    <3>2. i \in 1 .. m + 1 /\ log'[i] = Entered(p)
      BY <1>1, <3>1
    <3>3. \A j \in i + 1 .. m + 1 : log'[j] # Left(p)
      BY <1>1, <2>2, <3>1
    <3> QED
      BY <1>2, <3>2, <3>3 DEF Inside
  <2>3. ASSUME Inside(p, m + 1)', e # Entered(p)
        PROVE  Inside(p, m) /\ e # Left(p)
    <3>1. PICK i \in 1 .. m + 1 :
              log'[i] = Entered(p) /\ \A j \in i + 1 .. m + 1 : log'[j] # Left(p)
      BY <1>2, <2>3 DEF Inside
    <3>2. i \in 1 .. m
      BY <1>1, <2>3, <3>1
    <3>3. e # Left(p) /\ log[i] = Entered(p) /\ \A j \in i + 1 .. m : log[j] # Left(p)
      BY <1>1, <3>1, <3>2
    <3> QED
      BY <3>2, <3>3 DEF Inside
  <2> QED
    BY <2>1, <2>2, <2>3
<1>6. ShouldHear(p, m + 1)' <=> (Inside(p, m) \/ e = Entered(p) \/ e = Left(p))
  BY <1>1, <1>2, <1>5 DEF ShouldHear
<1> QED
  BY <1>3, <1>4, <1>5, <1>6

\* Taking the lock to announce a message to the right audience.
LEMMA AnnounceStep ==
    ASSUME IInv, NEW p \in Players, live[p], lockedBy = NoPlayer, Len(log) < MaxMessages,
           NEW e \in Messages, log' = Append(log, e), lockedBy' = p,
           inbox' = inbox, live' = live, crashed' = crashed, ~crashed, strict' \in BOOLEAN,
           members' \subseteq Players, Cardinality(members') <= MaxPlayerCount,
           \A q \in Players :
               q \in members' <=> e = Entered(q) \/ (q \in members /\ e # Left(q)),
           \A q \in Players : q \in todo' <=> q \in members' \/ e = Left(q),
           todo' \subseteq members' \cup {p}, todo' \subseteq Players
    PROVE  IInv'
<1>0. PICK m : m = Len(log)
  OBVIOUS
<1>1. /\ m \in Nat /\ Len(log') = m + 1 /\ log' \in Seq(Messages) /\ log' # <<>> /\ todo = {}
      /\ p # NoPlayer
  BY <1>0, PlayersAssumption DEF IInv, TypeInv, LockInv
<1>2. ASSUME NEW q \in Players
      PROVE  /\ \A n \in 0 .. m : Inside(q, n)' <=> Inside(q, n)
             /\ \A n \in 1 .. m : ShouldHear(q, n)' <=> ShouldHear(q, n)
             /\ Inside(q, m + 1)' <=> (e = Entered(q) \/ (Inside(q, m) /\ e # Left(q)))
             /\ ShouldHear(q, m + 1)' <=> (Inside(q, m) \/ e = Entered(q) \/ e = Left(q))
  BY <1>0, HistoryGrows DEF IInv
<1>3. ASSUME NEW q \in Players
      PROVE  /\ q \in members <=> Inside(q, m)
             /\ \A n : Heard(q, n)' <=> Heard(q, n)
             /\ \A n : Heard(q, n) => n \in 1 .. m
             /\ live[q] => \A n \in 1 .. m : ShouldHear(q, n) => Heard(q, n)
  BY <1>0, <1>1 DEF IInv, MemberInv, Heard, OrderInv, HeardInv
<1>4. TypeInv'
  <2>1. Len(log') <= MaxMessages
    BY <1>0, <1>1, RoomAssumption
  <2> QED
    BY <1>1, <2>1 DEF IInv, TypeInv
<1>5. MemberInv'
  <2>1. \A q \in Players : q \in members' <=> Inside(q, m + 1)'
    BY <1>2, <1>3
  <2> QED
    BY <1>1, <2>1 DEF MemberInv
<1>6. LockInv'
  BY <1>1 DEF LockInv
<1>7. HeardInv'
  <2>1. ASSUME NEW q \in Players
        PROVE  /\ q \in todo' => ShouldHear(q, m + 1)' /\ ~Heard(q, m + 1)'
               /\ live[q] => \A n \in 1 .. m + 1 :
                      ShouldHear(q, n)' => Heard(q, n)' \/ (q \in todo' /\ n = m + 1)
    <3>1. ShouldHear(q, m + 1)' <=> q \in todo'
      BY <1>2, <1>3, <2>1
    <3>2. ~Heard(q, m + 1)'
      BY <1>1, <1>3
    <3>3. ASSUME NEW n \in 1 .. m + 1, live[q], ShouldHear(q, n)'
          PROVE  Heard(q, n)' \/ (q \in todo' /\ n = m + 1)
      <4>1. CASE n = m + 1
        BY <3>1, <3>3, <4>1
      <4>2. CASE n # m + 1
        <5>1. n \in 1 .. m
          BY <1>1, <4>2
        <5> QED
          BY <1>2, <1>3, <3>3, <5>1
      <4> QED
        BY <4>1, <4>2
    <3> QED
      BY <3>1, <3>2, <3>3
  <2> QED
    BY <1>1, <2>1 DEF HeardInv
<1>8. OrderInv'
  <2>1. ASSUME NEW q \in Players, NEW i \in DOMAIN inbox[q]
        PROVE  /\ inbox[q][i] \in 1 .. m + 1
               /\ \A j \in DOMAIN inbox[q] : i < j => inbox[q][i] < inbox[q][j]
               /\ ShouldHear(q, inbox[q][i])'
               /\ \A n \in 1 .. inbox[q][i] : ShouldHear(q, n)' => Heard(q, n)'
    <3>1. PICK k : k = inbox[q][i]
      OBVIOUS
    <3>2. /\ k \in 1 .. m /\ ShouldHear(q, k)
          /\ \A j \in DOMAIN inbox[q] : i < j => inbox[q][i] < inbox[q][j]
          /\ \A n \in 1 .. k : ShouldHear(q, n) => Heard(q, n)
      BY <1>0, <3>1 DEF IInv, OrderInv
    <3>3. k \in 1 .. m + 1 /\ 1 .. k \subseteq 1 .. m
      BY <1>1, <3>2
    <3>4. ShouldHear(q, k)' /\ \A n \in 1 .. k : ShouldHear(q, n)' => Heard(q, n)'
      BY <1>2, <1>3, <3>2, <3>3
    <3>5. inbox'[q][i] = k
      BY <3>1
    <3> QED
      BY <3>1, <3>2, <3>3, <3>4, <3>5
  <2> QED
    BY <1>1, <2>1 DEF OrderInv
<1>9. CrashNeedsDeadMember'
  BY DEF CrashNeedsDeadMember
<1> QED
  BY <1>4, <1>5, <1>6, <1>7, <1>8, <1>9 DEF IInv

LEMMA EnterStep ==
    ASSUME IInv, NEW p \in Players, Enter(p)
    PROVE  IInv'
<1>1. PICK e : e = [kind |-> "enter", by |-> p]
  OBVIOUS
<1>2. /\ live[p] /\ lockedBy = NoPlayer /\ Len(log) < MaxMessages /\ e \in Messages
      /\ log' = Append(log, e) /\ lockedBy' = p /\ inbox' = inbox /\ live' = live
      /\ crashed' = crashed /\ ~crashed /\ strict' \in BOOLEAN
      /\ members' = members \cup {p} /\ todo' = members \cup {p}
      /\ Cardinality(members) < MaxPlayerCount
  BY <1>1 DEF Enter, Announce, LockFree, Messages
<1>3. members' \subseteq Players /\ todo' \subseteq Players /\ todo' \subseteq members' \cup {p}
  BY <1>2 DEF IInv, TypeInv
<1>4. Cardinality(members') <= MaxPlayerCount
  <2>1. IsFiniteSet(members)
    BY PlayersAssumption, FS_Subset DEF IInv, TypeInv
  <2>2. /\ Cardinality(members) \in Nat
        /\ Cardinality(members \cup {p}) =
             IF p \in members THEN Cardinality(members) ELSE Cardinality(members) + 1
    BY <2>1, FS_CardinalityType, FS_AddElement
  <2> QED
    BY <1>2, <2>2, RoomAssumption
<1>5. \A q \in Players : (e = Entered(q) <=> q = p) /\ e # Left(q)
  BY <1>1 DEF Entered, Left
<1> QED
  BY <1>2, <1>3, <1>4, <1>5, AnnounceStep

LEMMA LeaveStep ==
    ASSUME IInv, NEW p \in Players, Leave(p)
    PROVE  IInv'
<1>1. PICK e : e = [kind |-> "leave", by |-> p]
  OBVIOUS
<1>2. /\ live[p] /\ lockedBy = NoPlayer /\ Len(log) < MaxMessages /\ e \in Messages
      /\ log' = Append(log, e) /\ lockedBy' = p /\ inbox' = inbox /\ live' = live
      /\ crashed' = crashed /\ ~crashed /\ strict' \in BOOLEAN
      /\ members' = members \ {p} /\ todo' = (members \ {p}) \cup {p}
  BY <1>1 DEF Leave, Announce, LockFree, Messages
<1>3. members' \subseteq Players /\ todo' \subseteq Players /\ todo' \subseteq members' \cup {p}
  BY <1>2 DEF IInv, TypeInv
<1>4. Cardinality(members') <= MaxPlayerCount
  <2>1. IsFiniteSet(members)
    BY PlayersAssumption, FS_Subset DEF IInv, TypeInv
  <2>2. /\ Cardinality(members) \in Nat /\ Cardinality(members') \in Nat
        /\ Cardinality(members') <= Cardinality(members)
    BY <1>2, <2>1, FS_CardinalityType, FS_Subset
  <2> QED
    BY <2>2, RoomAssumption DEF IInv, MemberInv
<1>5. \A q \in Players : (e = Left(q) <=> q = p) /\ e # Entered(q)
  BY <1>1 DEF Entered, Left
<1> QED
  BY <1>2, <1>3, <1>4, <1>5, AnnounceStep

LEMMA BroadcastStep ==
    ASSUME IInv, NEW p \in Players, Broadcast(p)
    PROVE  IInv'
<1>1. PICK e : e = [kind |-> "chat", by |-> p]
  OBVIOUS
<1>2. /\ live[p] /\ lockedBy = NoPlayer /\ Len(log) < MaxMessages /\ e \in Messages
      /\ log' = Append(log, e) /\ lockedBy' = p /\ inbox' = inbox /\ live' = live
      /\ crashed' = crashed /\ ~crashed /\ strict' \in BOOLEAN
      /\ members' = members /\ todo' = members
  BY <1>1 DEF Broadcast, Announce, LockFree, Messages
<1>3. members' \subseteq Players /\ todo' \subseteq Players /\ todo' \subseteq members' \cup {p}
  BY <1>2 DEF IInv, TypeInv
<1>4. Cardinality(members') <= MaxPlayerCount
  BY <1>2 DEF IInv, MemberInv
<1>5. \A q \in Players : e # Entered(q) /\ e # Left(q)
  BY <1>1 DEF Entered, Left
<1> QED
  BY <1>2, <1>3, <1>4, <1>5, AnnounceStep

LEMMA SendToStep ==
    ASSUME IInv, NEW p \in Players, NEW q \in Players, SendTo(p, q)
    PROVE  IInv'
<1>0. PICK m : m = Len(log)
  OBVIOUS
<1>1. /\ lockedBy = p /\ p # NoPlayer /\ q \in todo /\ todo' = todo \ {q}
      /\ members' = members /\ lockedBy' = lockedBy /\ strict' = strict /\ live' = live
      /\ log' = log /\ crashed' = (strict /\ ~live[q])
      /\ inbox' = IF live[q] THEN [inbox EXCEPT ![q] = Append(@, m)] ELSE inbox
      /\ m \in Nat \ {0}
  <2>1. lockedBy = p /\ p # NoPlayer
    BY PlayersAssumption DEF SendTo
  <2>2. m \in Nat \ {0}
    BY <1>0, <2>1 DEF IInv, TypeInv, LockInv
  <2> QED
    BY <1>0, <2>1, <2>2 DEF SendTo
<1>2. ASSUME NEW r \in Players, NEW n
      PROVE  (Inside(r, n)' <=> Inside(r, n)) /\ (ShouldHear(r, n)' <=> ShouldHear(r, n))
  BY <1>1 DEF Inside, ShouldHear, Entered, Left
<1>3. \A r \in Players : r # q \/ ~live[q] => inbox'[r] = inbox[r]
  BY <1>1 DEF IInv, TypeInv
<1>4. ASSUME live[q]
      PROVE  /\ inbox'[q] \in Seq(Nat)
             /\ DOMAIN inbox'[q] = DOMAIN inbox[q] \cup {Len(inbox[q]) + 1}
             /\ \A i \in DOMAIN inbox[q] :
                    inbox'[q][i] = inbox[q][i] /\ i < Len(inbox[q]) + 1 /\ inbox[q][i] < m
             /\ inbox'[q][Len(inbox[q]) + 1] = m
  <2>1. inbox'[q] = Append(inbox[q], m) /\ inbox[q] \in Seq(Nat)
    BY <1>1, <1>4 DEF IInv, TypeInv
  <2>2. \A i \in DOMAIN inbox[q] : inbox[q][i] \in 1 .. m /\ inbox[q][i] # m
    BY <1>0, <1>1 DEF IInv, OrderInv, HeardInv, Heard
  <2> QED
    BY <1>1, <2>1, <2>2
<1>5. TypeInv'
  <2>1. inbox' \in [Players -> Seq(Nat)]
    BY <1>1, <1>4 DEF IInv, TypeInv
  <2>2. crashed' \in BOOLEAN
    BY <1>1
  <2> QED
    BY <1>1, <2>1, <2>2 DEF IInv, TypeInv
<1>6. MemberInv' /\ LockInv'
  BY <1>1, <1>2 DEF IInv, MemberInv, LockInv
<1>7. ASSUME NEW r \in Players, NEW n
      PROVE  Heard(r, n)' <=> Heard(r, n) \/ (r = q /\ live[q] /\ n = m)
  BY <1>3, <1>4 DEF Heard
<1>8. HeardInv'
  BY <1>0, <1>1, <1>2, <1>7 DEF IInv, HeardInv
<1>9. OrderInv'
  <2>1. ASSUME NEW r \in Players, NEW i \in DOMAIN inbox'[r]
        PROVE  /\ inbox'[r][i] \in 1 .. m
               /\ \A j \in DOMAIN inbox'[r] : i < j => inbox'[r][i] < inbox'[r][j]
               /\ \A k : k = inbox'[r][i] => ShouldHear(r, k)
               /\ \A n \in 1 .. inbox'[r][i] : ShouldHear(r, n) => Heard(r, n)'
    <3>1. CASE r # q \/ ~live[q]
      <4>1. PICK s, k : s = inbox[r] /\ inbox'[r] = s /\ i \in DOMAIN s /\ k = s[i]
        BY <1>3, <3>1
      <4>2. /\ k \in 1 .. m /\ \A j \in DOMAIN s : i < j => k < s[j]
            /\ ShouldHear(r, k) /\ \A n \in 1 .. k : ShouldHear(r, n) => Heard(r, n)
        BY <1>0, <4>1 DEF IInv, OrderInv
      <4>3. \A n \in 1 .. k : Heard(r, n) => Heard(r, n)'
        BY <1>7
      <4> QED  BY <4>1, <4>2, <4>3
    <3>2. CASE r = q /\ live[q] /\ i \in DOMAIN inbox[q]
      <4>1. PICK k, l : k = inbox[q][i] /\ l = Len(inbox[q]) + 1
        OBVIOUS
      <4>2. inbox'[q][i] = k /\ k < m /\ inbox'[q][l] = m /\ DOMAIN inbox'[q] = DOMAIN inbox[q] \cup {l}
        BY <1>4, <3>2, <4>1
      <4>3. /\ k \in 1 .. m /\ \A j \in DOMAIN inbox[q] : i < j => k < inbox[q][j]
            /\ ShouldHear(q, k) /\ \A n \in 1 .. k : ShouldHear(q, n) => Heard(q, n)
        BY <1>0, <3>2, <4>1 DEF IInv, OrderInv
      <4>4. \A j \in DOMAIN inbox'[q] : i < j => k < inbox'[q][j]
        BY <1>4, <3>2, <4>2, <4>3
      <4>5. \A n \in 1 .. k : Heard(q, n) => Heard(q, n)'
        BY <1>7
      <4> QED  BY <3>2, <4>2, <4>3, <4>4, <4>5
    <3>3. CASE r = q /\ live[q] /\ i \notin DOMAIN inbox[q]
      <4>1. inbox'[r][i] = m /\ i = Len(inbox[q]) + 1
        BY <1>4, <2>1, <3>3
      <4>2. \A j \in DOMAIN inbox'[q] : ~(i < j)
        <5>1. PICK k \in Nat : k = Len(inbox[q]) /\ DOMAIN inbox[q] = 1 .. k
          BY DEF IInv, TypeInv
        <5>2. \A j \in 1 .. k \cup {k + 1} : ~(k + 1 < j)
          BY <5>1
        <5> QED
          BY <1>4, <3>3, <4>1, <5>1, <5>2
      <4>3. ShouldHear(q, m)
        BY <1>0, <1>1 DEF IInv, HeardInv
      <4>4. \A n \in 1 .. m : ShouldHear(q, n) => Heard(q, n) \/ n = m
        BY <1>0, <3>3 DEF IInv, HeardInv
      <4> QED
        BY <1>1, <1>7, <3>3, <4>1, <4>2, <4>3, <4>4
    <3> QED
      BY <3>1, <3>2, <3>3
  <2> QED
    BY <1>0, <1>1, <1>2, <2>1 DEF OrderInv
<1>10. CrashNeedsDeadMember'
  <2>1. ASSUME crashed'
        PROVE  q \in members' /\ ~live'[q]
    <3>1. ~live[q]
      BY <1>1, <2>1, Zenon
    <3>2. q \in members \cup {p} /\ live[p]
      BY <1>1 DEF IInv, LockInv
    <3> QED
      BY <1>1, <3>1, <3>2
  <2> QED
    BY <2>1 DEF CrashNeedsDeadMember
<1> QED
  BY <1>5, <1>6, <1>8, <1>9, <1>10 DEF IInv

\* Steps that send nothing.
LEMMA QuietStep ==
    ASSUME IInv, members' = members, todo' = todo, inbox' = inbox, log' = log,
           strict' = strict, crashed' = crashed, live' \in [Players -> BOOLEAN],
           \A p \in Players : live'[p] => live[p],
           \/ lockedBy' = NoPlayer /\ todo = {}
           \/ lockedBy' = lockedBy /\ (lockedBy # NoPlayer => live'[lockedBy])
    PROVE  IInv'
<1>1. ASSUME NEW p, NEW n
      PROVE  /\ Inside(p, n)' <=> Inside(p, n)
             /\ ShouldHear(p, n)' <=> ShouldHear(p, n)
             /\ Heard(p, n)' <=> Heard(p, n)
  BY DEF Inside, ShouldHear, Heard, Entered, Left
<1>2. TypeInv'
  BY DEF IInv, TypeInv
<1>3. MemberInv' /\ LockInv'
  BY <1>1 DEF IInv, MemberInv, LockInv
<1>4. HeardInv'
  BY <1>1 DEF IInv, HeardInv
<1>5. OrderInv'
  BY <1>1 DEF IInv, OrderInv
<1>6. CrashNeedsDeadMember'
  BY DEF IInv, TypeInv, CrashNeedsDeadMember
<1> QED
  BY <1>2, <1>3, <1>4, <1>5, <1>6 DEF IInv

-----------------------------------------------------------------------------
(* Theorems *)

LEMMA InitIInv ==
    ASSUME Init
    PROVE  IInv
<1>1. TypeInv
  <2>1. live \in [Players -> BOOLEAN]
    BY DEF Init
  <2>2. inbox \in [Players -> Seq(Nat)]
    BY DEF Init
  <2>3. log \in Seq(Messages) /\ Len(log) = 0
    BY DEF Init
  <2>4. members \subseteq Players /\ todo \subseteq Players /\ lockedBy \in Players \cup {NoPlayer}
    BY DEF Init
  <2>5. strict \in BOOLEAN /\ crashed \in BOOLEAN
    BY DEF Init
  <2>6. Len(log) <= MaxMessages
    BY <2>3, RoomAssumption
  <2> QED
    BY <2>1, <2>2, <2>3, <2>4, <2>5, <2>6 DEF TypeInv
<1>2. MemberInv
  <2>1. Cardinality(members) <= MaxPlayerCount
    BY FS_EmptySet, RoomAssumption DEF Init
  <2>2. \A p \in Players : ~Inside(p, Len(log))
    BY DEF Init, Inside
  <2> QED
    BY <2>1, <2>2 DEF Init, MemberInv
<1>3. LockInv /\ CrashNeedsDeadMember
  BY DEF Init, LockInv, CrashNeedsDeadMember
<1>4. HeardInv /\ OrderInv
  BY DEF Init, HeardInv, OrderInv
<1> QED
  BY <1>1, <1>2, <1>3, <1>4 DEF IInv

LEMMA NextIInv ==
    ASSUME IInv, [Next]_vars
    PROVE  IInv'
<1>1. ASSUME NEW p \in Players, Unlock(p)
      PROVE  IInv'
  BY <1>1, QuietStep DEF Unlock, IInv, TypeInv
<1>2. ASSUME NEW p \in Players, Expire(p)
      PROVE  IInv'
  <2>1. /\ live' \in [Players -> BOOLEAN] /\ \A q \in Players : live'[q] => live[q]
        /\ \A q \in Players : q # p => live'[q] = live[q]
    BY <1>2 DEF Expire, IInv, TypeInv
  <2>2. lockedBy' = lockedBy /\ (lockedBy # NoPlayer => live'[lockedBy])
    BY <1>2, <2>1 DEF Expire, IInv, TypeInv, LockInv
  <2> QED
    BY <1>2, <2>1, <2>2, QuietStep DEF Expire
<1>3. CASE UNCHANGED vars
  BY <1>3, QuietStep DEF vars, IInv, TypeInv, LockInv
<1>4. CASE Next
  <2>1. PICK p \in Players : Enter(p) \/ Leave(p) \/ Broadcast(p) \/ Loop(p) \/ Expire(p)
    BY <1>4 DEF Next
  <2> QED
    BY <1>1, <1>2, <2>1, EnterStep, LeaveStep, BroadcastStep, SendToStep DEF Loop
<1> QED
  BY <1>3, <1>4

\* The inductive invariant: the room's map agrees with its history, and whoever has
\* not heard the last message is still to be reached by the thread with the lock.
THEOREM Invariance == Spec => []IInv
  BY InitIInv, NextIInv, PTL DEF Spec

\* For every set of players the fields keep their types, the room is never over its
\* limit (Room.cpp:11) and no loop is left unfinished when the lock is given back.
THEOREM TypeCorrect == Spec => []TypeOK
<1>1. IInv => TypeOK
  <2> SUFFICES ASSUME IInv
               PROVE  TypeOK
    OBVIOUS
  <2>1. \A p \in Players : inbox[p] \in Seq(1 .. MaxMessages)
    <3> SUFFICES ASSUME NEW p \in Players
                 PROVE  inbox[p] \in Seq(1 .. MaxMessages)
      OBVIOUS
    <3>1. inbox[p] \in Seq(Nat) /\ Len(log) \in Nat /\ Len(log) <= MaxMessages
      BY DEF IInv, TypeInv
    <3>2. \A i \in DOMAIN inbox[p] : inbox[p][i] \in 1 .. Len(log)
      BY DEF IInv, OrderInv
    <3>3. \A i \in 1 .. Len(inbox[p]) : inbox[p][i] \in 1 .. MaxMessages
      BY <3>1, <3>2, RoomAssumption
    <3> QED
      <4>1. PICK k \in Nat : k = Len(inbox[p]) /\ inbox[p] \in [1 .. k -> Nat]
        BY <3>1
      <4>2. inbox[p] \in [1 .. k -> 1 .. MaxMessages]
        BY <3>3, <4>1
      <4> QED
        <5> DEFINE S == 1 .. MaxMessages
        <5>1. inbox[p] \in [1 .. k -> S] /\ k \in Nat
          BY <4>2
        <5> HIDE DEF S
        <5>2. inbox[p] \in Seq(S)
          BY <5>1, SeqDef
        <5> QED
          BY <5>2 DEF S
  <2>2. inbox \in [Players -> Seq(1 .. MaxMessages)]
    BY <2>1 DEF IInv, TypeInv
  <2> QED
    BY <2>2 DEF IInv, TypeInv, MemberInv, LockInv, TypeOK, Messages
<1> QED
  BY <1>1, Invariance, PTL

\* Under any interleaving of players that enter, leave and chat, and of sessions
\* that are destroyed, members hear exactly the messages of their stay, in order.
THEOREM ExactlyHeard == Spec => []HeardExactly
<1>1. IInv => HeardExactly
  <2> SUFFICES ASSUME IInv
               PROVE  HeardExactly
    OBVIOUS
  <2>1. \A p \in Players : \A n : Heard(p, n) => n \in Range(inbox[p])
    BY DEF Heard, Range
  <2>2. HeardInOrder
    BY <2>1 DEF IInv, OrderInv, HeardInOrder
  <2>3. HeardCompletely
    BY <2>1 DEF IInv, LockInv, HeardInv, HeardCompletely
  <2> QED
    BY <2>2, <2>3 DEF HeardExactly
<1> QED
  BY <1>1, Invariance, PTL

\* Room::Enter and Room::Leave dereference a null session only when a member's
\* session was destroyed without a Leave.
THEOREM CrashHasDeadMember == Spec => []CrashNeedsDeadMember
<1>1. IInv => CrashNeedsDeadMember
  BY DEF IInv
<1> QED
  BY <1>1, Invariance, PTL

-----------------------------------------------------------------------------
(***************************************************************************)
(* The board.  Under the lock, the loop of one announcement is over before *)
(* the next begins, so that everybody may be taken to be told at once.     *)
(***************************************************************************)
Told == [p \in Players |-> Reached(p)]
Gone == {p \in Players : ~live[p]}

\* With the lock free nobody is still to be reached; Announce reaches the audience.
LEMMA AnnouncePosts ==
    ASSUME IInv, ~crashed, lockedBy = NoPlayer, NEW p \in Players, NEW audience \in SUBSET Players,
           NEW kind, Announce(kind, p, audience)
    PROVE  Board!Post(audience)
<1>1. /\ todo = {} /\ todo' = audience /\ Len(log) \in Nat /\ Len(log') = Len(log) + 1
      /\ live' = live /\ inbox' = inbox /\ crashed' = FALSE /\ crashed = FALSE
  BY DEF Announce, IInv, TypeInv, LockInv
<1>2. \A q \in Players : Reached(q) = inbox[q]
  BY <1>1 DEF Reached
<1>3. \A q \in Players : Reached(q)' = IF q \in audience \ Gone THEN Append(Reached(q), Len(log')) ELSE Reached(q)
  BY <1>1, <1>2 DEF Reached, Gone
<1>4. Told' = [q \in Players |-> IF q \in audience \ Gone THEN Append(Told[q], Len(log')) ELSE Told[q]]
  BY <1>3 DEF Told
<1>5. Gone' = Gone
  BY <1>1 DEF Gone
<1> QED  BY <1>1, <1>4, <1>5 DEF Board!Post, Told, Gone

\* What is late for someone still to be reached is the message of the loop.
LEMMA LateReached ==
    ASSUME IInv, ~crashed, NEW p \in Players, p \in todo, live[p]
    PROVE  Board!Late(p) = inbox[p]
<1>1. PICK s \in Seq(Nat), m \in Nat : s = inbox[p] /\ m = Len(log)
  BY DEF IInv, TypeInv
<1>2. Reached(p) = Append(s, m)
  BY <1>1 DEF Reached
<1>3. /\ Append(s, m) # <<>> /\ Len(Append(s, m)) = Len(s) + 1 /\ Append(s, m)[Len(s) + 1] = m
      /\ SubSeq(Append(s, m), 1, Len(s)) = s /\ Len(s) \in Nat
  OBVIOUS
<1>4. Last(Append(s, m)) = m /\ Front(Append(s, m)) = s
  BY <1>3 DEF Last, Front
<1>5. [r \in Players |-> Reached(r)][p] = Append(s, m)
  BY <1>2, Zenon
<1>6. Board!Late(p) = IF Append(s, m) # <<>> /\ Last(Append(s, m)) = Len(log) THEN Front(Append(s, m))
                      ELSE Append(s, m)
  BY <1>5 DEF Board!Late, Last, Board!Last, Front, Board!Front
<1> QED  BY <1>1, <1>3, <1>4, <1>6, Zenon

\* The loop goes on: nobody sees it, but where it stops the server.
LEMMA SendToImplements ==
    ASSUME IInv, NEW p \in Players, NEW q \in Players, SendTo(p, q)
    PROVE  Board!Close \/ UNCHANGED Board!board
<1>1. /\ ~crashed /\ crashed \in BOOLEAN /\ lockedBy = p /\ q \in todo /\ todo' = todo \ {q}
      /\ members' = members /\ log' = log /\ live' = live
      /\ inbox' = IF live[q] THEN [inbox EXCEPT ![q] = Append(@, Len(log))] ELSE inbox
      /\ crashed' = (strict /\ ~live[q])
  BY DEF SendTo, IInv, TypeInv
<1>2. inbox \in [Players -> Seq(Nat)] /\ live \in [Players -> BOOLEAN] /\ Gone' = Gone
  BY <1>1 DEF IInv, TypeInv, Gone
<1>3. CASE ~crashed'
  <2>1. ASSUME NEW r \in Players PROVE Reached(r)' = Reached(r)
    <3>1. CASE r = q /\ live[q]
      BY <1>1, <1>2, <1>3, <3>1 DEF Reached
    <3>2. CASE r # q
      <4>1. inbox'[r] = inbox[r] /\ (r \in todo' <=> r \in todo)
        BY <1>1, <1>2, <3>2
      <4>2. crashed' = crashed /\ live' = live /\ log' = log
        BY <1>1, <1>3, Zenon
      <4> QED  BY <4>1, <4>2, Zenon DEF Reached
    <3>3. CASE r = q /\ ~live[q]
      BY <1>1, <3>3 DEF Reached
    <3> QED  BY <3>1, <3>2, <3>3
  <2>2. Told' = Told
    BY <2>1 DEF Told
  <2> QED  BY <1>1, <1>2, <1>3, <2>2 DEF Board!board, Told, Gone
<1>4. CASE crashed'
  <2>1. crashed' = TRUE /\ ~live[q] /\ inbox' = inbox
    BY <1>1, <1>4, Zenon
  <2>2. q \in members \cap Gone
    BY <1>1, <2>1 DEF IInv, LockInv, Gone
  <2>3. PICK missed : missed = {r \in todo : live[r]} /\ missed \in SUBSET Players
    BY DEF IInv, TypeInv
  <2>4. ASSUME NEW r \in Players
        PROVE  Reached(r)' = IF r \in missed THEN Board!Late(r) ELSE Told[r]
    <3>1. Reached(r)' = inbox[r]
      BY <2>1, Zenon DEF Reached
    <3>2. CASE r \in missed
      BY <1>1, <2>3, <3>1, <3>2, LateReached
    <3>3. CASE r \notin missed
      BY <2>3, <3>1, <3>3 DEF Reached, Told
    <3> QED  BY <3>2, <3>3
  <2>5. Told' = [r \in Players |-> IF r \in missed THEN Board!Late(r) ELSE Told[r]]
    BY <2>4 DEF Told
  <2>6. Board!MissLast(missed)
    BY <2>5 DEF Board!MissLast, Told
  <2> QED  BY <1>1, <1>2, <2>1, <2>2, <2>3, <2>6 DEF Board!Close, Gone
<1> QED  BY <1>3, <1>4

\* A session that goes misses the message that the loop has for it.
LEMMA ExpireImplements ==
    ASSUME IInv, NEW p \in Players, Expire(p)
    PROVE  Board!Vanish(p)
<1>1. /\ ~crashed /\ live[p] /\ live' = [live EXCEPT ![p] = FALSE]
      /\ members' = members /\ todo' = todo /\ inbox' = inbox /\ log' = log /\ crashed' = crashed
  BY DEF Expire
<1>2. Gone' = Gone \cup {p} /\ p \notin Gone
  BY <1>1 DEF Gone, IInv, TypeInv
<1>3. PICK missed : missed = IF p \in todo THEN {p} ELSE {}
  OBVIOUS
<1>4. ASSUME NEW r \in Players
      PROVE  Reached(r)' = IF r \in missed THEN Board!Late(r) ELSE Told[r]
  <2>1. CASE r # p
    <3>1. live'[r] = live[r] /\ r \notin missed
      BY <1>1, <1>3, <2>1 DEF IInv, TypeInv
    <3> QED  BY <1>1, <3>1, Zenon DEF Reached, Told
  <2>2. CASE r = p
    <3>1. ~live'[p]
      BY <1>1 DEF IInv, TypeInv
    <3>2. Reached(p)' = inbox[p]
      BY <1>1, <3>1, Zenon DEF Reached
    <3>3. CASE p \in todo
      BY <1>1, <1>3, <2>2, <3>2, <3>3, LateReached
    <3>4. CASE p \notin todo
      BY <1>3, <2>2, <3>2, <3>4 DEF Reached, Told
    <3> QED  BY <3>3, <3>4
  <2> QED  BY <2>1, <2>2
<1>5. Told' = [r \in Players |-> IF r \in missed THEN Board!Late(r) ELSE Told[r]]
  BY <1>4 DEF Told
<1>6. Board!MissLast(missed) /\ missed \in {{}, {p}}
  BY <1>3, <1>5 DEF Board!MissLast, Told
<1> QED  BY <1>1, <1>2, <1>6 DEF Board!Vanish, Gone

LEMMA NextImplements ==
    ASSUME IInv, [Next]_vars
    PROVE  [Board!BoardNext]_(Board!board)
<1>1. ASSUME NEW p \in Players, Enter(p) PROVE Board!Come(p)
  <2>1. /\ ~crashed /\ lockedBy = NoPlayer /\ live[p] /\ Cardinality(members) < MaxPlayerCount
        /\ members' = members \cup {p} /\ Announce("enter", p, members')
    BY <1>1 DEF Enter, LockFree
  <2>2. members' \in SUBSET Players
    BY <1>1, <2>1 DEF IInv, TypeInv
  <2>3. PICK audience : audience = members'
    OBVIOUS
  <2>4. Board!Post(audience)
    BY <2>1, <2>2, <2>3, AnnouncePosts
  <2>5. p \notin {r \in Players : ~live[r]}
    BY <2>1
  <2>6. Board!Post(members')
    BY <2>3, <2>4
  <2>7. Board!Cardinality(members) < MaxPlayerCount
    BY <2>1 DEF Cardinality, Board!Cardinality
  <2> QED  BY <2>1, <2>5, <2>6, <2>7 DEF Board!Come
<1>2. ASSUME NEW p \in Players, Leave(p) PROVE Board!Go(p)
  <2>1. /\ ~crashed /\ lockedBy = NoPlayer /\ live[p]
        /\ members' = members \ {p} /\ Announce("leave", p, members' \cup {p})
    BY <1>2 DEF Leave, LockFree
  <2>2. PICK audience : audience = members' \cup {p}
    OBVIOUS
  <2>3. audience \in SUBSET Players
    BY <2>1, <2>2 DEF IInv, TypeInv
  <2>4. Board!Post(audience)
    BY <2>1, <2>2, <2>3, AnnouncePosts
  <2> QED  BY <2>1, <2>2, <2>4 DEF Board!Go
<1>3. ASSUME NEW p \in Players, Broadcast(p) PROVE Board!Say(p)
  <2>1. /\ ~crashed /\ lockedBy = NoPlayer /\ live[p]
        /\ members' = members /\ Announce("chat", p, members)
    BY <1>3 DEF Broadcast, LockFree
  <2>2. members \in SUBSET Players
    BY DEF IInv, TypeInv
  <2>3. Board!Post(members)
    BY <2>1, <2>2, AnnouncePosts
  <2> QED  BY <2>1, <2>3 DEF Board!Say
<1>4. ASSUME UNCHANGED <<members, todo, live, inbox, log, crashed>> PROVE UNCHANGED Board!board
  <2>1. \A r \in Players : Reached(r)' = Reached(r)
    BY <1>4, Zenon DEF Reached
  <2> QED  BY <1>4, <2>1 DEF Board!board
<1>5. CASE UNCHANGED vars
  BY <1>4, <1>5 DEF vars
<1>6. CASE Next
  <2>1. PICK p \in Players : Enter(p) \/ Leave(p) \/ Broadcast(p) \/ Loop(p) \/ Expire(p)
    BY <1>6 DEF Next
  <2>2. CASE Loop(p)
    <3>1. CASE Unlock(p)
      BY <1>4, <3>1 DEF Unlock
    <3>2. CASE \E q \in Players : SendTo(p, q)
      BY <3>2, SendToImplements DEF Board!BoardNext
    <3> QED  BY <2>2, <3>1, <3>2 DEF Loop
  <2> QED  BY <1>1, <1>2, <1>3, <2>1, <2>2, ExpireImplements DEF Board!BoardNext
<1> QED  BY <1>5, <1>6

\* Entering, leaving and chatting are as good as single steps, for every set of
\* players and every limit, sessions that are destroyed in between included.
THEOREM Refinement == Spec => ImplementsBoard
<1>1. Init => Board!BoardInit
  <2> SUFFICES ASSUME Init PROVE Board!BoardInit
    OBVIOUS
  <2>1. \A p \in Players : Reached(p) = <<>>
    BY DEF Init, Reached
  <2>2. {p \in Players : ~live[p]} = {} /\ Len(log) = 0
    BY DEF Init
  <2> QED  BY <2>1, <2>2 DEF Board!BoardInit, Init
<1>2. IInv /\ [Next]_vars => [Board!BoardNext]_(Board!board)
  BY NextImplements
<1> QED
  BY <1>1, <1>2, Invariance, PTL DEF Spec, ImplementsBoard, Board!BoardSpec
=============================================================================
