-------------------------- MODULE DeadLockProfiler --------------------------
(***************************************************************************)
(* The lock order profiler of debug builds (ServerCore/                    *)
(* DeadLockProfiler.cpp) and the threads whose guards call it.             *)
(*                                                                         *)
(* PushLock is called before a lock is waited for, PopLock before it is    *)
(* given back.  The profiler knows a lock by its name, the type of the     *)
(* object that has it: all sessions share one.  Names get ids in the order *)
(* in which they are first seen; here the ids are 1, 2, ...                *)
(*                                                                         *)
(* Only guards that exclude each other are modelled (the profiler does not *)
(* tell readers from writers), and threads nest them as C++ scopes do.     *)
(*                                                                         *)
(* Definitions named after another one and a fault are plausible bugs that *)
(* no action uses.                                                         *)
(***************************************************************************)
EXTENDS Naturals, Sequences, FiniteSets, SequencesExt

CONSTANTS
    Threads,
    Locks,
    None,      \* no lock
    NameOf(_), \* the name with which a lock's guards call the profiler
    MaxDepth   \* bound: guards a thread nests

ASSUME NoneAssumption == None \notin Locks

VARIABLES
    names,    \* names[i]: the name with id i (_nameToid, _idToname)
    history,  \* <<i, j>>: j was pushed right above i (_lockHistory)
    stack,    \* LLockStack of each thread
    held,     \* held[t]: the locks of t's guards, innermost last
    waiting,  \* waiting[t]: the lock t has pushed and does not have yet
    crashed   \* "no", or the CRASH that stopped the process

vars == <<names, history, stack, held, waiting, crashed>>

Init ==
    /\ names = <<>> /\ history = {}
    /\ stack = [t \in Threads |-> <<>>] /\ held = [t \in Threads |-> <<>>]
    /\ waiting = [t \in Threads |-> None]
    /\ crashed = "no"

-----------------------------------------------------------------------------
(* The search for a cycle.  A call of Dfs has nothing to do after the last *)
(* edge it looks at, so the recursion is told by the calls that still have *)
(* edges ahead: the innermost is the one that was made last.               *)

\* The ids Dfs was called for, in that order, the edges its calls have looked
\* at, the ids marked as finished, and whether the cycle was to be reported
\* (DeadLockProfiler.cpp:102-113).  The loop that prints it follows parents from
\* here back to there; where the report is wrong it may run past the root to
\* the place of id -1, and stops the process one way or another.
Fresh == [order |-> <<>>, seen |-> {}, finished |-> {}, alarm |-> FALSE]

Least(S) == CHOOSE x \in S : \A y \in S : x <= y
Greatest(S) == CHOOSE x \in S : \A y \in S : y <= x

NextSet(edges, here) == {e[2] : e \in {d \in edges : d[1] = here}}
Ahead(edges, search, here) == NextSet(edges \ search.seen, here)
Undiscovered(count, search) == (1..count) \ Range(search.order)
UndiscoveredFromFirst(count, search) == {1} \ Range(search.order)

LeafUnfinished(search, here) == search
Leaf(search, here) == [search EXCEPT !.finished = @ \union {here}]

\* Dfs(here) starts.  Only leaves are ever marked as finished.
Discover(edges, search, here) ==
    LET started == [search EXCEPT !.order = Append(@, here)]
    IN  IF NextSet(edges, here) = {} THEN Leaf(started, here) ELSE started

DiscoveredBefore(search, a, b) ==
    \E i, j \in DOMAIN search.order : i < j /\ search.order[i] = a /\ search.order[j] = b

\* Whether the edge from here to there is taken for one back to an ancestor.
LooksBackward(search, here, there) ==
    ~DiscoveredBefore(search, here, there) /\ there \notin search.finished

\* The calls that have edges ahead, by the places of their ids in order.
Calls(edges, search) ==
    {k \in DOMAIN search.order : Ahead(edges, search, search.order[k]) # {}}

\* The innermost call looks at its next edge.
Dfs(edges, search) ==
    LET here == search.order[Greatest(Calls(edges, search))]
        there == Least(Ahead(edges, search, here))
        looked == [search EXCEPT !.seen = @ \union {<<here, there>>}]
    IN  IF there \notin Range(search.order) THEN Discover(edges, looked, there)
        ELSE [looked EXCEPT !.alarm = @ \/ LooksBackward(search, here, there)]

SearchStep(edges, count, search) ==
    IF Calls(edges, search) # {} THEN Dfs(edges, search)
    ELSE IF Undiscovered(count, search) # {}
         THEN Discover(edges, search, Least(Undiscovered(count, search)))
         ELSE search

\* The search after n steps.
SearchOf(edges, count) ==
    LET after[n \in Nat] ==
            IF n = 0 THEN Fresh ELSE SearchStep(edges, count, after[n - 1])
    IN  after

\* Whether CheckCycle stops the process.  A step looks at an edge or starts a
\* call, so there is none left after as many steps as there are edges and ids.
CheckCycle(edges, count) == SearchOf(edges, count)[count + Cardinality(edges)].alarm

-----------------------------------------------------------------------------
(* Guards *)

IdIn(known, name) == CHOOSE i \in DOMAIN known : known[i] = name

PrevIdFirst(t) == stack[t][1]
PrevId(t) == Last(stack[t])

PushedUnlessTop(t, id) ==
    IF stack[t] # <<>> /\ PrevId(t) = id THEN stack[t] ELSE Append(stack[t], id)
Pushed(t, id) == Append(stack[t], id)

PushLock(t, lock) ==
    LET name == NameOf(lock)
        known == IF name \in Range(names) THEN names ELSE Append(names, name)
        id == IdIn(known, name)
        new == IF stack[t] # <<>> /\ PrevId(t) # id THEN {<<PrevId(t), id>>} ELSE {}
    IN  /\ crashed = "no" /\ waiting[t] = None /\ Len(held[t]) < MaxDepth
        /\ names' = known
        /\ history' = history \union new
        /\ crashed' = IF ~(new \subseteq history) /\ CheckCycle(history', Len(known))
                      THEN "cycle" ELSE "no"
        /\ stack' = [stack EXCEPT ![t] = Pushed(t, id)]
        /\ waiting' = [waiting EXCEPT ![t] = lock]
        /\ UNCHANGED held

\* The lock itself: a thread may have one more than once.
Acquire(t) ==
    /\ crashed = "no" /\ waiting[t] # None
    /\ \A u \in Threads \ {t} : waiting[t] \notin Range(held[u])
    /\ held' = [held EXCEPT ![t] = Append(@, waiting[t])]
    /\ waiting' = [waiting EXCEPT ![t] = None]
    /\ UNCHANGED <<names, history, stack, crashed>>

\* The innermost guard goes.  Only t reads what PopLock changes, so the lock is
\* given back in the same step.
PopLock(t) ==
    /\ crashed = "no" /\ waiting[t] = None /\ held[t] # <<>>
    /\ IF stack[t] = <<>> \/ Last(stack[t]) # IdIn(names, NameOf(Last(held[t])))
       THEN crashed' = "unlock" /\ UNCHANGED <<stack, held>>
       ELSE /\ stack' = [stack EXCEPT ![t] = Front(@)]
            /\ held' = [held EXCEPT ![t] = Front(@)]
            /\ UNCHANGED crashed
    /\ UNCHANGED <<names, history, waiting>>

Next ==
    \E t \in Threads :
        Acquire(t) \/ PopLock(t) \/ \E lock \in Locks : PushLock(t, lock)

Spec == Init /\ [][Next]_vars

-----------------------------------------------------------------------------
(* Properties *)

NamesWanted(t) ==
    LET locks == held[t] \o (IF waiting[t] = None THEN <<>> ELSE <<waiting[t]>>)
    IN  [i \in DOMAIN locks |-> NameOf(locks[i])]

\* Types; a thread's stack names, in order, the locks of its guards and the one
\* it waits for, so that PopLock never meets an unlock it does not expect.
TypeOK ==
    /\ history \subseteq (DOMAIN names) \X (DOMAIN names)
    /\ \A i, j \in DOMAIN names : i # j => names[i] # names[j]
    /\ waiting \in [Threads -> Locks \union {None}]
    /\ \A t \in Threads : NamesWanted(t) = [i \in DOMAIN stack[t] |-> names[stack[t][i]]]
    /\ crashed \in {"no", "cycle"}

\* Names above each of which another one of them was pushed.
Cyclic ==
    \E C \in SUBSET (DOMAIN names) :
        C # {} /\ \A i \in C : \E j \in C : <<i, j>> \in history

\* A process that goes on has a lock order without a cycle: the search, made
\* only when an edge is new and although it marks hardly anything as finished,
\* misses none.
CyclesReported == crashed = "no" => ~Cyclic

Owns(t, lock) == lock \in Range(held[t])

\* Threads of D wait for each other.
Deadlocked(D) ==
    \A t \in D : waiting[t] # None /\ \E u \in D \ {t} : Owns(u, waiting[t])

\* Of threads that stop for ever without a report, one waits for a lock while it
\* has another one of the same name, such as those of two sessions or two rooms:
\* the profiler cannot tell them apart.
SilentDeadlockSharesName ==
    \A D \in SUBSET Threads : crashed = "no" /\ D # {} /\ Deadlocked(D) =>
        \E t \in D : \E lock \in Range(held[t]) :
            lock # waiting[t] /\ NameOf(lock) = NameOf(waiting[t])

\* Both: a deadlock that is possible is reported before or when it happens, unless
\* names hide it.
DeadlocksReported == CyclesReported /\ SilentDeadlockSharesName

\* A report, right or not, needs some lock that was taken under one lock and held
\* for another: without failures the server, whose deepest order is a room and
\* then a session, is never stopped by mistake.
ReportNeedsChain ==
    crashed = "cycle" => \E d, e \in history : d[2] = e[1]
=============================================================================
