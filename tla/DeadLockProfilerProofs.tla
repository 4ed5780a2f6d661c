----------------------- MODULE DeadLockProfilerProofs -----------------------
(***************************************************************************)
(* Proofs about DeadLockProfiler, for every number of threads, locks and   *)
(* names and every depth: its search misses no cycle, stops the process    *)
(* only when some lock was taken under one and held for another, and a     *)
(* deadlock that it does not report needs two locks of one name.           *)
(*                                                                         *)
(* What the search computes is proved by induction on its steps.  The      *)
(* library's induction theorems have an operator for a parameter; here a   *)
(* set of numbers takes its place.                                         *)
(***************************************************************************)
EXTENDS DeadLockProfiler, FiniteSetTheorems, SequenceTheorems, TLAPS

-----------------------------------------------------------------------------
(* Numbers *)

\* A non-empty set of numbers has a least one.
LEMMA LeastNumber ==
    ASSUME NEW S, S \subseteq Nat, S # {}
    PROVE  \E n \in S : \A m \in S : n <= m
<1> DEFINE Smaller == OpToRel(<, Nat)
<1>1. PICK n \in S : \A m \in S : ~(<<m, n>> \in Smaller)
  BY NatLessThanWellFounded, WFMin
<1>2. \A m \in S : <<m, n>> \notin Smaller => n <= m
  BY DEF OpToRel
<1> QED
  BY <1>1, <1>2

LEMMA LeastType ==
    ASSUME NEW S, S \subseteq Nat, S # {}
    PROVE  Least(S) \in S
  BY LeastNumber DEF Least

\* A non-empty set of numbers that are not too large has a greatest one.
LEMMA GreatestType ==
    ASSUME NEW bound \in Nat, NEW S, S \subseteq 0..bound, S # {}
    PROVE  Greatest(S) \in S /\ \A n \in S : n <= Greatest(S)
<1> DEFINE Below == {bound - n : n \in S}
<1>1. Below \subseteq Nat /\ Below # {}
  <2>1. \A n \in S : bound - n \in Nat
    OBVIOUS
  <2>2. PICK n \in S : TRUE
    OBVIOUS
  <2>3. bound - n \in Below
    BY <2>2
  <2> QED
    BY <2>1, <2>3
<1>2. PICK m \in Below : \A n \in Below : m <= n
  BY <1>1, LeastNumber, Zenon
<1>3. PICK g \in S : m = bound - g
  OBVIOUS
<1>4. \A n \in S : n <= g
  <2> TAKE n \in S
  <2>1. bound - g <= bound - n
    BY <1>2, <1>3
  <2> QED
    BY <1>3, <2>1
<1> QED
  BY <1>4 DEF Greatest

\* Induction: a set with 0 and, with each number, the next one has all of them.
LEMMA Counting ==
    ASSUME NEW S, 0 \in S, \A n \in Nat : n \in S => n + 1 \in S
    PROVE  \A n \in Nat : n \in S
<1> SUFFICES ASSUME Nat \ S # {} PROVE FALSE
  OBVIOUS
<1>1. PICK n \in Nat \ S : \A m \in Nat \ S : n <= m
  BY LeastNumber
<1>2. n # 0 /\ n - 1 \in Nat /\ n = (n - 1) + 1 /\ ~(n <= n - 1)
  BY <1>1
<1>3. n - 1 \in S
  BY <1>1, <1>2
<1> QED
  BY <1>1, <1>2, <1>3

\* h is what the first n steps of g make of x.
Steps(n, x, g, h) == h[0] = x /\ \A k \in 1..n : h[k] = g[h[k - 1]]

\* Steps can be repeated for ever: the recursive function that does so exists.
LEMMA Iterate ==
    ASSUME NEW X, NEW x \in X, NEW g \in [X -> X]
    PROVE  \E f \in [Nat -> X] : f = [n \in Nat |-> IF n = 0 THEN x ELSE g[f[n - 1]]]
<1> DEFINE H(n) == {h \in [0..n -> X] : Steps(n, x, g, h)}
<1>1. \A n \in Nat : H(n) # {}
  <2> DEFINE S == {n \in Nat : H(n) # {}}
  <2>1. [k \in 0..0 |-> x] \in H(0)
    BY DEF Steps
  <2>2. ASSUME NEW n \in Nat, H(n) # {}
        PROVE  H(n + 1) # {}
    <3>1. PICK h \in [0..n -> X] : Steps(n, x, g, h)
      BY <2>2
    <3> DEFINE e == [k \in 0..n + 1 |-> IF k = n + 1 THEN g[h[n]] ELSE h[k]]
    <3>2. e \in [0..n + 1 -> X]
      OBVIOUS
    <3>3. e[0] = x
      BY <3>1 DEF Steps
    <3>4. ASSUME NEW k \in 1..n + 1 PROVE e[k] = g[e[k - 1]]
      <4>1. CASE k = n + 1
        BY <4>1
      <4>2. CASE k \in 1..n
        BY <3>1, <4>2 DEF Steps
      <4> QED
        BY <4>1, <4>2
    <3> HIDE DEF e
    <3> QED
      BY <3>2, <3>3, <3>4 DEF Steps
  <2>3. 0 \in S /\ \A n \in Nat : n \in S => n + 1 \in S
    <3> HIDE DEF H
    <3> QED
      BY <2>1, <2>2
  <2>4. \A n \in Nat : n \in S
    <3> HIDE DEF S
    <3> QED
      BY <2>3, Counting
  <2> HIDE DEF H
  <2> QED
    BY <2>4
<1>2. \A n \in Nat : \A m \in Nat : \A h \in H(n), e \in H(m) :
        n <= m => h[n] = e[n]
  <2> SUFFICES ASSUME NEW n \in Nat, NEW m \in Nat, NEW h \in H(n), NEW e \in H(m), n <= m
               PROVE  h[n] = e[n]
    OBVIOUS
  <2> DEFINE S == {k \in Nat : k <= n => h[k] = e[k]}
  <2>1. 0 \in S
    BY DEF Steps
  <2>2. ASSUME NEW k \in Nat, k \in S PROVE k + 1 \in S
    <3> SUFFICES ASSUME k + 1 <= n PROVE h[k + 1] = e[k + 1]
      OBVIOUS
    <3>1. k + 1 \in 1..n /\ k + 1 \in 1..m /\ (k + 1) - 1 = k
      OBVIOUS
    <3>2. h[k + 1] = g[h[k]] /\ e[k + 1] = g[e[k]]
      BY <3>1 DEF Steps
    <3> QED
      BY <2>2, <3>2
  <2>3. \A k \in Nat : k \in S
    <3> HIDE DEF S
    <3> QED
      BY <2>1, <2>2, Counting
  <2> QED
    BY <2>3
<1> DEFINE pick == [n \in Nat |-> CHOOSE h \in H(n) : TRUE]
           f == [n \in Nat |-> pick[n][n]]
<1>3. \A n \in Nat : pick[n] \in H(n)
  <2> HIDE DEF H
  <2> QED
    BY <1>1
<1>4. f \in [Nat -> X]
  BY <1>3
<1>5. f[0] = x
  BY <1>3 DEF Steps
<1>6. ASSUME NEW n \in Nat, n # 0 PROVE f[n] = g[f[n - 1]]
  <2>1. n - 1 \in Nat /\ n - 1 <= n /\ n \in 1..n
    BY <1>6
  <2>2. pick[n][n] = g[pick[n][n - 1]]
    BY <1>3, <2>1 DEF Steps
  <2>3. pick[n - 1][n - 1] = pick[n][n - 1]
    BY <1>2, <1>3, <2>1
  <2> QED
    BY <2>1, <2>2, <2>3
<1> HIDE DEF f
<1>7. f = [n \in Nat |-> IF n = 0 THEN x ELSE g[f[n - 1]]]
  BY <1>4, <1>5, <1>6
<1> QED
  BY <1>4, <1>7

-----------------------------------------------------------------------------
(* The search *)

\* A graph of ids.
Graph(edges, count) == count \in Nat /\ edges \subseteq (1..count) \X (1..count)

Searches(edges, count) ==
    [order : Seq(1..count), seen : SUBSET edges, finished : SUBSET (1..count), alarm : BOOLEAN]

\* Each id is discovered once.
OnceEach(search) ==
    \A i, j \in DOMAIN search.order : search.order[i] = search.order[j] => i = j

\* The ids marked as finished are the leaves among those discovered.
LeavesFinished(edges, search) ==
    \A id : id \in search.finished <=> id \in Range(search.order) /\ NextSet(edges, id) = {}

SeenDiscovered(search) ==
    \A e \in search.seen : e[1] \in Range(search.order) /\ e[2] \in Range(search.order)

\* Without an alarm the edges looked at go to later ids or to leaves.
SeenForward(search) ==
    ~search.alarm => \A e \in search.seen :
        DiscoveredBefore(search, e[1], e[2]) \/ e[2] \in search.finished

Chain(edges) == \E d, e \in edges : d[2] = e[1]

SearchInv(edges, count, search) ==
    /\ search \in Searches(edges, count)
    /\ OnceEach(search) /\ LeavesFinished(edges, search) /\ SeenDiscovered(search)
    /\ SeenForward(search)
    /\ search.alarm => Chain(edges)

Done(edges, count, search) == Calls(edges, search) = {} /\ Undiscovered(count, search) = {}

\* How far a search is.
Work(search) == Cardinality(Range(search.order)) + Cardinality(search.seen)

LEMMA NextSetMember ==
    ASSUME NEW count, NEW edges, Graph(edges, count), NEW here, NEW there
    PROVE  there \in NextSet(edges, here) <=> <<here, there>> \in edges
  BY DEF Graph, NextSet

LEMMA SubgraphNext ==
    ASSUME NEW count, NEW edges, Graph(edges, count), NEW seen, NEW here
    PROVE  Graph(edges \ seen, count) /\ NextSet(edges \ seen, here) \subseteq 1..count
  BY DEF Graph, NextSet

LEMMA RangeAppend ==
    ASSUME NEW S, NEW s \in Seq(S), NEW x
    PROVE  /\ Range(Append(s, x)) = Range(s) \union {x}
           /\ DOMAIN Append(s, x) = 1..Len(s) + 1 /\ DOMAIN s = 1..Len(s)
           /\ Append(s, x)[Len(s) + 1] = x
           /\ \A i \in 1..Len(s) : Append(s, x)[i] = s[i]
  BY DEF Range

LEMMA RangeType ==
    ASSUME NEW S, NEW s \in Seq(S)
    PROVE  /\ Range(s) \subseteq S /\ DOMAIN s = 1..Len(s) /\ Len(s) \in Nat
           /\ \A i \in DOMAIN s : s[i] \in Range(s) /\ s[i] \in S
  BY DEF Range

\* What starting Dfs(here) does to a search.
LEMMA DiscoverFields ==
    ASSUME NEW count, NEW edges, Graph(edges, count),
           NEW search \in Searches(edges, count), NEW here \in 1..count
    PROVE  /\ Discover(edges, search, here) \in Searches(edges, count)
           /\ Discover(edges, search, here).order = Append(search.order, here)
           /\ Discover(edges, search, here).seen = search.seen
           /\ Discover(edges, search, here).alarm = search.alarm
           /\ NextSet(edges, here) = {} =>
                 Discover(edges, search, here).finished = search.finished \union {here}
           /\ NextSet(edges, here) # {} =>
                 Discover(edges, search, here).finished = search.finished
<1>1. /\ search.order \in Seq(1..count) /\ search.seen \in SUBSET edges
      /\ search.finished \in SUBSET (1..count) /\ search.alarm \in BOOLEAN
  BY DEF Searches
<1> DEFINE started == [search EXCEPT !.order = Append(@, here)]
<1>2. Append(search.order, here) \in Seq(1..count)
  BY <1>1
<1>3. /\ started \in Searches(edges, count)
      /\ started.order = Append(search.order, here) /\ started.seen = search.seen
      /\ started.alarm = search.alarm /\ started.finished = search.finished
  BY <1>2 DEF Searches
<1> HIDE DEF started
<1>4. CASE NextSet(edges, here) = {}
  <2>1. Discover(edges, search, here) = Leaf(started, here)
    BY <1>4 DEF Discover, started
  <2>2. search.finished \union {here} \in SUBSET (1..count)
    BY <1>1
  <2>3. LET next == Leaf(started, here)
        IN  /\ next \in Searches(edges, count)
            /\ next.order = started.order /\ next.seen = started.seen
            /\ next.alarm = started.alarm /\ next.finished = started.finished \union {here}
    BY <1>3, <2>2 DEF Leaf, Searches
  <2> QED
    BY <1>3, <1>4, <2>1, <2>3
<1>5. CASE NextSet(edges, here) # {}
  <2>1. Discover(edges, search, here) = started
    BY <1>5 DEF Discover, started
  <2> QED
    BY <1>3, <1>5, <2>1
<1> QED
  BY <1>4, <1>5

\* Ids discovered before a step are so after it, in the same order.
LEMMA DiscoveredStays ==
    ASSUME NEW S, NEW search, NEW next, search.order \in Seq(S), NEW here,
           next.order = Append(search.order, here),
           NEW a, NEW b
    PROVE  /\ DiscoveredBefore(search, a, b) => DiscoveredBefore(next, a, b)
           /\ a \in Range(search.order) => DiscoveredBefore(next, a, here)
<1>1. /\ DOMAIN next.order = 1..Len(search.order) + 1
      /\ DOMAIN search.order = 1..Len(search.order)
      /\ next.order[Len(search.order) + 1] = here
      /\ \A i \in 1..Len(search.order) : next.order[i] = search.order[i]
      /\ Len(search.order) \in Nat
  BY RangeAppend
<1>2. ASSUME DiscoveredBefore(search, a, b) PROVE DiscoveredBefore(next, a, b)
  <2>1. PICK i \in DOMAIN search.order, j \in DOMAIN search.order :
            i < j /\ search.order[i] = a /\ search.order[j] = b
    BY <1>2 DEF DiscoveredBefore
  <2>2. i \in DOMAIN next.order /\ j \in DOMAIN next.order
    BY <1>1, <2>1
  <2> QED
    BY <1>1, <2>1, <2>2 DEF DiscoveredBefore
<1>3. ASSUME a \in Range(search.order) PROVE DiscoveredBefore(next, a, here)
  <2>1. PICK i \in DOMAIN search.order : search.order[i] = a
    BY <1>3 DEF Range
  <2>2. i \in DOMAIN next.order /\ Len(search.order) + 1 \in DOMAIN next.order
        /\ i < Len(search.order) + 1
    BY <1>1, <2>1
  <2> QED
    BY <1>1, <2>1, <2>2 DEF DiscoveredBefore
<1> QED
  BY <1>2, <1>3

\* A search stays in order when Dfs is called for an id that is new, if the edges
\* looked at that it did not have in order go to that id.
LEMMA DiscoverKeeps ==
    ASSUME NEW count, NEW edges, Graph(edges, count),
           NEW search \in Searches(edges, count),
           NEW here \in 1..count, here \notin Range(search.order),
           OnceEach(search), LeavesFinished(edges, search),
           \A e \in search.seen :
              /\ e[1] \in Range(search.order)
              /\ e[2] = here \/ e[2] \in Range(search.order),
           ~search.alarm => \A e \in search.seen :
              \/ e[2] = here
              \/ DiscoveredBefore(search, e[1], e[2]) \/ e[2] \in search.finished,
           search.alarm => Chain(edges)
    PROVE  SearchInv(edges, count, Discover(edges, search, here))
<1> DEFINE next == Discover(edges, search, here)
<1>1. /\ next \in Searches(edges, count)
      /\ next.order = Append(search.order, here)
      /\ next.seen = search.seen /\ next.alarm = search.alarm
      /\ NextSet(edges, here) = {} => next.finished = search.finished \union {here}
      /\ NextSet(edges, here) # {} => next.finished = search.finished
  BY DiscoverFields
<1> HIDE DEF next
<1>2. search.order \in Seq(1..count)
  BY DEF Searches
<1>3. /\ Range(next.order) = Range(search.order) \union {here}
      /\ DOMAIN next.order = 1..Len(search.order) + 1
      /\ DOMAIN search.order = 1..Len(search.order)
      /\ next.order[Len(search.order) + 1] = here
      /\ \A i \in 1..Len(search.order) : next.order[i] = search.order[i]
      /\ Len(search.order) \in Nat
  BY <1>1, <1>2, RangeAppend
<1>4. OnceEach(next)
  <2> SUFFICES ASSUME NEW i \in DOMAIN next.order, NEW j \in DOMAIN next.order,
                      next.order[i] = next.order[j]
               PROVE  i = j
    BY DEF OnceEach
  <2>1. \A k \in 1..Len(search.order) : next.order[k] # here
    BY <1>2, <1>3, RangeType
  <2>2. CASE i \in 1..Len(search.order) /\ j \in 1..Len(search.order)
    BY <1>3, <2>2 DEF OnceEach
  <2>3. CASE i = Len(search.order) + 1 \/ j = Len(search.order) + 1
    BY <1>3, <2>1, <2>3
  <2> QED
    BY <1>3, <2>2, <2>3
<1>5. LeavesFinished(edges, next)
  BY <1>1, <1>3 DEF LeavesFinished
<1>6. SeenDiscovered(next)
  BY <1>1, <1>3 DEF SeenDiscovered
<1>7. SeenForward(next)
  <2> SUFFICES ASSUME ~next.alarm, NEW e \in next.seen
               PROVE  DiscoveredBefore(next, e[1], e[2]) \/ e[2] \in next.finished
    BY DEF SeenForward
  <2>1. e \in search.seen /\ ~search.alarm /\ e[1] \in Range(search.order)
    BY <1>1
  <2>2. /\ DiscoveredBefore(search, e[1], e[2]) => DiscoveredBefore(next, e[1], e[2])
        /\ DiscoveredBefore(next, e[1], here)
    BY <1>1, <1>2, <2>1, DiscoveredStays
  <2>3. search.finished \subseteq next.finished
    BY <1>1
  <2> QED
    BY <2>1, <2>2, <2>3
<1>8. next.alarm => Chain(edges)
  BY <1>1
<1> QED
  BY <1>1, <1>4, <1>5, <1>6, <1>7, <1>8 DEF SearchInv, next

\* How far a search is once Dfs is called for an id that is new.
LEMMA DiscoverWork ==
    ASSUME NEW count, NEW edges, Graph(edges, count), IsFiniteSet(edges),
           NEW search \in Searches(edges, count),
           NEW here \in 1..count, here \notin Range(search.order)
    PROVE  Work(search) \in Nat /\ Work(Discover(edges, search, here)) = Work(search) + 1
<1>1. /\ Discover(edges, search, here).order = Append(search.order, here)
      /\ Discover(edges, search, here).seen = search.seen
  BY DiscoverFields
<1>2. search.order \in Seq(1..count) /\ search.seen \subseteq edges
  BY DEF Searches
<1>3. Range(Append(search.order, here)) = Range(search.order) \union {here}
  BY <1>2, RangeAppend
<1>4. Range(search.order) \subseteq 1..count
  BY <1>2, RangeType
<1>5. IsFiniteSet(1..count) /\ IsFiniteSet(search.seen)
  BY <1>2, FS_Interval, FS_Subset DEF Graph
<1>6. IsFiniteSet(Range(search.order))
  BY <1>4, <1>5, FS_Subset
<1>7. /\ Cardinality(Range(search.order) \union {here}) = Cardinality(Range(search.order)) + 1
      /\ Cardinality(Range(search.order)) \in Nat
  BY <1>6, FS_AddElement, FS_CardinalityType
<1>8. Cardinality(search.seen) \in Nat
  BY <1>5, FS_CardinalityType
<1> QED
  BY <1>1, <1>3, <1>7, <1>8 DEF Work

\* The call that Dfs goes on with, and the edge it looks at.
LEMMA CallGoesOn ==
    ASSUME NEW count, NEW edges, Graph(edges, count),
           NEW search \in Searches(edges, count), Calls(edges, search) # {}
    PROVE  LET here == search.order[Greatest(Calls(edges, search))]
               there == Least(Ahead(edges, search, here))
           IN  /\ here \in Range(search.order) /\ here \in 1..count
               /\ there \in 1..count /\ <<here, there>> \in edges \ search.seen
<1> DEFINE place == Greatest(Calls(edges, search))
           here == search.order[place]
           there == Least(Ahead(edges, search, here))
<1>1. search.order \in Seq(1..count)
  BY DEF Searches
<1>2. Calls(edges, search) \subseteq 0..Len(search.order) /\ Len(search.order) \in Nat
  BY <1>1 DEF Calls
<1>3. place \in Calls(edges, search)
  BY <1>2, GreatestType
<1> HIDE DEF place
<1>4. place \in DOMAIN search.order /\ Ahead(edges, search, here) # {}
  BY <1>3 DEF Calls
<1>5. here \in Range(search.order) /\ here \in 1..count
  BY <1>1, <1>4, RangeType
<1>6. Ahead(edges, search, here) \subseteq 1..count
  BY SubgraphNext DEF Ahead
<1>7. there \in Ahead(edges, search, here)
  BY <1>4, <1>6, LeastType DEF Graph
<1>8. <<here, there>> \in edges \ search.seen
  <2>1. Graph(edges \ search.seen, count)
    BY SubgraphNext
  <2> QED
    BY <1>7, <2>1, NextSetMember DEF Ahead
<1> QED
  BY <1>5, <1>6, <1>7, <1>8 DEF place

\* A search after an edge is looked at, and after that edge raises the alarm or not.
LookedAt(search, e) == [search EXCEPT !.seen = @ \union {e}]
Judged(looked, raised) == [looked EXCEPT !.alarm = @ \/ raised]

LEMMA LookedFields ==
    ASSUME NEW count, NEW edges, NEW search \in Searches(edges, count), NEW e \in edges,
           NEW raised \in BOOLEAN,
           NEW looked, looked = LookedAt(search, e),
           NEW judged, judged = Judged(looked, raised)
    PROVE  /\ looked \in Searches(edges, count) /\ judged \in Searches(edges, count)
           /\ looked.order = search.order /\ judged.order = search.order
           /\ looked.seen = search.seen \union {e} /\ judged.seen = search.seen \union {e}
           /\ looked.finished = search.finished /\ judged.finished = search.finished
           /\ looked.alarm = search.alarm /\ judged.alarm = (search.alarm \/ raised)
<1>1. /\ search.seen \in SUBSET edges /\ search.alarm \in BOOLEAN
      /\ (search.seen \union {e}) \in SUBSET edges
  BY DEF Searches
<1>2. /\ looked \in Searches(edges, count)
      /\ looked.order = search.order /\ looked.seen = search.seen \union {e}
      /\ looked.finished = search.finished /\ looked.alarm = search.alarm
  BY <1>1 DEF Searches, LookedAt
<1>3. looked.alarm \/ raised \in BOOLEAN
  OBVIOUS
<1>4. /\ judged \in Searches(edges, count)
      /\ judged.order = looked.order /\ judged.seen = looked.seen
      /\ judged.finished = looked.finished /\ judged.alarm = (looked.alarm \/ raised)
  BY <1>2, <1>3 DEF Searches, Judged
<1> QED
  BY <1>2, <1>4

\* The measure grows by one when an edge is looked at.
LEMMA LookedWork ==
    ASSUME NEW count, NEW edges, Graph(edges, count), IsFiniteSet(edges),
           NEW search \in Searches(edges, count), NEW e \in edges \ search.seen,
           NEW looked, looked.order = search.order, looked.seen = search.seen \union {e}
    PROVE  Work(search) \in Nat /\ Work(looked) = Work(search) + 1
<1>1. search.order \in Seq(1..count) /\ search.seen \subseteq edges
  BY DEF Searches
<1>2. Range(search.order) \subseteq 1..count
  BY <1>1, RangeType
<1>3. IsFiniteSet(1..count) /\ IsFiniteSet(search.seen)
  <2>1. IsFiniteSet(1..count)
    BY FS_Interval DEF Graph
  <2> QED
    BY <1>1, <2>1, FS_Subset
<1>4. IsFiniteSet(Range(search.order))
  BY <1>2, <1>3, FS_Subset
<1>5. Cardinality(Range(search.order)) \in Nat /\ Cardinality(search.seen) \in Nat
  BY <1>3, <1>4, FS_CardinalityType
<1>6. Cardinality(looked.seen) = Cardinality(search.seen) + 1
  BY <1>3, FS_AddElement
<1> QED
  BY <1>5, <1>6 DEF Work

\* One edge more is looked at, and the search is in order and further on.
LEMMA DfsKeeps ==
    ASSUME NEW count, NEW edges, Graph(edges, count), IsFiniteSet(edges),
           NEW search, SearchInv(edges, count, search), Calls(edges, search) # {}
    PROVE  /\ SearchInv(edges, count, Dfs(edges, search))
           /\ Work(search) \in Nat /\ Work(Dfs(edges, search)) \in Nat
           /\ Work(Dfs(edges, search)) > Work(search)
<1> DEFINE here == search.order[Greatest(Calls(edges, search))]
           there == Least(Ahead(edges, search, here))
           looked == LookedAt(search, <<here, there>>)
           raised == LooksBackward(search, here, there)
           judged == Judged(looked, raised)
<1>1. search \in Searches(edges, count)
  BY DEF SearchInv
<1>2. /\ here \in Range(search.order) /\ here \in 1..count
      /\ there \in 1..count /\ <<here, there>> \in edges \ search.seen
  BY <1>1, CallGoesOn
<1>3. raised \in BOOLEAN
  BY DEF LooksBackward, DiscoveredBefore
<1>4. Dfs(edges, search) = IF there \notin Range(search.order)
                           THEN Discover(edges, looked, there) ELSE judged
  BY DEF Dfs, LookedAt, Judged
<1> HIDE DEF here, there, raised
<1>5. /\ looked \in Searches(edges, count) /\ judged \in Searches(edges, count)
      /\ looked.order = search.order /\ judged.order = search.order
      /\ looked.seen = search.seen \union {<<here, there>>}
      /\ judged.seen = search.seen \union {<<here, there>>}
      /\ looked.finished = search.finished /\ judged.finished = search.finished
      /\ looked.alarm = search.alarm /\ judged.alarm = (search.alarm \/ raised)
  BY <1>1, <1>2, <1>3, LookedFields
<1> HIDE DEF looked, judged
<1>6. /\ OnceEach(search) /\ LeavesFinished(edges, search) /\ SeenDiscovered(search)
      /\ SeenForward(search) /\ (search.alarm => Chain(edges))
  BY DEF SearchInv
<1>7. CASE there \notin Range(search.order)
  <2>1. OnceEach(looked) /\ LeavesFinished(edges, looked) /\ (looked.alarm => Chain(edges))
    BY <1>5, <1>6 DEF OnceEach, LeavesFinished
  <2>2. ASSUME NEW e \in looked.seen
        PROVE  e[1] \in Range(looked.order) /\ (e[2] = there \/ e[2] \in Range(looked.order))
    BY <1>2, <1>5, <1>6 DEF SeenDiscovered
  <2>3. ASSUME ~looked.alarm, NEW e \in looked.seen
        PROVE  \/ e[2] = there
               \/ DiscoveredBefore(looked, e[1], e[2]) \/ e[2] \in looked.finished
    <3>1. DiscoveredBefore(search, e[1], e[2]) => DiscoveredBefore(looked, e[1], e[2])
      BY <1>5 DEF DiscoveredBefore
    <3> QED
      BY <1>5, <1>6, <2>3, <3>1 DEF SeenForward
  <2>4. there \notin Range(looked.order)
    BY <1>5, <1>7
  <2>5. SearchInv(edges, count, Discover(edges, looked, there))
    BY <1>2, <1>5, <2>1, <2>2, <2>3, <2>4, DiscoverKeeps
  <2>6. Work(search) \in Nat /\ Work(looked) = Work(search) + 1
    BY <1>1, <1>2, <1>5, LookedWork
  <2>7. Work(Discover(edges, looked, there)) = Work(looked) + 1
    BY <1>2, <1>5, <2>4, DiscoverWork
  <2> QED
    BY <1>4, <1>7, <2>5, <2>6, <2>7
<1>8. CASE there \in Range(search.order)
  <2>1. OnceEach(judged) /\ LeavesFinished(edges, judged)
    BY <1>5, <1>6 DEF OnceEach, LeavesFinished
  <2>2. SeenDiscovered(judged)
    BY <1>2, <1>5, <1>6, <1>8 DEF SeenDiscovered
  <2>3. SeenForward(judged)
    <3> SUFFICES ASSUME ~judged.alarm, NEW e \in judged.seen
                 PROVE  DiscoveredBefore(judged, e[1], e[2]) \/ e[2] \in judged.finished
      BY DEF SeenForward
    <3>1. DiscoveredBefore(search, e[1], e[2]) => DiscoveredBefore(judged, e[1], e[2])
      BY <1>5 DEF DiscoveredBefore
    <3>2. CASE e \in search.seen
      BY <1>5, <1>6, <3>1, <3>2 DEF SeenForward
    <3>3. CASE e = <<here, there>>
      <4>1. e[1] = here /\ e[2] = there /\ ~raised
        BY <1>5, <3>3
      <4> QED
        BY <1>5, <3>1, <4>1 DEF raised, LooksBackward
    <3> QED
      BY <1>5, <3>2, <3>3
  <2>4. ASSUME raised PROVE Chain(edges)
    <3>1. there \notin search.finished
      BY <2>4 DEF raised, LooksBackward
    <3>2. NextSet(edges, there) # {}
      BY <1>6, <1>8, <3>1 DEF LeavesFinished
    <3>3. PICK beyond : <<there, beyond>> \in edges
      BY <3>2, NextSetMember
    <3> QED
      BY <1>2, <3>3 DEF Chain
  <2>5. judged.alarm => Chain(edges)
    BY <1>5, <1>6, <2>4
  <2>6. SearchInv(edges, count, judged)
    BY <1>5, <2>1, <2>2, <2>3, <2>5 DEF SearchInv
  <2>7. Work(search) \in Nat /\ Work(judged) = Work(search) + 1
    BY <1>1, <1>2, <1>5, LookedWork
  <2> QED
    BY <1>4, <1>8, <2>6, <2>7
<1> QED
  BY <1>7, <1>8

\* A step keeps a search in order, and brings it further unless it is done.
LEMMA StepKeeps ==
    ASSUME NEW count, NEW edges, Graph(edges, count), IsFiniteSet(edges),
           NEW search, SearchInv(edges, count, search)
    PROVE  /\ SearchInv(edges, count, SearchStep(edges, count, search))
           /\ Done(edges, count, search) => SearchStep(edges, count, search) = search
           /\ ~Done(edges, count, search) =>
                 /\ Work(search) \in Nat /\ Work(SearchStep(edges, count, search)) \in Nat
                 /\ Work(SearchStep(edges, count, search)) > Work(search)
<1>1. CASE Calls(edges, search) # {}
  BY <1>1, DfsKeeps DEF SearchStep, Done
<1>2. CASE Calls(edges, search) = {} /\ Undiscovered(count, search) # {}
  <2> DEFINE here == Least(Undiscovered(count, search))
  <2>1. Undiscovered(count, search) \subseteq Nat
    BY DEF Undiscovered
  <2>2. here \in Undiscovered(count, search)
    BY <1>2, <2>1, LeastType
  <2>3. SearchStep(edges, count, search) = Discover(edges, search, here)
    BY <1>2 DEF SearchStep
  <2> HIDE DEF here
  <2>4. here \in 1..count /\ here \notin Range(search.order)
    BY <2>2 DEF Undiscovered
  <2>5. /\ search \in Searches(edges, count)
        /\ OnceEach(search) /\ LeavesFinished(edges, search)
        /\ \A e \in search.seen :
              e[1] \in Range(search.order) /\ (e[2] = here \/ e[2] \in Range(search.order))
        /\ ~search.alarm => \A e \in search.seen :
              \/ e[2] = here
              \/ DiscoveredBefore(search, e[1], e[2]) \/ e[2] \in search.finished
        /\ search.alarm => Chain(edges)
    BY DEF SearchInv, SeenDiscovered, SeenForward
  <2>6. SearchInv(edges, count, Discover(edges, search, here))
    BY <2>4, <2>5, DiscoverKeeps
  <2>7. Work(search) \in Nat /\ Work(Discover(edges, search, here)) = Work(search) + 1
    BY <2>4, <2>5, DiscoverWork
  <2> QED
    BY <1>2, <2>3, <2>6, <2>7 DEF Done
<1>3. CASE Calls(edges, search) = {} /\ Undiscovered(count, search) = {}
  BY <1>3 DEF SearchStep, Done
<1> QED
  BY <1>1, <1>2, <1>3

LEMMA FreshKeeps ==
    ASSUME NEW count, NEW edges
    PROVE  SearchInv(edges, count, Fresh) /\ Work(Fresh) = 0
<1>1. /\ Fresh \in Searches(edges, count) /\ Fresh.order = <<>> /\ Fresh.seen = {}
      /\ Fresh.finished = {} /\ Fresh.alarm = FALSE
  BY DEF Fresh, Searches
<1>2. Range(Fresh.order) = {}
  BY <1>1 DEF Range
<1>3. Work(Fresh) = 0
  <2>1. Cardinality({}) = 0
    BY FS_EmptySet
  <2> QED
    BY <1>1, <1>2, <2>1 DEF Work
<1> QED
  BY <1>1, <1>2, <1>3
     DEF SearchInv, OnceEach, LeavesFinished, SeenDiscovered, SeenForward

\* The recursion of SearchOf is well founded.
LEMMA SearchOfSteps ==
    ASSUME NEW count, NEW edges, Graph(edges, count), IsFiniteSet(edges)
    PROVE  /\ SearchOf(edges, count)[0] = Fresh
           /\ \A n \in Nat : SearchOf(edges, count)[n + 1] =
                                 SearchStep(edges, count, SearchOf(edges, count)[n])
<1> DEFINE X == {s \in Searches(edges, count) : SearchInv(edges, count, s)}
           g == [s \in X |-> SearchStep(edges, count, s)]
           Def(f) == f = [n \in Nat |->
                            IF n = 0 THEN Fresh ELSE SearchStep(edges, count, f[n - 1])]
<1>1. Fresh \in X
  BY FreshKeeps DEF SearchInv
<1>2. ASSUME NEW s \in X PROVE SearchStep(edges, count, s) \in X
  BY StepKeeps DEF SearchInv
<1>3. g \in [X -> X] /\ \A s \in X : g[s] = SearchStep(edges, count, s)
  BY <1>2
<1> HIDE DEF X, g
<1>4. PICK h \in [Nat -> X] : h = [n \in Nat |-> IF n = 0 THEN Fresh ELSE g[h[n - 1]]]
  BY <1>1, <1>3, Iterate
<1>5. Def(h)
  <2>1. ASSUME NEW n \in Nat, n # 0 PROVE g[h[n - 1]] = SearchStep(edges, count, h[n - 1])
    <3>1. n - 1 \in Nat
      BY <2>1
    <3> QED
      BY <1>3, <1>4, <3>1
  <2> QED
    BY <1>4, <2>1
<1>6. SearchOf(edges, count) = CHOOSE f : Def(f)
  BY DEF SearchOf
<1>7. Def(SearchOf(edges, count))
  <2> HIDE DEF Def
  <2> QED
    BY <1>5, <1>6
<1> DEFINE run == SearchOf(edges, count)
<1>8. run = [n \in Nat |-> IF n = 0 THEN Fresh ELSE SearchStep(edges, count, run[n - 1])]
  BY <1>7
<1> HIDE DEF run
<1>9. run[0] = Fresh
  BY <1>8
<1>10. ASSUME NEW n \in Nat PROVE run[n + 1] = SearchStep(edges, count, run[n])
  <2>1. n + 1 \in Nat /\ n + 1 # 0 /\ (n + 1) - 1 = n
    OBVIOUS
  <2> QED
    BY <1>8, <2>1
<1> QED
  BY <1>9, <1>10 DEF run

\* After n steps a search is in order, and it is done or has done n steps' work.
LEMMA SearchProgress ==
    ASSUME NEW count, NEW edges, Graph(edges, count), IsFiniteSet(edges)
    PROVE  \A n \in Nat : LET search == SearchOf(edges, count)[n]
                          IN  /\ SearchInv(edges, count, search)
                              /\ \/ Done(edges, count, search)
                                 \/ Work(search) \in Nat /\ Work(search) >= n
<1> DEFINE run == SearchOf(edges, count)
           P(n) == /\ SearchInv(edges, count, run[n])
                   /\ \/ Done(edges, count, run[n])
                      \/ Work(run[n]) \in Nat /\ Work(run[n]) >= n
           S == {n \in Nat : P(n)}
<1>1. run[0] = Fresh /\ \A n \in Nat : run[n + 1] = SearchStep(edges, count, run[n])
  BY SearchOfSteps
<1> HIDE DEF run
<1>2. 0 \in S
  BY <1>1, FreshKeeps
<1>3. ASSUME NEW n \in Nat, n \in S PROVE n + 1 \in S
  <2>1. SearchInv(edges, count, run[n]) /\ run[n + 1] = SearchStep(edges, count, run[n])
    BY <1>1, <1>3
  <2>2. SearchInv(edges, count, run[n + 1])
    BY <2>1, StepKeeps
  <2>3. CASE Done(edges, count, run[n])
    <3>1. run[n + 1] = run[n]
      BY <2>1, <2>3, StepKeeps
    <3> QED
      BY <2>2, <2>3, <3>1
  <2>4. CASE ~Done(edges, count, run[n])
    <3>1. /\ Work(run[n]) \in Nat /\ Work(run[n + 1]) \in Nat
          /\ Work(run[n + 1]) > Work(run[n])
      BY <2>1, <2>4, StepKeeps
    <3>2. Work(run[n]) >= n
      BY <1>3, <2>4
    <3> QED
      BY <2>2, <3>1, <3>2
  <2> QED
    BY <2>3, <2>4
<1>4. \A n \in Nat : n \in S
  <2> HIDE DEF S
  <2> QED
    BY <1>2, <1>3, Counting
<1> QED
  BY <1>4 DEF run

\* A search that has done the work of all ids and edges is done.
LEMMA WorkDone ==
    ASSUME NEW count, NEW edges, Graph(edges, count), IsFiniteSet(edges),
           NEW search, SearchInv(edges, count, search),
           Work(search) >= count + Cardinality(edges)
    PROVE  Done(edges, count, search)
<1>1. search.order \in Seq(1..count) /\ search.seen \subseteq edges
  BY DEF SearchInv, Searches
<1>2. Range(search.order) \subseteq 1..count
  BY <1>1, RangeType
<1>3. count \in Nat /\ IsFiniteSet(1..count) /\ Cardinality(1..count) = count
  <2>1. count \in Nat
    BY DEF Graph
  <2> QED
    BY <2>1, FS_Interval
<1>4. /\ Cardinality(Range(search.order)) \in Nat
      /\ Cardinality(Range(search.order)) <= count
      /\ Cardinality(Range(search.order)) = count => Range(search.order) = 1..count
  BY <1>2, <1>3, FS_Subset, FS_CardinalityType
<1>5. /\ Cardinality(search.seen) \in Nat /\ Cardinality(edges) \in Nat
      /\ Cardinality(search.seen) <= Cardinality(edges)
      /\ Cardinality(search.seen) = Cardinality(edges) => search.seen = edges
  BY <1>1, FS_Subset, FS_CardinalityType
<1>6. Range(search.order) = 1..count /\ search.seen = edges
  BY <1>3, <1>4, <1>5 DEF Work
<1>7. Undiscovered(count, search) = {}
  BY <1>6 DEF Undiscovered
<1>8. edges \ search.seen = {}
  BY <1>6
<1>9. Calls(edges, search) = {}
  BY <1>8 DEF Calls, Ahead, NextSet
<1> QED
  BY <1>7, <1>9 DEF Done

\* When CheckCycle looks at the alarm, its search is in order and done.
LEMMA SearchEnds ==
    ASSUME NEW count, NEW edges, Graph(edges, count), IsFiniteSet(edges)
    PROVE  \E search : /\ SearchInv(edges, count, search) /\ Done(edges, count, search)
                       /\ CheckCycle(edges, count) = search.alarm
<1> DEFINE n == count + Cardinality(edges)
           search == SearchOf(edges, count)[n]
<1>1. n \in Nat
  BY FS_CardinalityType DEF Graph
<1>2. /\ SearchInv(edges, count, search)
      /\ Done(edges, count, search) \/ Work(search) >= n
  BY <1>1, SearchProgress, Zenon
<1>3. Done(edges, count, search)
  BY <1>2, WorkDone
<1>4. CheckCycle(edges, count) = search.alarm
  BY DEF CheckCycle
<1> QED
  BY <1>2, <1>3, <1>4

\* Ids each of which has an edge to another one of them.
Circle(edges, C) == C # {} /\ \A i \in C : \E j \in C : <<i, j>> \in edges

\* The search for a cycle misses none: it raises the alarm if there is one.
THEOREM SearchFindsCycles ==
    ASSUME NEW count, NEW edges, Graph(edges, count), IsFiniteSet(edges),
           NEW C \in SUBSET (1..count), Circle(edges, C)
    PROVE  CheckCycle(edges, count)
<1> SUFFICES ASSUME ~CheckCycle(edges, count) PROVE FALSE
  OBVIOUS
<1>1. PICK search : /\ SearchInv(edges, count, search) /\ Done(edges, count, search)
                    /\ ~search.alarm
  BY SearchEnds
<1>2. search.order \in Seq(1..count)
  BY <1>1 DEF SearchInv, Searches
<1>3. DOMAIN search.order = 1..Len(search.order) /\ Len(search.order) \in Nat
  BY <1>2, RangeType
<1>4. Range(search.order) = 1..count
  <2>1. Range(search.order) \subseteq 1..count
    BY <1>2, RangeType
  <2> QED
    BY <1>1, <2>1 DEF Done, Undiscovered
<1>5. ASSUME NEW i \in C, NEW j \in C, <<i, j>> \in edges
      PROVE  DiscoveredBefore(search, i, j)
  <2>1. PICK k \in DOMAIN search.order : search.order[k] = i
    BY <1>4 DEF Range
  <2>2. Ahead(edges, search, i) = {}
    BY <1>1, <2>1 DEF Done, Calls
  <2>3. <<i, j>> \in search.seen
    <3>1. Graph(edges \ search.seen, count)
      BY SubgraphNext
    <3> QED
      BY <1>5, <2>2, <3>1, NextSetMember DEF Ahead
  <2>4. j \notin search.finished
    <3>1. PICK l \in C : <<j, l>> \in edges
      BY DEF Circle
    <3>2. NextSet(edges, j) # {}
      BY <3>1, NextSetMember
    <3> QED
      BY <1>1, <3>2 DEF SearchInv, LeavesFinished
  <2> QED
    BY <1>1, <2>3, <2>4 DEF SearchInv, SeenForward
<1> DEFINE Places == {k \in 1..Len(search.order) : search.order[k] \in C}
           last == Greatest(Places)
<1>6. Places # {}
  <2>1. PICK i \in C : TRUE
    BY DEF Circle
  <2>2. PICK k \in DOMAIN search.order : search.order[k] = i
    BY <1>4 DEF Range
  <2> QED
    BY <1>3, <2>2
<1>7. Places \subseteq 0..Len(search.order)
  BY <1>3
<1>8. last \in Places /\ \A k \in Places : k <= last
  <2> HIDE DEF Places
  <2> QED
    BY <1>3, <1>6, <1>7, GreatestType
<1> HIDE DEF last
<1>9. PICK j \in C : <<search.order[last], j>> \in edges
  BY <1>8 DEF Circle
<1>10. PICK a \in DOMAIN search.order, b \in DOMAIN search.order :
          a < b /\ search.order[a] = search.order[last] /\ search.order[b] = j
  BY <1>5, <1>8, <1>9 DEF DiscoveredBefore
<1>11. a = last
  BY <1>1, <1>3, <1>8, <1>10 DEF SearchInv, OnceEach
<1> QED
  BY <1>3, <1>8, <1>10, <1>11

\* It raises the alarm only if two edges follow each other.
THEOREM AlarmNeedsChain ==
    ASSUME NEW count, NEW edges, Graph(edges, count), IsFiniteSet(edges),
           CheckCycle(edges, count)
    PROVE  Chain(edges)
  BY SearchEnds DEF SearchInv

-----------------------------------------------------------------------------
(* Guards *)

Names == {NameOf(lock) : lock \in Locks}

TypeInv ==
    /\ names \in Seq(Names)
    /\ \A i, j \in 1..Len(names) : names[i] = names[j] => i = j
    /\ history \subseteq (1..Len(names)) \X (1..Len(names))
    /\ stack \in [Threads -> Seq(Nat)]
    /\ held \in [Threads -> Seq(Locks)]
    /\ waiting \in [Threads -> Locks \union {None}]
    /\ crashed \in {"no", "cycle"}

\* A thread's stack has the ids of its guards' locks, then of the one it waits for.
StackNames(t) ==
    /\ \A i \in 1..Len(stack[t]) : stack[t][i] \in 1..Len(names)
    /\ waiting[t] = None => Len(stack[t]) = Len(held[t])
    /\ waiting[t] # None => Len(stack[t]) = Len(held[t]) + 1
    /\ \A i \in 1..Len(held[t]) : names[stack[t][i]] = NameOf(held[t][i])
    /\ waiting[t] # None => names[stack[t][Len(held[t]) + 1]] = NameOf(waiting[t])

\* Ids on a thread's stack follow each other as the history says.
StackOrdered(t) ==
    \A i \in 1..Len(stack[t]) - 1 :
        stack[t][i] # stack[t][i + 1] => <<stack[t][i], stack[t][i + 1]>> \in history

\* Two threads have no lock in common.
Exclusive(t, u) == Range(held[t]) \cap Range(held[u]) = {}

ThreadsInv ==
    /\ \A t \in Threads : StackNames(t) /\ StackOrdered(t)
    /\ \A t, u \in Threads : t # u => Exclusive(t, u)

\* The inductive invariant.
IInv == TypeInv /\ ThreadsInv /\ CyclesReported /\ ReportNeedsChain

\* The history is a finite graph.
LEMMA HistoryGraph ==
    ASSUME NEW n \in Nat, NEW edges, edges \subseteq (1..n) \X (1..n)
    PROVE  Graph(edges, n) /\ IsFiniteSet(edges)
<1>1. IsFiniteSet(1..n)
  BY FS_Interval
<1>2. IsFiniteSet((1..n) \X (1..n))
  BY <1>1, FS_Product
<1> QED
  BY <1>2, FS_Subset DEF Graph

\* What PushLock finds or adds among the names it knows.
LEMMA KnownNames ==
    ASSUME NEW known \in Seq(Names), NEW name \in Names,
           \A i, j \in 1..Len(known) : known[i] = known[j] => i = j,
           NEW more, name \in Range(known) => more = known,
           name \notin Range(known) => more = Append(known, name)
    PROVE  /\ more \in Seq(Names) /\ Len(known) <= Len(more)
           /\ Len(known) \in Nat /\ Len(more) \in Nat
           /\ \A i \in 1..Len(known) : more[i] = known[i]
           /\ \A i, j \in 1..Len(more) : more[i] = more[j] => i = j
           /\ IdIn(more, name) \in 1..Len(more) /\ more[IdIn(more, name)] = name
<1>1. /\ DOMAIN known = 1..Len(known) /\ Len(known) \in Nat
      /\ \A i \in DOMAIN known : known[i] \in Range(known)
  BY RangeType
<1>a. /\ known \in Seq(Names) /\ name \in Names
      /\ \A i, j \in 1..Len(known) : known[i] = known[j] => i = j
  OBVIOUS
<1>2. CASE name \in Range(known)
  <2>1. more = known
    BY <1>2
  <2>2. \E i \in DOMAIN known : known[i] = name
    BY <1>2 DEF Range
  <2>3. IdIn(more, name) \in DOMAIN known /\ known[IdIn(more, name)] = name
    BY <2>1, <2>2 DEF IdIn
  <2>4. IdIn(more, name) \in 1..Len(more) /\ more[IdIn(more, name)] = name
    BY <1>1, <2>1, <2>3
  <2> QED
    BY ONLY <1>a, <1>1, <2>1, <2>4
<1>3. CASE name \notin Range(known)
  <2>1. more = Append(known, name)
    BY <1>3
  <2>2. /\ more \in Seq(Names) /\ Len(more) = Len(known) + 1
        /\ DOMAIN more = 1..Len(more) /\ more[Len(more)] = name
        /\ \A i \in 1..Len(known) : more[i] = known[i]
    BY ONLY <1>a, <1>1, <2>1
  <2>3. \E i \in DOMAIN more : more[i] = name
    BY <1>1, <2>2
  <2>4. IdIn(more, name) \in DOMAIN more /\ more[IdIn(more, name)] = name
    BY <2>3 DEF IdIn
  <2>5. \A i \in 1..Len(known) : more[i] # name
    BY <1>1, <1>3, <2>2
  <2>6. ASSUME NEW i \in 1..Len(more), NEW j \in 1..Len(more), more[i] = more[j]
        PROVE  i = j
    <3>1. i \in 1..Len(known) \/ i = Len(more)
      BY <1>1, <2>2
    <3>2. j \in 1..Len(known) \/ j = Len(more)
      BY <1>1, <2>2
    <3>3. CASE i \in 1..Len(known) /\ j \in 1..Len(known)
      <4>1. known[i] = known[j]
        BY <2>2, <2>6, <3>3
      <4> QED
        BY <3>3, <4>1
    <3>4. CASE i = Len(more) \/ j = Len(more)
      BY <2>2, <2>5, <2>6, <3>1, <3>2, <3>4
    <3> QED
      BY <3>1, <3>2, <3>3, <3>4
  <2> QED
    BY ONLY <1>1, <2>2, <2>4, <2>6
<1> QED
  BY <1>2, <1>3

\* What one element more at the end of a sequence changes.
LEMMA AppendFacts ==
    ASSUME NEW S, NEW s \in Seq(S), NEW x \in S
    PROVE  /\ Append(s, x) \in Seq(S) /\ Len(Append(s, x)) = Len(s) + 1 /\ Len(s) \in Nat
           /\ Append(s, x)[Len(s) + 1] = x
           /\ \A i \in 1..Len(s) : Append(s, x)[i] = s[i]
  OBVIOUS

\* A history that grows without a report has no cycle, whatever names are new.
LEMMA NoCycleYet ==
    ASSUME NEW n \in Nat, NEW more \in Nat, n <= more, NEW old, NEW edges,
           old \subseteq (1..n) \X (1..n), edges \subseteq (1..more) \X (1..more),
           \A C \in SUBSET (1..n) : ~Circle(old, C),
           edges = old \/ ~CheckCycle(edges, more)
    PROVE  \A C \in SUBSET (1..more) : ~Circle(edges, C)
<1> SUFFICES ASSUME NEW C \in SUBSET (1..more), Circle(edges, C)
             PROVE  FALSE
  OBVIOUS
<1>1. CASE edges = old
  <2>1. ASSUME NEW i \in C PROVE i \in 1..n
    <3>1. PICK j \in C : <<i, j>> \in edges
      BY DEF Circle
    <3>2. <<i, j>> \in (1..n) \X (1..n)
      BY <1>1, <3>1
    <3> QED
      BY <3>2
  <2>2. C \in SUBSET (1..n)
    BY <2>1
  <2> QED
    BY <1>1, <2>2
<1>2. CASE ~CheckCycle(edges, more)
  <2>1. Graph(edges, more) /\ IsFiniteSet(edges)
    BY HistoryGraph
  <2> QED
    BY <1>2, <2>1, SearchFindsCycles
<1> QED
  BY <1>1, <1>2

LEMMA CyclesReportedAs ==
    ASSUME names \in Seq(Names)
    PROVE  CyclesReported <=>
               (crashed = "no" => \A C \in SUBSET (1..Len(names)) : ~Circle(history, C))
<1>1. DOMAIN names = 1..Len(names)
  OBVIOUS
<1> QED
  BY <1>1 DEF CyclesReported, Cyclic, Circle

LEMMA PushLockKeeps ==
    ASSUME IInv, NEW t \in Threads, NEW lock \in Locks, PushLock(t, lock)
    PROVE  IInv'
<1> DEFINE known == IF NameOf(lock) \in Range(names) THEN names ELSE Append(names, NameOf(lock))
           id == IdIn(known, NameOf(lock))
           new == IF stack[t] # <<>> /\ PrevId(t) # id THEN {<<PrevId(t), id>>} ELSE {}
<1>1. /\ crashed = "no" /\ waiting[t] = None
      /\ names' = known /\ history' = history \union new
      /\ crashed' = IF ~(new \subseteq history) /\ CheckCycle(history', Len(known))
                    THEN "cycle" ELSE "no"
      /\ stack' = [stack EXCEPT ![t] = Append(stack[t], id)]
      /\ waiting' = [waiting EXCEPT ![t] = lock]
      /\ held' = held
  BY DEF PushLock, Pushed
<1>2. TypeInv /\ ThreadsInv /\ CyclesReported /\ ReportNeedsChain
  BY DEF IInv
<1>3. /\ known \in Seq(Names) /\ Len(names) <= Len(known)
      /\ Len(names) \in Nat /\ Len(known) \in Nat
      /\ \A i \in 1..Len(names) : known[i] = names[i]
      /\ \A i, j \in 1..Len(known) : known[i] = known[j] => i = j
      /\ id \in 1..Len(known) /\ known[id] = NameOf(lock)
  <2>1. NameOf(lock) \in Names
    BY DEF Names
  <2>2. /\ NameOf(lock) \in Range(names) => known = names
        /\ NameOf(lock) \notin Range(names) => known = Append(names, NameOf(lock))
    BY Zenon
  <2>3. names \in Seq(Names) /\ \A i, j \in 1..Len(names) : names[i] = names[j] => i = j
    BY <1>2 DEF TypeInv
  <2> HIDE DEF known
  <2> QED
    BY ONLY <2>1, <2>2, <2>3, KnownNames
<1>4. /\ stack[t] \in Seq(Nat) /\ Len(stack[t]) \in Nat
      /\ held[t] \in Seq(Locks) /\ Len(held[t]) \in Nat
  BY <1>2 DEF TypeInv
<1>5. Len(stack[t]) = Len(held[t])
  BY <1>1, <1>2, <1>4 DEF ThreadsInv, StackNames
<1>6. /\ stack[t] # <<>> => PrevId(t) = stack[t][Len(stack[t])] /\ Len(stack[t]) \in 1..Len(stack[t])
      /\ stack[t] = <<>> => Len(stack[t]) = 0
  BY <1>4 DEF PrevId, Last
<1>7. /\ new \subseteq (1..Len(known)) \X (1..Len(known))
      /\ stack[t] # <<>> /\ stack[t][Len(stack[t])] # id =>
            <<stack[t][Len(stack[t])], id>> \in new
  <2>1. stack[t] # <<>> => PrevId(t) \in 1..Len(known)
    <3>1. \A i \in 1..Len(stack[t]) : stack[t][i] \in 1..Len(names)
      BY <1>2 DEF ThreadsInv, StackNames
    <3> QED
      BY <1>3, <1>6, <3>1
  <2> HIDE DEF known, id
  <2> QED
    BY <1>3, <1>6, <2>1
<1> HIDE DEF known, id, new
<1>8. history' \subseteq (1..Len(known)) \X (1..Len(known))
  <2>1. history \subseteq (1..Len(names)) \X (1..Len(names))
    BY <1>2 DEF TypeInv
  <2>2. 1..Len(names) \subseteq 1..Len(known)
    BY <1>3
  <2> QED
    BY <1>1, <1>7, <2>1, <2>2
<1>9. /\ stack'[t] = Append(stack[t], id) /\ waiting'[t] = lock
      /\ \A u \in Threads \ {t} : stack'[u] = stack[u] /\ waiting'[u] = waiting[u]
      /\ stack' \in [Threads -> Seq(Nat)]
      /\ waiting' \in [Threads -> Locks \union {None}]
  <2>1. Append(stack[t], id) \in Seq(Nat)
    BY <1>3, <1>4, AppendFacts
  <2> QED
    BY <1>1, <1>2, <2>1 DEF TypeInv
<1>10. crashed' \in {"no", "cycle"}
  BY <1>1, Zenon
<1>11. TypeInv'
  BY <1>1, <1>2, <1>3, <1>8, <1>9, <1>10 DEF TypeInv
<1>12. ASSUME NEW u \in Threads PROVE StackNames(u)'
  <2>1. CASE u # t
    <3>1. StackNames(u) /\ held[u] \in Seq(Locks) /\ stack[u] \in Seq(Nat)
      BY <1>2 DEF ThreadsInv, TypeInv
    <3>2. Len(held[u]) + 1 \in 1..Len(stack[u]) \/ waiting[u] = None
      BY <3>1 DEF StackNames
    <3>3. \A i \in 1..Len(held[u]) : i \in 1..Len(stack[u])
      BY <3>1 DEF StackNames
    <3>4. \A i \in 1..Len(stack[u]) :
             /\ stack[u][i] \in 1..Len(names) /\ stack[u][i] \in 1..Len(known)
             /\ known[stack[u][i]] = names[stack[u][i]]
      BY <1>3, <3>1 DEF StackNames
    <3> QED
      BY <1>1, <1>9, <2>1, <3>1, <3>2, <3>3, <3>4 DEF StackNames
  <2>2. CASE u = t
    <3>1. StackNames(t)
      BY <1>2 DEF ThreadsInv
    <3>2. /\ Len(stack'[t]) = Len(stack[t]) + 1 /\ stack'[t][Len(stack[t]) + 1] = id
          /\ \A i \in 1..Len(stack[t]) : stack'[t][i] = stack[t][i]
      BY <1>3, <1>4, <1>9, AppendFacts
    <3>3. \A i \in 1..Len(stack[t]) :
             /\ stack[t][i] \in 1..Len(names) /\ stack[t][i] \in 1..Len(known)
             /\ known[stack[t][i]] = names[stack[t][i]]
      BY <1>3, <3>1 DEF StackNames
    <3>4. \A i \in 1..Len(stack'[t]) : stack'[t][i] \in 1..Len(known)
      <4> TAKE i \in 1..Len(stack'[t])
      <4>1. i \in 1..Len(stack[t]) \/ i = Len(stack[t]) + 1
        BY <1>4, <3>2
      <4> QED
        BY <1>3, <3>2, <3>3, <4>1
    <3>5. \A i \in 1..Len(held[t]) : known[stack'[t][i]] = NameOf(held[t][i])
      BY <1>5, <3>1, <3>2, <3>3 DEF StackNames
    <3>6. known[stack'[t][Len(held[t]) + 1]] = NameOf(lock) /\ lock # None
      BY <1>3, <1>5, <3>2, NoneAssumption
    <3> QED
      BY <1>1, <1>5, <1>9, <2>2, <3>2, <3>4, <3>5, <3>6 DEF StackNames
  <2> QED
    BY <2>1, <2>2
<1>13. ASSUME NEW u \in Threads PROVE StackOrdered(u)'
  <2>1. StackOrdered(u) /\ history \subseteq history'
    BY <1>1, <1>2 DEF ThreadsInv
  <2>2. CASE u # t
    BY <1>9, <2>1, <2>2 DEF StackOrdered
  <2>3. CASE u = t
    <3>1. /\ Len(stack'[t]) = Len(stack[t]) + 1 /\ stack'[t][Len(stack[t]) + 1] = id
          /\ \A i \in 1..Len(stack[t]) : stack'[t][i] = stack[t][i]
      BY <1>3, <1>4, <1>9, AppendFacts
    <3>2. ASSUME NEW i \in 1..Len(stack'[t]) - 1, stack'[t][i] # stack'[t][i + 1]
          PROVE  <<stack'[t][i], stack'[t][i + 1]>> \in history'
      <4>1. CASE i \in 1..Len(stack[t]) - 1
        <5>1. i \in 1..Len(stack[t]) /\ i + 1 \in 1..Len(stack[t])
          BY <1>4, <4>1
        <5> QED
          BY <2>1, <2>3, <3>1, <3>2, <4>1, <5>1 DEF StackOrdered
      <4>2. CASE i = Len(stack[t])
        <5>1. stack[t] # <<>> /\ i \in 1..Len(stack[t])
          BY <1>4, <4>2
        <5>2. stack'[t][i] = stack[t][i] /\ stack'[t][i + 1] = id
          BY <3>1, <4>2, <5>1
        <5>3. <<stack[t][i], id>> \in new
          BY <1>7, <3>2, <4>2, <5>1, <5>2
        <5> QED
          BY <1>1, <5>2, <5>3
      <4> QED
        BY <1>4, <3>1, <4>1, <4>2
    <3> QED
      BY <2>3, <3>2 DEF StackOrdered
  <2> QED
    BY <2>2, <2>3
<1>14. ThreadsInv'
  BY <1>1, <1>2, <1>12, <1>13 DEF ThreadsInv, Exclusive
<1>15. CyclesReported'
  <2>1. history' = history \/ ~CheckCycle(history', Len(known)) \/ crashed' # "no"
    BY <1>1
  <2>2. \A C \in SUBSET (1..Len(names)) : ~Circle(history, C)
    BY <1>1, <1>2, CyclesReportedAs DEF TypeInv
  <2>3. ASSUME crashed' = "no"
        PROVE  \A C \in SUBSET (1..Len(known)) : ~Circle(history', C)
    <3>1. history \subseteq (1..Len(names)) \X (1..Len(names))
      BY <1>2 DEF TypeInv
    <3> QED
      BY <1>3, <1>8, <2>1, <2>2, <2>3, <3>1, NoCycleYet
  <2>4. DOMAIN names' = 1..Len(known)
    BY <1>1, <1>3
  <2> QED
    BY <2>3, <2>4 DEF CyclesReported, Cyclic, Circle
<1>16. ReportNeedsChain'
  <2> SUFFICES ASSUME crashed' = "cycle" PROVE Chain(history')
    BY DEF ReportNeedsChain, Chain
  <2>1. CheckCycle(history', Len(known))
    BY <1>1
  <2>2. Graph(history', Len(known)) /\ IsFiniteSet(history')
    BY <1>3, <1>8, HistoryGraph
  <2> QED
    BY <2>1, <2>2, AlarmNeedsChain
<1> QED
  BY <1>11, <1>14, <1>15, <1>16 DEF IInv

\* The thread that acquires has the lock then, and nobody else does.
LEMMA AcquireKeeps ==
    ASSUME IInv, NEW t \in Threads, Acquire(t)
    PROVE  IInv'
<1>1. /\ crashed = "no" /\ waiting[t] # None
      /\ \A u \in Threads \ {t} : waiting[t] \notin Range(held[u])
      /\ held' = [held EXCEPT ![t] = Append(held[t], waiting[t])]
      /\ waiting' = [waiting EXCEPT ![t] = None]
      /\ names' = names /\ history' = history /\ stack' = stack /\ crashed' = crashed
  BY DEF Acquire
<1>2. TypeInv /\ ThreadsInv /\ CyclesReported /\ ReportNeedsChain
  BY DEF IInv
<1>3. /\ held[t] \in Seq(Locks) /\ Len(held[t]) \in Nat /\ waiting[t] \in Locks
      /\ stack[t] \in Seq(Nat) /\ Len(stack[t]) \in Nat
  BY <1>1, <1>2 DEF TypeInv
<1>4. /\ held'[t] = Append(held[t], waiting[t]) /\ waiting'[t] = None
      /\ \A u \in Threads \ {t} : held'[u] = held[u] /\ waiting'[u] = waiting[u]
      /\ held' \in [Threads -> Seq(Locks)]
      /\ waiting' \in [Threads -> Locks \union {None}]
  <2>1. Append(held[t], waiting[t]) \in Seq(Locks)
    BY <1>3, AppendFacts
  <2> QED
    BY <1>1, <1>2, <2>1 DEF TypeInv
<1>5. TypeInv'
  BY <1>1, <1>2, <1>4 DEF TypeInv
<1>6. ASSUME NEW u \in Threads PROVE StackNames(u)'
  <2>1. StackNames(u)
    BY <1>2 DEF ThreadsInv
  <2>2. CASE u # t
    BY <1>1, <1>4, <2>1, <2>2 DEF StackNames
  <2>3. CASE u = t
    <3>1. /\ Len(held'[t]) = Len(held[t]) + 1 /\ held'[t][Len(held[t]) + 1] = waiting[t]
          /\ \A i \in 1..Len(held[t]) : held'[t][i] = held[t][i]
      BY <1>3, <1>4, AppendFacts
    <3>2. ASSUME NEW i \in 1..Len(held'[t])
          PROVE  names[stack[t][i]] = NameOf(held'[t][i])
      <4>1. i \in 1..Len(held[t]) \/ i = Len(held[t]) + 1
        BY <1>3, <3>1
      <4> QED
        BY <1>1, <2>1, <2>3, <3>1, <4>1 DEF StackNames
    <3>3. Len(stack[t]) = Len(held'[t])
      BY <1>1, <2>1, <2>3, <3>1 DEF StackNames
    <3> QED
      BY <1>1, <1>4, <2>1, <2>3, <3>2, <3>3 DEF StackNames
  <2> QED
    BY <2>2, <2>3
<1>7. \A u \in Threads : StackOrdered(u)'
  BY <1>1, <1>2 DEF ThreadsInv, StackOrdered
<1>8. ASSUME NEW u \in Threads, NEW v \in Threads, u # v
      PROVE  Exclusive(u, v)'
  <2>1. Range(held'[t]) = Range(held[t]) \union {waiting[t]}
    BY <1>3, <1>4, RangeAppend
  <2>2. Exclusive(u, v)
    BY <1>2, <1>8 DEF ThreadsInv
  <2>3. CASE u = t
    <3>1. held'[v] = held[v] /\ waiting[t] \notin Range(held[v])
      BY <1>1, <1>4, <1>8, <2>3
    <3> QED
      BY <2>1, <2>2, <2>3, <3>1 DEF Exclusive
  <2>4. CASE v = t
    <3>1. held'[u] = held[u] /\ waiting[t] \notin Range(held[u])
      BY <1>1, <1>4, <1>8, <2>4
    <3> QED
      BY <2>1, <2>2, <2>4, <3>1 DEF Exclusive
  <2>5. CASE u # t /\ v # t
    BY <1>4, <2>2, <2>5 DEF Exclusive
  <2> QED
    BY <2>3, <2>4, <2>5
<1>9. ThreadsInv'
  BY <1>6, <1>7, <1>8 DEF ThreadsInv
<1>10. CyclesReported' /\ ReportNeedsChain'
  BY <1>1, <1>2 DEF CyclesReported, Cyclic, ReportNeedsChain
<1> QED
  BY <1>5, <1>9, <1>10 DEF IInv

\* The front of a sequence.
LEMMA FrontFacts ==
    ASSUME NEW S, NEW s \in Seq(S), s # <<>>
    PROVE  /\ Front(s) \in Seq(S) /\ Len(Front(s)) = Len(s) - 1 /\ Len(s) \in Nat \ {0}
           /\ \A i \in 1..Len(s) - 1 : Front(s)[i] = s[i]
           /\ Last(s) = s[Len(s)] /\ Range(Front(s)) \subseteq Range(s)
<1>1. Len(s) \in Nat /\ Len(s) # 0
  OBVIOUS
<1> DEFINE n == Len(s) - 1
<1>2. /\ Front(s) \in Seq(S) /\ Len(Front(s)) = Len(s) - 1
      /\ \A i \in 1..Len(s) - 1 : Front(s)[i] = s[i]
  <2>1. n \in Nat /\ \A i \in 1..n : s[i] \in S
    BY <1>1
  <2>2. Front(s) = SubSeq(s, 1, n)
    BY DEF Front
  <2> HIDE DEF n
  <2>3. Front(s) \in Seq(S) /\ Len(Front(s)) = n /\ \A i \in 1..n : Front(s)[i] = s[i]
    BY <2>1, <2>2, SubSeqProperties
  <2> QED
    BY <2>3 DEF n
<1>3. DOMAIN Front(s) = 1..Len(s) - 1 /\ DOMAIN s = 1..Len(s)
  BY <1>2
<1>4. Range(Front(s)) \subseteq Range(s)
  BY <1>1, <1>2, <1>3 DEF Range
<1> QED
  BY <1>1, <1>2, <1>4 DEF Last

\* The guard that goes is the one that was pushed last, so its id is on top.
LEMMA PopLockKeeps ==
    ASSUME IInv, NEW t \in Threads, PopLock(t)
    PROVE  IInv'
<1>1. TypeInv /\ ThreadsInv /\ CyclesReported /\ ReportNeedsChain
  BY DEF IInv
<1>2. waiting[t] = None /\ held[t] # <<>> /\ crashed = "no"
  BY DEF PopLock
<1>3. /\ held[t] \in Seq(Locks) /\ stack[t] \in Seq(Nat) /\ names \in Seq(Names)
      /\ DOMAIN names = 1..Len(names)
  BY <1>1 DEF TypeInv
<1>4. StackNames(t)
  BY <1>1 DEF ThreadsInv
<1>5. /\ Len(held[t]) \in Nat \ {0} /\ Last(held[t]) = held[t][Len(held[t])]
      /\ Len(stack[t]) = Len(held[t]) /\ stack[t] # <<>>
  <2>1. Len(held[t]) \in Nat \ {0} /\ Last(held[t]) = held[t][Len(held[t])]
    BY <1>2, <1>3, FrontFacts
  <2>2. Len(stack[t]) = Len(held[t])
    BY <1>2, <1>4 DEF StackNames
  <2>3. Len(<<>>) = 0
    OBVIOUS
  <2> QED
    BY <2>1, <2>2, <2>3
<1>6. Last(stack[t]) = stack[t][Len(held[t])]
  BY <1>3, <1>5, FrontFacts
<1>7. /\ Last(stack[t]) \in 1..Len(names)
      /\ names[Last(stack[t])] = NameOf(Last(held[t]))
  BY <1>4, <1>5, <1>6 DEF StackNames
<1>8. IdIn(names, NameOf(Last(held[t]))) = Last(stack[t])
  <2> DEFINE name == NameOf(Last(held[t]))
             top == Last(stack[t])
  <2>1. \A i, j \in 1..Len(names) : names[i] = names[j] => i = j
    BY <1>1 DEF TypeInv
  <2>2. top \in DOMAIN names /\ names[top] = name
    BY <1>3, <1>7
  <2> HIDE DEF name, top
  <2>3. IdIn(names, name) \in DOMAIN names /\ names[IdIn(names, name)] = name
    BY <2>2 DEF IdIn
  <2>4. IdIn(names, name) = top
    BY <1>3, <2>1, <2>2, <2>3
  <2> QED
    BY <2>4 DEF name, top
<1>9. /\ stack' = [stack EXCEPT ![t] = Front(stack[t])]
      /\ held' = [held EXCEPT ![t] = Front(held[t])]
      /\ names' = names /\ history' = history /\ waiting' = waiting /\ crashed' = crashed
  <2>1. ~(stack[t] = <<>> \/ Last(stack[t]) # IdIn(names, NameOf(Last(held[t]))))
    BY <1>5, <1>8
  <2> QED
    BY <2>1 DEF PopLock
<1>10. /\ Front(held[t]) \in Seq(Locks) /\ Len(Front(held[t])) = Len(held[t]) - 1
       /\ \A i \in 1..Len(held[t]) - 1 : Front(held[t])[i] = held[t][i]
       /\ Range(Front(held[t])) \subseteq Range(held[t])
  BY <1>2, <1>3, FrontFacts
<1>11. /\ Front(stack[t]) \in Seq(Nat) /\ Len(Front(stack[t])) = Len(held[t]) - 1
       /\ \A i \in 1..Len(held[t]) - 1 : Front(stack[t])[i] = stack[t][i]
  BY <1>3, <1>5, FrontFacts
<1>12. /\ held'[t] = Front(held[t]) /\ stack'[t] = Front(stack[t])
       /\ \A u \in Threads \ {t} : held'[u] = held[u] /\ stack'[u] = stack[u]
       /\ held' \in [Threads -> Seq(Locks)] /\ stack' \in [Threads -> Seq(Nat)]
  BY <1>1, <1>9, <1>10, <1>11 DEF TypeInv
<1>13. TypeInv'
  BY <1>1, <1>9, <1>12 DEF TypeInv
<1>14. ASSUME NEW u \in Threads PROVE StackNames(u)' /\ StackOrdered(u)'
  <2>1. StackNames(u) /\ StackOrdered(u)
    BY <1>1 DEF ThreadsInv
  <2>2. CASE u # t
    BY <1>9, <1>12, <2>1, <2>2 DEF StackNames, StackOrdered
  <2>3. CASE u = t
    <3>1. \A i \in 1..Len(held[t]) - 1 :
              i \in 1..Len(stack[t]) /\ i \in 1..Len(held[t])
      BY <1>5
    <3>2. \A i \in 1..Len(held[t]) - 1 :
              stack[t][i] \in 1..Len(names) /\ names[stack[t][i]] = NameOf(held[t][i])
      BY <1>4, <3>1 DEF StackNames
    <3>3. StackNames(t)'
      BY <1>2, <1>9, <1>10, <1>11, <1>12, <3>2 DEF StackNames
    <3>4. ASSUME NEW i \in 1..(Len(held[t]) - 1) - 1, stack'[t][i] # stack'[t][i + 1]
          PROVE  <<stack'[t][i], stack'[t][i + 1]>> \in history'
      <4>1. /\ i \in 1..Len(held[t]) - 1 /\ i + 1 \in 1..Len(held[t]) - 1
            /\ i \in 1..Len(stack[t]) - 1
        BY <1>5
      <4> QED
        BY <1>9, <1>11, <1>12, <2>1, <2>3, <3>4, <4>1 DEF StackOrdered
    <3>5. StackOrdered(t)'
      BY <1>11, <1>12, <3>4 DEF StackOrdered
    <3> QED
      BY <2>3, <3>3, <3>5
  <2> QED
    BY <2>2, <2>3
<1>15. ASSUME NEW u \in Threads, NEW v \in Threads, u # v
       PROVE  Exclusive(u, v)'
  <2>1. Exclusive(u, v)
    BY <1>1, <1>15 DEF ThreadsInv
  <2>2. Range(held'[u]) \subseteq Range(held[u]) /\ Range(held'[v]) \subseteq Range(held[v])
    BY <1>10, <1>12
  <2> QED
    BY <2>1, <2>2 DEF Exclusive
<1>16. ThreadsInv'
  BY <1>14, <1>15 DEF ThreadsInv
<1>17. CyclesReported' /\ ReportNeedsChain'
  BY <1>1, <1>9 DEF CyclesReported, Cyclic, ReportNeedsChain
<1> QED
  BY <1>13, <1>16, <1>17 DEF IInv

\* IInv is an inductive invariant.
THEOREM Invariance == Spec => []IInv
<1>1. Init => IInv
  <2> SUFFICES ASSUME Init PROVE IInv
    OBVIOUS
  <2>1. /\ names = <<>> /\ history = {}
        /\ stack = [t \in Threads |-> <<>>] /\ held = [t \in Threads |-> <<>>]
        /\ waiting = [t \in Threads |-> None] /\ crashed = "no"
    BY DEF Init
  <2>2. \A t \in Threads : stack[t] = <<>> /\ held[t] = <<>> /\ waiting[t] = None
    BY <2>1
  <2>3. /\ <<>> \in Seq(Names) /\ <<>> \in Seq(Nat) /\ <<>> \in Seq(Locks)
        /\ Len(<<>>) = 0 /\ 1..Len(<<>>) = {} /\ 1..Len(<<>>) - 1 = {} /\ Range(<<>>) = {}
    BY DEF Range
  <2>4. TypeInv
    BY <2>1, <2>3 DEF TypeInv
  <2>5. ThreadsInv
    BY <2>2, <2>3 DEF ThreadsInv, StackNames, StackOrdered, Exclusive
  <2>6. CyclesReported /\ ReportNeedsChain
    BY <2>1 DEF CyclesReported, Cyclic, ReportNeedsChain
  <2> QED
    BY <2>4, <2>5, <2>6 DEF IInv
<1>2. IInv /\ [Next]_vars => IInv'
  <2> SUFFICES ASSUME IInv, [Next]_vars PROVE IInv'
    OBVIOUS
  <2>1. CASE UNCHANGED vars
    <3>1. /\ names' = names /\ history' = history /\ stack' = stack /\ held' = held
          /\ waiting' = waiting /\ crashed' = crashed
      BY <2>1 DEF vars
    <3>2. TypeInv'
      BY <3>1 DEF IInv, TypeInv
    <3>3. ThreadsInv'
      BY <3>1 DEF IInv, ThreadsInv, StackNames, StackOrdered, Exclusive
    <3>4. CyclesReported' /\ ReportNeedsChain'
      BY <3>1 DEF IInv, CyclesReported, Cyclic, ReportNeedsChain
    <3> QED
      BY <3>2, <3>3, <3>4 DEF IInv
  <2>2. ASSUME NEW t \in Threads, Acquire(t) PROVE IInv'
    BY <2>2, AcquireKeeps
  <2>3. ASSUME NEW t \in Threads, PopLock(t) PROVE IInv'
    BY <2>3, PopLockKeeps
  <2>4. ASSUME NEW t \in Threads, NEW lock \in Locks, PushLock(t, lock) PROVE IInv'
    BY <2>4, PushLockKeeps
  <2> QED
    BY <2>1, <2>2, <2>3, <2>4 DEF Next
<1> QED
  BY <1>1, <1>2, PTL DEF Spec

-----------------------------------------------------------------------------
(* What follows *)

\* The locks of a thread's guards and the one it waits for have the names that
\* its stack has ids of.
LEMMA NamesWantedStack ==
    ASSUME IInv, NEW t \in Threads
    PROVE  NamesWanted(t) = [i \in DOMAIN stack[t] |-> names[stack[t][i]]]
<1>1. /\ stack[t] \in Seq(Nat) /\ held[t] \in Seq(Locks)
      /\ waiting[t] \in Locks \union {None} /\ StackNames(t)
  BY DEF IInv, TypeInv, ThreadsInv
<1>2. DOMAIN stack[t] = 1..Len(stack[t]) /\ Len(held[t]) \in Nat
  BY <1>1
<1> DEFINE Wanted(locks) == [i \in DOMAIN locks |-> NameOf(locks[i])]
<1>3. ASSUME NEW locks \in Seq(Locks), Len(locks) = Len(stack[t]),
             \A i \in 1..Len(stack[t]) : names[stack[t][i]] = NameOf(locks[i])
      PROVE  Wanted(locks) = [i \in DOMAIN stack[t] |-> names[stack[t][i]]]
  BY <1>2, <1>3
<1>4. CASE waiting[t] = None
  <2>1. NamesWanted(t) = Wanted(held[t] \o <<>>)
    BY <1>4, Zenon DEF NamesWanted
  <2>2. held[t] \o <<>> = held[t]
    BY <1>1
  <2>3. /\ Len(held[t]) = Len(stack[t])
        /\ \A i \in 1..Len(stack[t]) : names[stack[t][i]] = NameOf(held[t][i])
    BY <1>1, <1>4 DEF StackNames
  <2> HIDE DEF Wanted
  <2> QED
    BY <1>1, <1>3, <2>1, <2>2, <2>3
<1>5. CASE waiting[t] # None
  <2> DEFINE locks == held[t] \o <<waiting[t]>>
  <2>1. NamesWanted(t) = Wanted(locks)
    BY <1>5, Zenon DEF NamesWanted
  <2>2. waiting[t] \in Locks
    BY <1>1, <1>5
  <2>3. /\ locks \in Seq(Locks) /\ Len(locks) = Len(held[t]) + 1
        /\ locks[Len(held[t]) + 1] = waiting[t]
        /\ \A i \in 1..Len(held[t]) : locks[i] = held[t][i]
    BY <1>1, <2>2
  <2>4. /\ Len(locks) = Len(stack[t])
        /\ \A i \in 1..Len(held[t]) : names[stack[t][i]] = NameOf(locks[i])
        /\ names[stack[t][Len(held[t]) + 1]] = NameOf(locks[Len(held[t]) + 1])
    BY <1>1, <1>5, <2>3 DEF StackNames
  <2>5. \A i \in 1..Len(stack[t]) : i \in 1..Len(held[t]) \/ i = Len(held[t]) + 1
    BY <1>2, <2>3, <2>4
  <2> HIDE DEF Wanted, locks
  <2> QED
    BY <1>3, <2>1, <2>3, <2>4, <2>5
<1> QED
  BY <1>4, <1>5

\* Types; PopLock never meets an unlock it does not expect.
THEOREM TypeCorrect == Spec => []TypeOK
<1>1. IInv => TypeOK
  <2> SUFFICES ASSUME IInv PROVE TypeOK
    OBVIOUS
  <2>1. TypeInv /\ DOMAIN names = 1..Len(names)
    BY DEF IInv, TypeInv
  <2>2. waiting \in [Threads -> Locks \union {None}] /\ crashed \in {"no", "cycle"}
    BY <2>1 DEF TypeInv
  <2>3. history \subseteq (DOMAIN names) \X (DOMAIN names)
    BY <2>1 DEF TypeInv
  <2>4. \A i, j \in DOMAIN names : i # j => names[i] # names[j]
    BY <2>1 DEF TypeInv
  <2> QED
    BY <2>2, <2>3, <2>4, NamesWantedStack DEF TypeOK
<1> QED
  BY <1>1, Invariance, PTL

\* The search, whenever it is made, misses no cycle.
THEOREM NoCycleGoesOn == Spec => []CyclesReported
<1>1. IInv => CyclesReported
  BY DEF IInv
<1> QED
  BY <1>1, Invariance, PTL

\* Without a lock that was taken under one and held for another there is no report.
THEOREM ReportsNeedChain == Spec => []ReportNeedsChain
<1>1. IInv => ReportNeedsChain
  BY DEF IInv
<1> QED
  BY <1>1, Invariance, PTL

\* An id below the top of a stack, if another one is on top, has a successor there.
LEMMA Climbs ==
    ASSUME IInv, NEW t \in Threads, NEW i \in 1..Len(stack[t]),
           stack[t][i] # stack[t][Len(stack[t])]
    PROVE  \E j \in 1..Len(stack[t]) : <<stack[t][i], stack[t][j]>> \in history
<1> DEFINE Others == {j \in i..Len(stack[t]) : stack[t][j] # stack[t][i]}
<1>1. Len(stack[t]) \in Nat /\ StackOrdered(t)
  BY DEF IInv, TypeInv, ThreadsInv
<1>2. Others \subseteq Nat /\ Others # {}
  BY <1>1
<1>3. PICK j \in Others : \A k \in Others : j <= k
  <2> HIDE DEF Others
  <2> QED
    BY <1>2, LeastNumber
<1>4. j # i /\ j - 1 \in i..Len(stack[t]) /\ ~(j <= j - 1)
  BY <1>1, <1>3
<1>5. stack[t][j - 1] = stack[t][i]
  BY <1>3, <1>4
<1>6. /\ j - 1 \in 1..Len(stack[t]) - 1 /\ j \in 1..Len(stack[t]) /\ (j - 1) + 1 = j
      /\ stack[t][j] # stack[t][i]
  BY <1>1, <1>3, <1>4
<1>7. <<stack[t][i], stack[t][j]>> \in history
  BY <1>1, <1>5, <1>6 DEF StackOrdered
<1> QED
  BY <1>6, <1>7

\* The id on top of the stack of a thread that waits.
LEMMA TopOfStack ==
    ASSUME IInv, NEW t \in Threads, waiting[t] # None
    PROVE  /\ Len(stack[t]) \in 1..Len(stack[t])
           /\ stack[t][Len(stack[t])] \in 1..Len(names)
           /\ names[stack[t][Len(stack[t])]] = NameOf(waiting[t])
  BY DEF IInv, TypeInv, ThreadsInv, StackNames

\* The id of a lock that a thread has, on its stack.
LEMMA OwnedOnStack ==
    ASSUME IInv, NEW t \in Threads, NEW lock, Owns(t, lock)
    PROVE  \E i \in 1..Len(stack[t]) :
               stack[t][i] \in 1..Len(names) /\ names[stack[t][i]] = NameOf(lock)
<1>1. /\ StackNames(t) /\ held[t] \in Seq(Locks) /\ Len(held[t]) \in Nat
      /\ Len(stack[t]) \in Nat
  BY DEF IInv, TypeInv, ThreadsInv
<1>2. PICK i \in 1..Len(held[t]) : held[t][i] = lock
  BY <1>1 DEF Owns, Range
<1>3. i \in 1..Len(stack[t])
  BY <1>1, <1>2 DEF StackNames
<1> QED
  BY <1>1, <1>2, <1>3 DEF StackNames

\* Threads that wait for each other, none of them for a second lock of a name it
\* has already, make a cycle of the ids on their stacks.
LEMMA DeadlockIsCycle ==
    ASSUME IInv, NEW D \in SUBSET Threads, D # {}, Deadlocked(D),
           \A t \in D : \A lock \in Range(held[t]) :
               NameOf(lock) = NameOf(waiting[t]) => lock = waiting[t]
    PROVE  \E C \in SUBSET (1..Len(names)) : Circle(history, C)
<1> DEFINE On(t) == {stack[t][i] : i \in 1..Len(stack[t])}
           C == UNION {On(t) : t \in D}
<1>1. C \in SUBSET (1..Len(names))
  BY DEF IInv, ThreadsInv, StackNames
<1>2. ASSUME NEW t \in D
      PROVE  waiting[t] # None /\ \E u \in D \ {t} : Owns(u, waiting[t])
  BY DEF Deadlocked
<1>3. C # {}
  <2>1. PICK t \in D : TRUE
    OBVIOUS
  <2>2. stack[t][Len(stack[t])] \in On(t)
    BY <1>2, TopOfStack
  <2> QED
    BY <2>2
<1>4. ASSUME NEW t \in D, NEW i \in 1..Len(stack[t]),
             stack[t][i] # stack[t][Len(stack[t])]
      PROVE  \E y \in C : <<stack[t][i], y>> \in history
  <2>1. PICK j \in 1..Len(stack[t]) : <<stack[t][i], stack[t][j]>> \in history
    BY <1>4, Climbs
  <2>2. stack[t][j] \in On(t)
    OBVIOUS
  <2> QED
    BY <2>1, <2>2
<1>5. ASSUME NEW t \in D
      PROVE  \E y \in C : <<stack[t][Len(stack[t])], y>> \in history
  <2> DEFINE top == stack[t][Len(stack[t])]
  <2>1. PICK u \in D \ {t} : Owns(u, waiting[t])
    BY <1>2
  <2>2. PICK i \in 1..Len(stack[u]) :
            stack[u][i] \in 1..Len(names) /\ names[stack[u][i]] = NameOf(waiting[t])
    BY <2>1, OwnedOnStack
  <2>3. top \in 1..Len(names) /\ names[top] = NameOf(waiting[t])
    BY <1>2, TopOfStack
  <2>4. stack[u][i] = top
    <3> HIDE DEF top
    <3> QED
      BY <2>2, <2>3 DEF IInv, TypeInv
  <2>5. stack[u][i] # stack[u][Len(stack[u])]
    <3> SUFFICES ASSUME stack[u][i] = stack[u][Len(stack[u])] PROVE FALSE
      OBVIOUS
    <3>1. NameOf(waiting[u]) = NameOf(waiting[t])
      BY <1>2, <2>1, <2>2, TopOfStack
    <3>2. waiting[t] = waiting[u]
      BY <2>1, <3>1 DEF Owns
    <3>3. PICK v \in D \ {u} : Owns(v, waiting[u])
      BY <1>2, <2>1
    <3>4. Exclusive(u, v)
      BY <2>1, <3>3 DEF IInv, ThreadsInv
    <3> QED
      BY <2>1, <3>2, <3>3, <3>4 DEF Exclusive, Owns
  <2> QED
    BY <1>4, <2>1, <2>2, <2>4, <2>5
<1>6. ASSUME NEW x \in C PROVE \E y \in C : <<x, y>> \in history
  <2>1. PICK t \in D : x \in On(t)
    OBVIOUS
  <2>2. PICK i \in 1..Len(stack[t]) : x = stack[t][i]
    BY <2>1
  <2> QED
    BY <1>4, <1>5, <2>2
<1> HIDE DEF C
<1> QED
  BY <1>1, <1>3, <1>6 DEF Circle

\* A deadlock is reported before or when it happens, unless a thread waits for a
\* second lock of one name.
THEOREM DeadlocksFound == Spec => []DeadlocksReported
<1>1. IInv => DeadlocksReported
  <2> SUFFICES ASSUME IInv PROVE DeadlocksReported
    OBVIOUS
  <2>1. CyclesReported /\ names \in Seq(Names)
    BY DEF IInv, TypeInv
  <2>2. ASSUME NEW D \in SUBSET Threads, crashed = "no", D # {}, Deadlocked(D),
               \A t \in D : \A lock \in Range(held[t]) :
                   NameOf(lock) = NameOf(waiting[t]) => lock = waiting[t]
        PROVE  FALSE
    BY <2>1, <2>2, DeadlockIsCycle, CyclesReportedAs
  <2> QED
    BY <2>1, <2>2 DEF DeadlocksReported, SilentDeadlockSharesName
<1> QED
  BY <1>1, Invariance, PTL
=============================================================================
