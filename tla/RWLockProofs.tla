---------------------------- MODULE RWLockProofs ----------------------------
(***************************************************************************)
(* Proofs about RWLock for any finite set of threads, any spin budget and  *)
(* any nesting depth: type correctness, the safety properties of RWLock,   *)
(* and, when no writer spins out, that the lock implements RWExclusion.    *)
(***************************************************************************)
EXTENDS RWLock, FiniteSetTheorems, TLAPS

\* A thread that is about to nest a guard has room for it.
NestRoom ==
    \A t \in Threads :
        /\ pc[t] \in {"wcas", "wincr", "wincrst"} => wHeld[t] < MaxNest
        /\ pc[t] \in {"wdec", "wdecst"} => wHeld[t] < MaxNest
        /\ pc[t] \in {"rload", "rcas"} => rHeld[t] < MaxNest

TypeInv == TypeOK /\ NestRoom

\* The word has an owner exactly while that thread is in its write section.
OwnerInv == \A t \in Threads : owner = t <=> InWriteSection(t)

\* The low half of the word counts the read guards, and under an owner only
\* the owner has any; a thread acquiring or releasing the write lock has none.
ReaderInv ==
    /\ readers = Cardinality(ReadGuards)
    /\ \A t, u \in Threads : owner = t /\ u # t => rHeld[u] = 0
    /\ \A t \in Threads :
        pc[t] \in {"wcas", "wincr", "wincrst", "wdec", "wdecst", "wfree"} => rHeld[t] = 0

\* _writeCount is the owner's nesting depth, up to the ++ or -- in progress.
CountInv ==
    /\ owner = NoOwner => writeCount = 0
    /\ \A t \in Threads :
        /\ owner = t /\ pc[t] \notin {"wdec", "wdecst"} => writeCount = wHeld[t]
        /\ pc[t] \in {"wdec", "wdecst"} => writeCount = wHeld[t] + 1
        /\ pc[t] \in {"wincrst", "wdecst"} => tmp[t] = writeCount
        /\ pc[t] = "wfree" => wHeld[t] = 0

LockInv == OwnerInv /\ ReaderInv /\ CountInv /\ NoFalseAlarmUnlessBarged

\* The inductive invariant: nothing is claimed once a writer has spun out.
IInv == TypeInv /\ (barges = 0 => LockInv)

-----------------------------------------------------------------------------
(* Counting read guards. *)

\* The read guards of finitely many threads are finitely many.
LEMMA GuardsFinite ==
    ASSUME NEW held \in [Threads -> 0 .. MaxNest]
    PROVE  /\ IsFiniteSet(GuardsOf(held))
           /\ Cardinality(GuardsOf(held)) \in Nat
<1>1. IsFiniteSet(1 .. MaxNest)
  BY FS_Interval, NestAssumption
<1>2. IsFiniteSet(Threads \X (1 .. MaxNest))
  BY <1>1, FS_Product, ThreadsAssumption
<1>3. GuardsOf(held) \in SUBSET (Threads \X (1 .. MaxNest))
  BY DEF GuardsOf
<1>4. IsFiniteSet(GuardsOf(held))
  BY <1>2, <1>3, FS_Subset
<1> QED
  BY <1>4, FS_CardinalityType

\* The count is zero exactly when no thread is inside a read guard.
LEMMA GuardsNone ==
    ASSUME NEW held \in [Threads -> 0 .. MaxNest]
    PROVE  Cardinality(GuardsOf(held)) = 0 <=> \A t \in Threads : held[t] = 0
<1>1. ASSUME NEW t \in Threads, held[t] # 0
      PROVE  <<t, 1>> \in GuardsOf(held)
  BY <1>1, NestAssumption DEF GuardsOf
<1>2. ASSUME \A t \in Threads : held[t] = 0
      PROVE  GuardsOf(held) = {}
  BY <1>2 DEF GuardsOf
<1> QED
  BY <1>1, <1>2, GuardsFinite, FS_EmptySet

\* One more guard of a thread counts one more.
LEMMA GuardsAdd ==
    ASSUME NEW held \in [Threads -> 0 .. MaxNest],
           NEW t \in Threads, held[t] < MaxNest
    PROVE  Cardinality(GuardsOf([held EXCEPT ![t] = @ + 1]))
               = Cardinality(GuardsOf(held)) + 1
<1> DEFINE g == <<t, held[t] + 1>>
<1>1. g \notin GuardsOf(held)
  BY DEF GuardsOf
<1>2. GuardsOf([held EXCEPT ![t] = @ + 1]) = GuardsOf(held) \cup {g}
  <2>1. ASSUME NEW x \in Threads \X (1 .. MaxNest)
        PROVE  x[2] <= [held EXCEPT ![t] = @ + 1][x[1]] <=> x[2] <= held[x[1]] \/ x = g
    BY NestAssumption
  <2>2. g \in Threads \X (1 .. MaxNest)
    BY NestAssumption
  <2> HIDE DEF g
  <2> QED
    BY <2>1, <2>2 DEF GuardsOf
<1> HIDE DEF g
<1> QED
  BY <1>1, <1>2, GuardsFinite, FS_AddElement

\* One guard less of a thread counts one less.
LEMMA GuardsDrop ==
    ASSUME NEW held \in [Threads -> 0 .. MaxNest],
           NEW t \in Threads, held[t] > 0
    PROVE  Cardinality(GuardsOf([held EXCEPT ![t] = @ - 1]))
               = Cardinality(GuardsOf(held)) - 1
<1> DEFINE less == [held EXCEPT ![t] = @ - 1]
<1>1. /\ less \in [Threads -> 0 .. MaxNest]
      /\ less[t] < MaxNest
      /\ [less EXCEPT ![t] = @ + 1] = held
  <2>1. less \in [Threads -> 0 .. MaxNest] /\ less[t] < MaxNest
    BY NestAssumption
  <2>2. ASSUME NEW u \in Threads
        PROVE  [less EXCEPT ![t] = @ + 1][u] = held[u]
    BY NestAssumption
  <2>3. [less EXCEPT ![t] = @ + 1] = [u \in Threads |-> [less EXCEPT ![t] = @ + 1][u]]
    OBVIOUS
  <2>4. held = [u \in Threads |-> held[u]]
    OBVIOUS
  <2> QED
    BY <2>1, <2>2, <2>3, <2>4, Zenon
<1>2. Cardinality(GuardsOf(held)) = Cardinality(GuardsOf(less)) + 1
  BY <1>1, GuardsAdd
<1> QED
  BY <1>1, <1>2, GuardsFinite

\* A remainder is below its modulus.
LEMMA ModRange ==
    ASSUME NEW c \in Nat, NEW m \in Nat \ {0}
    PROVE  c % m \in 0 .. m - 1
  BY SMT

\* ++ of a uint16 stays a uint16, and adds one below the limit.
LEMMA IncrArithmetic ==
    ASSUME NEW c \in Nat
    PROVE  /\ Incremented(c) \in 0 .. CountWidth - 1
           /\ c + 1 < CountWidth => Incremented(c) = c + 1
<1>1. CountWidth \in Nat \ {0}
  BY SMT DEF CountWidth
<1>2. Incremented(c) \in 0 .. CountWidth - 1
  BY <1>1, ModRange DEF Incremented
<1>3. ASSUME c + 1 < CountWidth PROVE Incremented(c) = c + 1
  BY <1>3, SMT DEF CountWidth, Incremented
<1> QED
  BY <1>2, <1>3

\* -- of a uint16 stays a uint16, and takes one away from what is not zero.
LEMMA DecrArithmetic ==
    ASSUME NEW c \in Nat
    PROVE  /\ Decremented(c) \in 0 .. CountWidth - 1
           /\ c > 0 /\ c < CountWidth => Decremented(c) = c - 1
<1>1. CountWidth \in Nat \ {0}
  BY SMT DEF CountWidth
<1>2. Decremented(c) \in 0 .. CountWidth - 1
  BY <1>1, ModRange DEF Decremented
<1>3. ASSUME c > 0, c < CountWidth PROVE Decremented(c) = c - 1
  BY <1>3, SMT DEF CountWidth, Decremented
<1> QED
  BY <1>2, <1>3

\* The spin counter of ReadLock starts over within its range.
LEMMA SpinRange ==
    ASSUME NEW s \in 0 .. MaxSpin
    PROVE  (s + 1) % MaxSpin \in 0 .. MaxSpin
<1>1. s + 1 \in Nat /\ MaxSpin \in Nat \ {0}
  BY SpinAssumption
<1>2. (s + 1) % MaxSpin \in 0 .. MaxSpin - 1
  BY <1>1, ModRange
<1> QED
  BY <1>1, <1>2

-----------------------------------------------------------------------------
(* Type correctness. *)

LEMMA TypeInit == Init => TypeInv
  BY NestAssumption, SpinAssumption, SMT
     DEF Init, TypeInv, TypeOK, NestRoom, Labels, Crashes, CountWidth

\* Every action keeps the types, and keeps room for the guard being taken.
LEMMA TypeStep == TypeInv /\ [Next]_vars => TypeInv'
<1> SUFFICES ASSUME TypeInv, [Next]_vars
             PROVE  TypeInv'
  OBVIOUS
<1> USE NestAssumption, SpinAssumption
        DEF TypeInv, TypeOK, NestRoom, Labels, Crashes, At, Goto, Crash,
            shared, guards, ghosts
<1>0. ASSUME NEW cause \in Crashes, Crash(cause)
      PROVE  TypeInv'
  BY <1>0
<1>1. ASSUME NEW t \in Threads, WriteLock(t)
      PROVE  TypeInv'
  BY <1>1 DEF WriteLock
<1>2. ASSUME NEW t \in Threads, WriteCasWins(t)
      PROVE  TypeInv'
  BY <1>2 DEF WriteCasWins
<1>3. ASSUME NEW t \in Threads, WriteCasFails(t)
      PROVE  TypeInv'
  BY <1>3 DEF WriteCasFails
<1>4. ASSUME NEW t \in Threads, WriteSpinOut(t)
      PROVE  TypeInv'
  <2>1. CASE Crash("WriteLock Timeout")
    BY <1>0, <2>1
  <2>2. CASE /\ barges < MaxBarge
             /\ barges' = barges + 1
             /\ Goto(t, "idle")
             /\ wHeld' = [wHeld EXCEPT ![t] = @ + 1]
             /\ UNCHANGED <<shared, tmp, spins, rHeld, crashed>>
    BY <1>4, <2>2 DEF WriteSpinOut
  <2> QED
    BY <1>4, <2>1, <2>2 DEF WriteSpinOut
<1>5. ASSUME NEW t \in Threads, WriteIncr(t)
      PROVE  TypeInv'
  BY <1>5 DEF WriteIncr
<1>6. ASSUME NEW t \in Threads, WriteIncrStore(t)
      PROVE  TypeInv'
  BY <1>6, IncrArithmetic DEF WriteIncrStore
<1>7. ASSUME NEW t \in Threads, WriteUnlock(t)
      PROVE  TypeInv'
  <2>1. CASE readers # 0
    BY <1>0, <1>7, <2>1 DEF WriteUnlock
  <2>2. CASE readers = 0
    BY <1>7, <2>2 DEF WriteUnlock
  <2> QED
    BY <2>1, <2>2
<1>8. ASSUME NEW t \in Threads, WriteDecr(t)
      PROVE  TypeInv'
  BY <1>8 DEF WriteDecr
<1>9. ASSUME NEW t \in Threads, WriteDecrStore(t)
      PROVE  TypeInv'
  BY <1>9, DecrArithmetic DEF WriteDecrStore
<1>10. ASSUME NEW t \in Threads, WriteFree(t)
       PROVE  TypeInv'
  BY <1>10 DEF WriteFree
<1>11. ASSUME NEW t \in Threads, ReadLock(t)
       PROVE  TypeInv'
  BY <1>11 DEF ReadLock
<1>12. ASSUME NEW t \in Threads, ReadLoad(t)
       PROVE  TypeInv'
  BY <1>12 DEF ReadLoad
<1>13. ASSUME NEW t \in Threads, ReadCasWins(t)
       PROVE  TypeInv'
  BY <1>13 DEF ReadCasWins
<1>14. ASSUME NEW t \in Threads, ReadCasFails(t)
       PROVE  TypeInv'
  <2>1. CASE Crash("ReadLock Timeout")
    BY <1>0, <2>1
  <2>2. (spins[t] + 1) % MaxSpin \in 0 .. MaxSpin
    BY <1>14, SpinRange
  <2>3. CASE ~Crash("ReadLock Timeout")
    BY <1>14, <2>2, <2>3 DEF ReadCasFails
  <2> QED
    BY <2>1, <2>3
<1>15. ASSUME NEW t \in Threads, ReadUnlock(t)
       PROVE  TypeInv'
  <2>1. CASE readers = 0
    BY <1>0, <1>15, <2>1 DEF ReadUnlock
  <2>2. CASE readers # 0
    BY <1>15, <2>2 DEF ReadUnlock
  <2> QED
    BY <2>1, <2>2
<1>16. CASE UNCHANGED vars
  BY <1>16 DEF vars
<1> QED
  BY <1>1, <1>2, <1>3, <1>4, <1>5, <1>6, <1>7, <1>8, <1>9, <1>10, <1>11, <1>12,
     <1>13, <1>14, <1>15, <1>16 DEF Next, Continue, Release

\* The fields of the lock and the threads' places keep their types.
THEOREM TypeCorrect == Spec => []TypeOK
<1>1. Init => TypeInv
  BY TypeInit
<1>2. TypeInv /\ [Next]_vars => TypeInv'
  BY TypeStep
<1>3. TypeInv => TypeOK
  BY DEF TypeInv
<1> QED
  BY <1>1, <1>2, <1>3, PTL DEF Spec

-----------------------------------------------------------------------------
(* The lock's invariant. *)

\* With no write guard, no read guard and nobody in Lock.cpp, LockInv holds.
LEMMA LockInit == Init => LockInv
<1> SUFFICES ASSUME Init
             PROVE  LockInv
  OBVIOUS
<1>1. rHeld \in [Threads -> 0 .. MaxNest] /\ \A t \in Threads : rHeld[t] = 0
  BY NestAssumption DEF Init
<1>2. Cardinality(ReadGuards) = 0
  BY <1>1, GuardsNone DEF ReadGuards
<1> QED
  BY <1>1, <1>2, ThreadsAssumption
     DEF Init, LockInv, OwnerInv, ReaderInv, CountInv, NoFalseAlarmUnlessBarged,
         InWriteSection, TouchesWriteCount

\* Every action keeps LockInv, as long as no writer has spun out.
LEMMA LockStep == TypeInv /\ TypeInv' /\ LockInv /\ barges' = 0 /\ [Next]_vars => LockInv'
<1> SUFFICES ASSUME TypeInv, TypeInv', LockInv, barges' = 0, [Next]_vars
             PROVE  LockInv'
  OBVIOUS
<1>a. rHeld' = rHeld => ReadGuards' = ReadGuards
  BY DEF ReadGuards
<1>b. readers \in Nat /\ (readers = 0 <=> \A t \in Threads : rHeld[t] = 0)
  BY GuardsNone DEF TypeInv, TypeOK, LockInv, ReaderInv, ReadGuards
<1>c. CountWidth \in Nat /\ MaxNest \in Nat /\ MaxNest + 1 < CountWidth
  BY NestAssumption, SMT DEF CountWidth
<1> USE ThreadsAssumption
        DEF TypeInv, TypeOK, NestRoom, LockInv, OwnerInv, ReaderInv, CountInv, NoFalseAlarmUnlessBarged,
            InWriteSection, TouchesWriteCount, FlagEmpty, NoOwnerSince, At, Goto, shared, guards, ghosts
<1>0. ASSUME NEW cause \in {"WriteLock Timeout", "ReadLock Timeout"}, Crash(cause)
      PROVE  LockInv'
  BY <1>0, <1>a DEF Crash
<1>1. ASSUME NEW t \in Threads, WriteLock(t)
     PROVE  LockInv'
  BY <1>1, <1>a, <1>b, <1>c DEF WriteLock
<1>2. ASSUME NEW t \in Threads, WriteCasWins(t)
     PROVE  LockInv'
  <2>1. owner' = t /\ pc' = [pc EXCEPT ![t] = "wincr"] /\ rHeld' = rHeld /\ wHeld' = wHeld
    BY <1>2 DEF WriteCasWins
  <2>2. owner = NoOwner /\ readers = 0 /\ pc[t] = "wcas" /\ crashed = "no"
    BY <1>2 DEF WriteCasWins
  <2>3. OwnerInv'
    BY <2>1, <2>2
  <2>4. ReaderInv'
    BY <1>2, <1>a, <1>b, <2>1, <2>2 DEF WriteCasWins
  <2>5. CountInv'
    BY <1>2, <2>1, <2>2 DEF WriteCasWins
  <2>6. NoFalseAlarmUnlessBarged'
    BY <1>2 DEF WriteCasWins
  <2> QED
    BY <2>3, <2>4, <2>5, <2>6
<1>3. ASSUME NEW t \in Threads, WriteCasFails(t)
     PROVE  LockInv'
  BY <1>3, <1>a, <1>b, <1>c DEF WriteCasFails
<1>4. ASSUME NEW t \in Threads, WriteSpinOut(t)
     PROVE  LockInv'
  <2>1. ~(barges' = barges + 1)
    OBVIOUS
  <2>2. Crash("WriteLock Timeout")
    BY <1>4, <2>1 DEF WriteSpinOut
  <2> QED
    BY <1>0, <2>2
<1>5. ASSUME NEW t \in Threads, WriteIncr(t)
     PROVE  LockInv'
  BY <1>5, <1>a, <1>b, <1>c DEF WriteIncr
<1>6. ASSUME NEW t \in Threads, WriteIncrStore(t)
     PROVE  LockInv'
  BY <1>6, <1>a, <1>b, <1>c, IncrArithmetic DEF WriteIncrStore
<1>7. ASSUME NEW t \in Threads, WriteUnlock(t)
     PROVE  LockInv'
  BY <1>7, <1>a, <1>b, <1>c DEF WriteUnlock
<1>8. ASSUME NEW t \in Threads, WriteDecr(t)
     PROVE  LockInv'
  BY <1>8, <1>a, <1>b, <1>c DEF WriteDecr
<1>9. ASSUME NEW t \in Threads, WriteDecrStore(t)
     PROVE  LockInv'
  BY <1>9, <1>a, <1>b, <1>c, DecrArithmetic DEF WriteDecrStore
<1>10. ASSUME NEW t \in Threads, WriteFree(t)
      PROVE  LockInv'
  BY <1>10, <1>a, <1>b, <1>c DEF WriteFree
<1>11. ASSUME NEW t \in Threads, ReadLock(t)
      PROVE  LockInv'
  <2>1. CASE owner = t
    <3>1. Cardinality(ReadGuards') = Cardinality(ReadGuards) + 1
      BY <1>11, <2>1, GuardsAdd DEF ReadLock, ReadGuards
    <3> QED
      BY <1>11, <2>1, <3>1 DEF ReadLock
  <2>2. CASE owner # t
    BY <1>11, <1>a, <2>2 DEF ReadLock
  <2> QED
    BY <2>1, <2>2
<1>12. ASSUME NEW t \in Threads, ReadLoad(t)
      PROVE  LockInv'
  BY <1>12, <1>a, <1>b, <1>c DEF ReadLoad
<1>13. ASSUME NEW t \in Threads, ReadCasWins(t)
      PROVE  LockInv'
  <2>1. Cardinality(ReadGuards') = Cardinality(ReadGuards) + 1
    BY <1>13, GuardsAdd DEF ReadCasWins, ReadGuards
  <2> QED
    BY <1>13, <2>1 DEF ReadCasWins
<1>14. ASSUME NEW t \in Threads, ReadCasFails(t)
      PROVE  LockInv'
  <2>1. CASE Crash("ReadLock Timeout")
    BY <1>0, <2>1
  <2>2. CASE /\ Goto(t, "rload")
             /\ spins' = [spins EXCEPT ![t] = (@ + 1) % MaxSpin]
             /\ UNCHANGED <<shared, tmp, guards, ghosts>>
    BY <1>14, <1>a, <2>2 DEF ReadCasFails
  <2> QED
    BY <1>14, <2>1, <2>2 DEF ReadCasFails
<1>15. ASSUME NEW t \in Threads, ReadUnlock(t)
      PROVE  LockInv'
  <2>1. readers # 0
    BY <1>15, <1>b DEF ReadUnlock
  <2>2. Cardinality(ReadGuards') = Cardinality(ReadGuards) - 1
    BY <1>15, <2>1, GuardsDrop DEF ReadUnlock, ReadGuards
  <2> QED
    BY <1>15, <2>1, <2>2 DEF ReadUnlock
<1>16. CASE UNCHANGED vars
  BY <1>16, <1>a DEF vars
<1> QED
  BY <1>1, <1>2, <1>3, <1>4, <1>5, <1>6, <1>7, <1>8, <1>9, <1>10, <1>11, <1>12,
     <1>13, <1>14, <1>15, <1>16 DEF Next, Continue, Release

\* IInv is inductive.
LEMMA Inductive == IInv /\ [Next]_vars => IInv'
<1> SUFFICES ASSUME IInv, [Next]_vars
             PROVE  IInv'
  OBVIOUS
<1>1. TypeInv'
  BY TypeStep DEF IInv
<1>2. barges' = 0 => barges = 0
  <2>1. barges \in Nat
    BY SpinAssumption DEF IInv, TypeInv, TypeOK
  <2>2. ASSUME NEW t \in Threads, WriteSpinOut(t)
        PROVE  barges' = barges \/ barges' = barges + 1
    BY <2>2 DEF WriteSpinOut, Crash
  <2>3. ASSUME NEW t \in Threads,
               \/ WriteLock(t) \/ WriteCasWins(t) \/ WriteCasFails(t)
               \/ WriteIncr(t) \/ WriteIncrStore(t)
               \/ WriteUnlock(t) \/ WriteDecr(t) \/ WriteDecrStore(t) \/ WriteFree(t)
               \/ ReadLock(t) \/ ReadLoad(t) \/ ReadCasWins(t) \/ ReadCasFails(t)
               \/ ReadUnlock(t)
        PROVE  barges' = barges
    BY <2>3 DEF ghosts, Crash, WriteLock, WriteCasWins, WriteCasFails, WriteIncr,
                WriteIncrStore, WriteUnlock, WriteDecr, WriteDecrStore, WriteFree,
                ReadLock, ReadLoad, ReadCasWins, ReadCasFails, ReadUnlock
  <2>4. barges' = barges \/ barges' = barges + 1
    BY <2>2, <2>3 DEF Next, Continue, Release, vars
  <2> QED
    BY <2>1, <2>4
<1> QED
  BY <1>1, <1>2, LockStep DEF IInv

\* IInv holds in every reachable state.
THEOREM Invariance == Spec => []IInv
<1>1. Init => IInv
  BY TypeInit, LockInit DEF IInv
<1> QED
  BY <1>1, Inductive, PTL DEF Spec

-----------------------------------------------------------------------------
(* The safety properties. *)

\* Exclusion between guards, until a writer spins out (Lock.cpp:22-35).
THEOREM Exclusion == Spec => []ExclusionUnlessBarged
<1>1. IInv => ExclusionUnlessBarged
  BY ThreadsAssumption
     DEF IInv, TypeInv, TypeOK, LockInv, OwnerInv, ReaderInv, InWriteSection,
         ExclusionUnlessBarged, MutualExclusion
<1> QED
  BY <1>1, Invariance, PTL

\* Until a writer spins out (Lock.cpp:22-35), _writeCount is only touched by the
\* thread that owns the word (Lock.cpp:15, :26, :49).
THEOREM CountRaceFree == Spec => []WriteCountRaceFreeUnlessBarged
<1>1. IInv => WriteCountRaceFreeUnlessBarged
  BY ThreadsAssumption
     DEF IInv, LockInv, OwnerInv, InWriteSection, WriteCountRaceFreeUnlessBarged
<1> QED
  BY <1>1, Invariance, PTL

\* There are no more guards than threads can nest.
LEMMA GuardsFit == Cardinality(ReadGuards) \in Nat /\ Cardinality(ReadGuards) < CountWidth
<1> DEFINE All == Threads \X (1 .. MaxNest)
<1>1. IsFiniteSet(1 .. MaxNest) /\ Cardinality(1 .. MaxNest) = MaxNest
  BY FS_Interval, NestAssumption
<1>2. IsFiniteSet(All) /\ Cardinality(All) = Cardinality(Threads) * MaxNest
  BY <1>1, FS_Product, ThreadsAssumption
<1>3. ReadGuards \subseteq All
  BY DEF ReadGuards, GuardsOf
<1> HIDE DEF All
<1>4. /\ Cardinality(ReadGuards) \in Nat /\ Cardinality(All) \in Nat
      /\ Cardinality(ReadGuards) <= Cardinality(All)
  BY <1>2, <1>3, FS_Subset, FS_CardinalityType
<1> QED
  BY <1>2, <1>4, WidthAssumption DEF CountWidth

\* Until a writer spins out, the lock word counts the guards that exist
\* (Lock.cpp:25, :51, :64, :73, :90), and its reader count stays in its half.
THEOREM WordAgrees == Spec => []LockWordAgreesUnlessBarged
<1>1. IInv => LockWordAgreesUnlessBarged
  <2>1. Cardinality(ReadGuards) < CountWidth
    BY GuardsFit
  <2> QED
    BY <2>1 DEF IInv, LockInv, OwnerInv, ReaderInv, LockWordAgreesUnlessBarged
<1> QED
  BY <1>1, Invariance, PTL

\* Until a writer spins out, the CRASHes of Lock.cpp:46 and :91 never hit a caller
\* that nests as allowed.
THEOREM NoFalseAlarms == Spec => []NoFalseAlarmUnlessBarged
<1>1. IInv => NoFalseAlarmUnlessBarged
  BY DEF IInv, LockInv, NoFalseAlarmUnlessBarged
<1> QED
  BY <1>1, Invariance, PTL

\* Both of them, until a writer spins out (Lock.cpp:45, :49 and :91).
THEOREM Soundness == Spec => []LockSoundUnlessBarged
<1>1. LockWordAgreesUnlessBarged /\ NoFalseAlarmUnlessBarged => LockSoundUnlessBarged
  BY DEF LockSoundUnlessBarged
<1> QED
  BY <1>1, WordAgrees, NoFalseAlarms, PTL

-----------------------------------------------------------------------------
(* Refinement. *)

\* Where no writer spins out, a step is a step of RWExclusion or invisible.
LEMMA ExclusionStep ==
    ASSUME TypeInv, LockInv, [Next]_vars, barges' = 0
    PROVE  [Abs!AbsNext]_(Abs!absVars)
<1> USE ThreadsAssumption DEF Abs!absVars, TypeInv, TypeOK, NestRoom
<1>0. ASSUME rHeld' = rHeld, wHeld' = wHeld
      PROVE  [Abs!AbsNext]_(Abs!absVars)
  BY <1>0
<1>1. ASSUME NEW t \in Threads, WriteIncrStore(t)
      PROVE  Abs!AcquireWrite(t)
  BY <1>1 DEF WriteIncrStore, At, LockInv, OwnerInv, ReaderInv, InWriteSection,
              TouchesWriteCount, Abs!AcquireWrite, Abs!Alone
<1>2. ASSUME NEW t \in Threads, WriteUnlock(t), readers = 0
      PROVE  Abs!ReleaseWrite(t)
  BY <1>2 DEF WriteUnlock, Abs!ReleaseWrite
<1>3. ASSUME NEW t \in Threads, ReadLock(t), owner = t
      PROVE  Abs!AcquireRead(t)
  BY <1>3 DEF ReadLock, guards, LockInv, OwnerInv, InWriteSection,
              Abs!AcquireRead, Abs!NoOtherWriter
<1>4. ASSUME NEW t \in Threads, ReadCasWins(t)
      PROVE  Abs!AcquireRead(t)
  BY <1>4 DEF ReadCasWins, NoOwnerSince, At, LockInv, OwnerInv, InWriteSection,
              Abs!AcquireRead, Abs!NoOtherWriter
<1>5. ASSUME NEW t \in Threads, ReadUnlock(t), readers # 0
      PROVE  Abs!ReleaseRead(t)
  BY <1>5 DEF ReadUnlock, Abs!ReleaseRead
<1>6. ASSUME NEW t \in Threads, WriteSpinOut(t)
      PROVE  rHeld' = rHeld /\ wHeld' = wHeld
  <2>1. ~(barges' = barges + 1)
    BY SpinAssumption
  <2> QED
    BY <1>6, <2>1 DEF WriteSpinOut, Crash, guards
<1>7. CASE UNCHANGED vars
  BY <1>0, <1>7 DEF vars
<1>8. ASSUME NEW t \in Threads,
             \/ WriteLock(t) \/ WriteCasWins(t) \/ WriteCasFails(t) \/ WriteIncr(t)
             \/ WriteUnlock(t) /\ readers # 0
             \/ WriteDecr(t) \/ WriteDecrStore(t) \/ WriteFree(t)
             \/ ReadLock(t) /\ owner # t
             \/ ReadLoad(t) \/ ReadCasFails(t)
             \/ ReadUnlock(t) /\ readers = 0
      PROVE  rHeld' = rHeld /\ wHeld' = wHeld
  BY <1>8 DEF WriteLock, WriteCasWins, WriteCasFails, WriteIncr, WriteUnlock, WriteDecr,
              WriteDecrStore, WriteFree, ReadLock, ReadLoad, ReadCasFails, ReadUnlock,
              Crash, guards
<1>9. CASE Next
  <2>1. PICK t \in Threads : WriteLock(t) \/ ReadLock(t) \/ Continue(t) \/ Release(t)
    BY <1>9 DEF Next
  <2>2. CASE \/ Abs!AcquireWrite(t) \/ Abs!ReleaseWrite(t)
             \/ Abs!AcquireRead(t) \/ Abs!ReleaseRead(t)
    BY <2>2 DEF Abs!AbsNext
  <2> QED
    BY <1>0, <1>1, <1>2, <1>3, <1>4, <1>5, <1>6, <1>8, <2>1, <2>2
       DEF Continue, Release
<1> QED
  BY <1>7, <1>9

\* When every writer's spinning outlasts the guards it waits for, the lock is
\* the recursive reader/writer exclusion that Lock.h promises.
THEOREM Refinement ==
    ASSUME MaxBarge = 0
    PROVE  Spec => ImplementsExclusion
<1>1. Init => Abs!AbsInit
  BY DEF Init, Abs!AbsInit
<1>2. IInv /\ IInv' /\ [Next]_vars => [Abs!AbsNext]_(Abs!absVars)
  <2> SUFFICES ASSUME IInv, IInv', [Next]_vars
               PROVE  [Abs!AbsNext]_(Abs!absVars)
    OBVIOUS
  <2>1. barges = 0 /\ barges' = 0
    BY MaxBarge = 0 DEF IInv, TypeInv, TypeOK
  <2> QED
    BY <2>1, ExclusionStep DEF IInv
<1> QED
  BY <1>1, <1>2, Invariance, PTL DEF Spec, ImplementsExclusion, Abs!AbsSpec
=============================================================================
