------------------------------- MODULE RWLock -------------------------------
(***************************************************************************)
(* The recursive reader/writer spin lock of ServerCore/Lock.cpp.           *)
(*                                                                         *)
(* _lockFlag is one atomic 32-bit word: the owner's thread id in the high  *)
(* half, the number of readers in the low half.  It is modelled by the     *)
(* pair (owner, readers), always read and written together in one step.    *)
(* _writeCount is a plain uint16, so ++ and -- are a read and a write that *)
(* other threads may come between.                                         *)
(*                                                                         *)
(* The spin loop of WriteLock is entered once (Lock.cpp:22 is an "if"):    *)
(* a thread whose MAX_SPIN_COUNT exchanges all fail returns to its caller  *)
(* as if it owned the lock.  `barges' counts those returns.  MaxBarge = 0   *)
(* is the assumption that no thread stays inside a guard longer than the   *)
(* whole loop of another takes.  The safety properties named UnlessBarged  *)
(* say what holds until the first such return.  After it two threads are   *)
(* inside, both of them change _writeCount, and the lock word, the         *)
(* complaints and exclusion are all unreliable: nothing is claimed.        *)
(*                                                                         *)
(* The definitions named after another one and a fault (FlagEmptyOwnerOnly *)
(* after FlagEmpty) are plausible bugs; no action uses them.               *)
(***************************************************************************)
EXTENDS Integers, FiniteSets

CONSTANTS
    Threads,    \* threads with distinct non-zero LThreadId
    NoOwner,    \* the high half of EMPTY_FLAG
    MaxSpin,    \* MAX_SPIN_COUNT
    MaxNest,    \* bound: guards of one kind a thread nests
    MaxBarge    \* bound: returns of WriteLock without the lock

\* _writeCount is a uint16.
CountWidth == 65536

ASSUME ThreadsAssumption == IsFiniteSet(Threads) /\ NoOwner \notin Threads
ASSUME SpinAssumption == MaxSpin \in Nat \ {0} /\ MaxBarge \in Nat
\* _writeCount cannot wrap around by nesting alone.
ASSUME NestAssumption == MaxNest \in Nat \ {0} /\ MaxNest < CountWidth - 1
\* All read guards that there can be fit the low half of _lockFlag.
ASSUME WidthAssumption == Cardinality(Threads) * MaxNest < CountWidth

VARIABLES
    owner,      \* high half of _lockFlag
    readers,    \* low half of _lockFlag
    writeCount, \* _writeCount
    pc,         \* where each thread is in Lock.cpp; "idle" is outside of it
    tmp,        \* a thread's copy of what it last loaded
    spins,      \* spinCount of each thread
    wHeld,      \* write guards a thread is inside of
    rHeld,      \* read guards a thread is inside of
    barges,     \* times a WriteLock returned without the lock
    crashed     \* the CRASH that stopped the process, or "no"

vars == <<owner, readers, writeCount, pc, tmp, spins, wHeld, rHeld, barges, crashed>>
shared == <<owner, readers, writeCount>>
guards == <<wHeld, rHeld>>
ghosts == <<barges, crashed>>

Labels == {"idle", "wcas", "wincr", "wincrst", "rload", "rcas", "wdec", "wdecst", "wfree"}
Crashes == {"no", "WriteLock Timeout", "ReadLock Timeout",
            "INVALID_UNLOCK_ORDER", "MULTIPLE_UNLOCK"}

Init ==
    /\ owner = NoOwner /\ readers = 0 /\ writeCount = 0
    /\ pc = [t \in Threads |-> "idle"]
    /\ tmp = [t \in Threads |-> 0]
    /\ spins = [t \in Threads |-> 0]
    /\ wHeld = [t \in Threads |-> 0]
    /\ rHeld = [t \in Threads |-> 0]
    /\ barges = 0 /\ crashed = "no"

At(t, label) == crashed = "no" /\ pc[t] = label
Goto(t, label) == pc' = [pc EXCEPT ![t] = label]

\* compare_exchange of WriteLock expects EMPTY_FLAG.
FlagEmptyOwnerOnly == owner = NoOwner
FlagEmptyReadersOnly == readers = 0
FlagEmpty == owner = NoOwner /\ readers = 0

\* compare_exchange of ReadLock expects the loaded word without its owner.
NoOwnerSinceAnyOwner(t) == readers = tmp[t]
NoOwnerSince(t) == owner = NoOwner /\ readers = tmp[t]

Incremented(count) == (count + 1) % CountWidth
DecrementedInt(count) == count - 1
Decremented(count) == (count + CountWidth - 1) % CountWidth

Crash(cause) ==
    /\ crashed' = cause
    /\ UNCHANGED <<shared, pc, tmp, spins, guards, barges>>

-----------------------------------------------------------------------------
(* WriteLock *)

\* The owner goes straight to _writeCount++, anyone else starts to spin.
\* Callers never ask for the write lock inside a read guard (Lock.h:16).
WriteLock(t) ==
    /\ At(t, "idle")
    /\ rHeld[t] = 0 /\ wHeld[t] < MaxNest
    /\ Goto(t, IF owner = t THEN "wincr" ELSE "wcas")
    /\ spins' = [spins EXCEPT ![t] = 0]
    /\ UNCHANGED <<shared, tmp, guards, ghosts>>

WriteCasWins(t) ==
    /\ At(t, "wcas") /\ spins[t] < MaxSpin
    /\ FlagEmpty
    /\ owner' = t
    /\ Goto(t, "wincr")
    /\ UNCHANGED <<readers, writeCount, tmp, spins, guards, ghosts>>

\* Where no more WriteLocks may spin out, the last iteration of the loop never fails.
WriteCasFails(t) ==
    /\ At(t, "wcas") /\ spins[t] < MaxSpin
    /\ ~FlagEmpty
    /\ spins[t] + 1 < MaxSpin \/ barges < MaxBarge
    /\ spins' = [spins EXCEPT ![t] = @ + 1]
    /\ UNCHANGED <<shared, pc, tmp, guards, ghosts>>

\* The loop is over: CRASH if it took ACQUIRE_TIMEOUT_TICK, else just return.
WriteSpinOut(t) ==
    /\ At(t, "wcas") /\ spins[t] = MaxSpin
    /\ \/ Crash("WriteLock Timeout")
       \/ /\ barges < MaxBarge
          /\ barges' = barges + 1
          /\ Goto(t, "idle")
          /\ wHeld' = [wHeld EXCEPT ![t] = @ + 1]
          /\ UNCHANGED <<shared, tmp, spins, rHeld, crashed>>

WriteIncr(t) ==
    /\ At(t, "wincr")
    /\ tmp' = [tmp EXCEPT ![t] = writeCount]
    /\ Goto(t, "wincrst")
    /\ UNCHANGED <<shared, spins, guards, ghosts>>

WriteIncrStore(t) ==
    /\ At(t, "wincrst")
    /\ writeCount' = Incremented(tmp[t])
    /\ wHeld' = [wHeld EXCEPT ![t] = @ + 1]
    /\ Goto(t, "idle")
    /\ UNCHANGED <<owner, readers, tmp, spins, rHeld, ghosts>>

-----------------------------------------------------------------------------
(* WriteUnlock *)

\* ~WriteLockGuard; guards of one thread end in the reverse of their order.
WriteUnlock(t) ==
    /\ At(t, "idle")
    /\ rHeld[t] = 0 /\ wHeld[t] > 0
    /\ IF readers # 0
       THEN Crash("INVALID_UNLOCK_ORDER")
       ELSE /\ Goto(t, "wdec")
            /\ wHeld' = [wHeld EXCEPT ![t] = @ - 1]
            /\ UNCHANGED <<shared, tmp, spins, rHeld, ghosts>>

WriteDecr(t) ==
    /\ At(t, "wdec")
    /\ tmp' = [tmp EXCEPT ![t] = writeCount]
    /\ Goto(t, "wdecst")
    /\ UNCHANGED <<shared, spins, guards, ghosts>>

\* lockCount is the decremented uint16: 65535 when the count was already 0.
WriteDecrStore(t) ==
    /\ At(t, "wdecst")
    /\ writeCount' = Decremented(tmp[t])
    /\ Goto(t, IF writeCount' = 0 THEN "wfree" ELSE "idle")
    /\ UNCHANGED <<owner, readers, tmp, spins, guards, ghosts>>

WriteFreeForgotten(t) ==
    /\ At(t, "wfree")
    /\ Goto(t, "idle")
    /\ UNCHANGED <<shared, tmp, spins, guards, ghosts>>

WriteFree(t) ==
    /\ At(t, "wfree")
    /\ owner' = NoOwner /\ readers' = 0
    /\ Goto(t, "idle")
    /\ UNCHANGED <<writeCount, tmp, spins, guards, ghosts>>

-----------------------------------------------------------------------------
(* ReadLock and ReadUnlock *)

ReadLock(t) ==
    /\ At(t, "idle")
    /\ rHeld[t] < MaxNest
    /\ spins' = [spins EXCEPT ![t] = 0]
    /\ IF owner = t
       THEN /\ readers' = readers + 1
            /\ rHeld' = [rHeld EXCEPT ![t] = @ + 1]
            /\ UNCHANGED pc
       ELSE Goto(t, "rload") /\ UNCHANGED <<readers, rHeld>>
    /\ UNCHANGED <<owner, writeCount, tmp, wHeld, ghosts>>

\* expected = the reader count alone: the exchange fails while there is an owner.
ReadLoad(t) ==
    /\ At(t, "rload")
    /\ tmp' = [tmp EXCEPT ![t] = readers]
    /\ Goto(t, "rcas")
    /\ UNCHANGED <<shared, spins, guards, ghosts>>

ReadCasWins(t) ==
    /\ At(t, "rcas")
    /\ NoOwnerSince(t)
    /\ readers' = readers + 1
    /\ rHeld' = [rHeld EXCEPT ![t] = @ + 1]
    /\ Goto(t, "idle")
    /\ UNCHANGED <<owner, writeCount, tmp, spins, wHeld, ghosts>>

\* A failed exchange; after MaxSpin of them, CRASH on timeout or start over.
ReadCasFails(t) ==
    /\ At(t, "rcas")
    /\ ~NoOwnerSince(t)
    /\ \/ /\ Goto(t, "rload")
          /\ spins' = [spins EXCEPT ![t] = (@ + 1) % MaxSpin]
          /\ UNCHANGED <<shared, tmp, guards, ghosts>>
       \/ /\ spins[t] + 1 = MaxSpin
          /\ Crash("ReadLock Timeout")

ReadUnlock(t) ==
    /\ At(t, "idle")
    /\ rHeld[t] > 0
    /\ IF readers = 0
       THEN Crash("MULTIPLE_UNLOCK")
       ELSE /\ readers' = readers - 1
            /\ rHeld' = [rHeld EXCEPT ![t] = @ - 1]
            /\ UNCHANGED <<owner, writeCount, pc, tmp, spins, wHeld, ghosts>>

-----------------------------------------------------------------------------
\* Steps of a thread that is inside Lock.cpp, and the end of a guard's scope.
Continue(t) ==
    \/ WriteCasWins(t) \/ WriteCasFails(t) \/ WriteSpinOut(t)
    \/ WriteIncr(t) \/ WriteIncrStore(t)
    \/ WriteDecr(t) \/ WriteDecrStore(t) \/ WriteFree(t)
    \/ ReadLoad(t) \/ ReadCasWins(t) \/ ReadCasFails(t)
Release(t) == WriteUnlock(t) \/ ReadUnlock(t)

Next == \E t \in Threads : WriteLock(t) \/ ReadLock(t) \/ Continue(t) \/ Release(t)

Spec == Init /\ [][Next]_vars

\* A running thread takes its next step, and every guard's scope ends.
Fairness == \A t \in Threads : WF_vars(Continue(t)) /\ WF_vars(Release(t))
FairSpec == Spec /\ Fairness

-----------------------------------------------------------------------------
\* Types of the lock's fields and of each thread's place in Lock.cpp.
TypeOK ==
    /\ owner \in Threads \cup {NoOwner}
    /\ readers \in Nat
    /\ writeCount \in 0 .. CountWidth - 1
    /\ pc \in [Threads -> Labels]
    /\ tmp \in [Threads -> Nat]
    /\ spins \in [Threads -> 0 .. MaxSpin]
    /\ wHeld \in [Threads -> 0 .. MaxNest]
    /\ rHeld \in [Threads -> 0 .. MaxNest]
    /\ barges \in 0 .. MaxBarge
    /\ crashed \in Crashes

\* The read guards that exist, one element per guard.
GuardsOf(held) == {g \in Threads \X (1 .. MaxNest) : g[2] <= held[g[1]]}
ReadGuards == GuardsOf(rHeld)

\* Lines that touch _writeCount.
TouchesWriteCount(t) == pc[t] \in {"wincr", "wincrst", "wdec", "wdecst"}

\* From winning the lock word to giving it back.
InWriteSection(t) == wHeld[t] > 0 \/ TouchesWriteCount(t) \/ pc[t] = "wfree"

\* A thread inside a write guard is alone: no other thread is inside a guard of
\* either kind (Lock.cpp:19, "when nobody owns or shares it, compete for it").
MutualExclusion ==
    \A t, u \in Threads : t # u /\ wHeld[t] > 0 => wHeld[u] = 0 /\ rHeld[u] = 0

\* Exclusion is only ever lost to a WriteLock that spun out.
ExclusionUnlessBarged == barges = 0 => MutualExclusion

\* Until the first WriteLock spins out, the plain uint16 _writeCount is never
\* touched by two threads at once, so that ++ and -- of Lock.cpp need not be
\* atomic.  A thread that spun out reaches --_writeCount while the owner is at ++.
WriteCountRaceFreeUnlessBarged ==
    barges = 0 => \A t, u \in Threads :
        TouchesWriteCount(t) /\ TouchesWriteCount(u) => t = u

\* Until then the lock word tells the truth: its low half counts the read guards
\* that exist and never carries into the owner's half, and it has an owner exactly
\* while that thread is in a write section; so no thread's exit can leave the word
\* owned by nobody's guard.
LockWordAgreesUnlessBarged ==
    barges = 0 =>
        /\ readers = Cardinality(ReadGuards) /\ readers < CountWidth
        /\ \A t \in Threads : owner = t <=> InWriteSection(t)

\* Until then the two CRASHes that report wrong use of the lock (Lock.cpp:46 and
\* :91) never hit a caller that nests guards as Lock.h:14-16 allows.
NoFalseAlarmUnlessBarged ==
    barges = 0 => crashed \notin {"INVALID_UNLOCK_ORDER", "MULTIPLE_UNLOCK"}

\* Both: until the first WriteLock spins out, the lock's record of its guards is
\* true, and so are its complaints.
LockSoundUnlessBarged == LockWordAgreesUnlessBarged /\ NoFalseAlarmUnlessBarged

Waiting(t) == pc[t] \in {"wcas", "rload", "rcas"}
Inside(t) == wHeld[t] > 0 \/ rHeld[t] > 0

\* Threads that wait do not wait for nobody: some thread gets inside, or the
\* ten-second timeout of ReadLock stops the process.
WaitersGetIn ==
    (\E t \in Threads : Waiting(t)) ~> ((\E t \in Threads : Inside(t)) \/ crashed # "no")

\* With writers that never spin out the lock is recursive reader/writer
\* exclusion: every step is one of its steps, or invisible to the callers.
Abs == INSTANCE RWExclusion
ImplementsExclusion == Abs!AbsSpec
=============================================================================
