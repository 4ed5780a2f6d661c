----------------------------- MODULE RWExclusion -----------------------------
(***************************************************************************)
(* What the users of Lock (ServerCore/Lock.h) rely on: recursive           *)
(* reader/writer exclusion between threads.  A guard is taken and given    *)
(* back in one step; the table in Lock.h:14-16 says which nestings of one  *)
(* thread are allowed (W -> W and W -> R, never R -> W).                   *)
(***************************************************************************)
EXTENDS Naturals

CONSTANTS
    Threads, \* the threads that use the lock
    MaxNest  \* how many guards of one kind a thread may nest

VARIABLES
    wHeld,   \* wHeld[t]: WriteLockGuards thread t is inside of
    rHeld    \* rHeld[t]: ReadLockGuards thread t is inside of

absVars == <<wHeld, rHeld>>

AbsInit ==
    /\ wHeld = [t \in Threads |-> 0]
    /\ rHeld = [t \in Threads |-> 0]

\* No thread but t is inside a guard of either kind.
Alone(t) == \A u \in Threads \ {t} : wHeld[u] = 0 /\ rHeld[u] = 0

\* No thread but t is inside a write guard.
NoOtherWriter(t) == \A u \in Threads \ {t} : wHeld[u] = 0

AcquireWrite(t) ==
    /\ rHeld[t] = 0 /\ wHeld[t] < MaxNest
    /\ Alone(t)
    /\ wHeld' = [wHeld EXCEPT ![t] = @ + 1]
    /\ UNCHANGED rHeld

ReleaseWrite(t) ==
    /\ rHeld[t] = 0 /\ wHeld[t] > 0
    /\ wHeld' = [wHeld EXCEPT ![t] = @ - 1]
    /\ UNCHANGED rHeld

AcquireRead(t) ==
    /\ rHeld[t] < MaxNest
    /\ NoOtherWriter(t)
    /\ rHeld' = [rHeld EXCEPT ![t] = @ + 1]
    /\ UNCHANGED wHeld

ReleaseRead(t) ==
    /\ rHeld[t] > 0
    /\ rHeld' = [rHeld EXCEPT ![t] = @ - 1]
    /\ UNCHANGED wHeld

AbsNext ==
    \E t \in Threads :
        AcquireWrite(t) \/ ReleaseWrite(t) \/ AcquireRead(t) \/ ReleaseRead(t)

AbsSpec == AbsInit /\ [][AbsNext]_absVars
=============================================================================
