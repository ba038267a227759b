-------------------------------- MODULE RWMutex --------------------------------
(***************************************************************************)
(* Go's sync.RWMutex, as the Go binding relies on it: a waiting writer     *)
(* keeps later readers out, also one that already holds the lock, and      *)
(* hands the lock to the readers that wait when it leaves.                 *)
(***************************************************************************)
EXTENDS Naturals

CONSTANTS Thread, Nobody

ASSUME NobodyAssumption == Nobody \notin Thread

VARIABLES
  holds,    \* how many read locks a thread holds
  asleep,   \* the threads inside RLock
  writer    \* the thread inside Lock, or holding it

lockVars == <<holds, asleep, writer>>

LockInit == holds = [t \in Thread |-> 0] /\ asleep = {} /\ writer = Nobody

RLock(t) ==
  IF writer = Nobody
  THEN holds' = [holds EXCEPT ![t] = @ + 1] /\ UNCHANGED <<asleep, writer>>
  ELSE asleep' = asleep \cup {t} /\ UNCHANGED <<holds, writer>>

\* A thread gives back every read lock it holds (the deferred RUnlocks).
RUnlockAll(t) == holds' = [holds EXCEPT ![t] = 0] /\ UNCHANGED <<asleep, writer>>

\* Lock, up to the wait for the readers that are still there.
Announce(t) == writer = Nobody /\ writer' = t /\ UNCHANGED <<holds, asleep>>

\* Lock has returned in t.
Granted(t) == writer = t /\ \A u \in Thread : holds[u] = 0

Unlock ==
  /\ writer' = Nobody
  /\ holds' = [t \in Thread |-> IF t \in asleep THEN holds[t] + 1 ELSE holds[t]]
  /\ asleep' = {}
=============================================================================
