---------------------------- MODULE GoDatabaseProofs ----------------------------
(***************************************************************************)
(* Proofs about GoDatabase, for any number of goroutines, poll loops and   *)
(* handles: the read lock is counted right, a native call runs on the      *)
(* installed handle only, and every live handle has one owner; so the      *)
(* binding implements NativeHandle.                                        *)
(***************************************************************************)
EXTENDS GoDatabase, TLAPS

\* The read locks a goroutine holds, by what it does next.
HeldBy(t) ==
  IF at[t] = "native2" \/ (at[t] = "nested" /\ t \notin asleep) THEN 2
  ELSE IF at[t] \in {"native", "nested"} \/ (at[t] = "read" /\ t \notin asleep) THEN 1
  ELSE 0

\* Where a getter is under way.
Getter == {"read", "native", "nested", "native2"}

(* The lock counts what the goroutines hold, and only inside RLock does one  *)
(* sleep.                                                                    *)
LockInv ==
  /\ \A t \in Thread : holds[t] = HeldBy(t)
  /\ \A t \in asleep : at[t] \in {"read", "nested"}

(* A getter that is past checkOpen sees an open Database, and its native     *)
(* call has the handle that is installed.                                    *)
UseInv ==
  \A c \in Client :
    /\ at[c] \in {"native", "nested", "native2"} => handle \in Handle
    /\ using[c] = IF at[c] \in {"native", "native2"} THEN handle ELSE NoHandle

(* Who stops a loop knows which one. *)
JoinInv == \A c \in Client : at[c] \in {"stop", "join"} => joins[c] \in Loop

IInv == TypeOK /\ LockInv /\ UseInv /\ JoinInv /\ OneOwner

-----------------------------------------------------------------------------
(* A handle that is asked for is a new one. *)
LEMMA FreshIsNew ==
  ASSUME NEW S \in SUBSET Handle, S # Handle
  PROVE  Fresh(S) \in Handle /\ Fresh(S) \notin S
BY DEF Fresh

(* While a writer has the lock nobody is in a getter. *)
LEMMA GrantedExcludes ==
  ASSUME IInv, NEW t, Granted(t)
  PROVE  \A c \in Client : /\ at[c] \notin {"native", "nested", "native2"}
                           /\ using[c] = NoHandle
<1> SUFFICES ASSUME NEW c \in Client
             PROVE  at[c] \notin {"native", "nested", "native2"} /\ using[c] = NoHandle
  OBVIOUS
<1>1. c \in Thread /\ holds[c] = 0
  BY GoAssumption DEF Granted
<1>2. HeldBy(c) = 0
  BY <1>1 DEF IInv, LockInv
<1>3. at[c] \notin {"native", "nested", "native2"}
  BY <1>2 DEF HeldBy
<1> QED
  BY <1>3 DEF IInv, UseInv

(* Unlock hands the lock to the sleepers: the counts stay right when the     *)
(* writer goes on to a place outside the getters.                            *)
LEMMA UnlockKeepsLockInv ==
  ASSUME IInv, Unlock,
         \A t \in Thread : at'[t] = at[t] \/ (at[t] \notin Getter /\ at'[t] \notin Getter)
  PROVE  LockInv' /\ holds' \in [Thread -> 0..2] /\ asleep' = {} /\ writer' = Nobody
<1>1. \A t \in Thread : holds[t] = HeldBy(t) /\ (t \in asleep => at[t] \in {"read", "nested"})
  BY DEF IInv, LockInv
<1>2. asleep' = {} /\ writer' = Nobody
  BY DEF Unlock
<1>3. \A t \in Thread : holds'[t] = IF t \in asleep THEN holds[t] + 1 ELSE holds[t]
  BY DEF Unlock
<1>4. \A t \in Thread : holds'[t] = HeldBy(t)'
  BY <1>1, <1>2, <1>3 DEF HeldBy, Getter
<1>5. \A t \in Thread : HeldBy(t)' \in 0..2
  BY DEF HeldBy
<1>6. holds' \in [Thread -> 0..2]
  BY <1>4, <1>5 DEF Unlock
<1> QED
  BY <1>2, <1>4, <1>6 DEF LockInv

(* A step outside the getters that leaves the read locks alone. *)
LEMMA LockInvUnchanged ==
  ASSUME IInv, UNCHANGED <<holds, asleep>>,
         \A t \in Thread : at'[t] = at[t] \/ (at[t] \notin Getter /\ at'[t] \notin Getter)
  PROVE  LockInv'
<1>1. \A t \in Thread : HeldBy(t)' = HeldBy(t)
  BY DEF HeldBy, Getter
<1>2. asleep \subseteq Thread
  BY GoAssumption DEF IInv, TypeOK
<1> QED
  BY <1>1, <1>2 DEF IInv, LockInv, Getter

(* The parts of the invariant speak of these variables only. *)
LEMMA OneOwnerUnchanged ==
  ASSUME OneOwner, UNCHANGED <<handle, live, owned>>, Owners' = Owners
  PROVE  OneOwner'
BY DEF OneOwner

-----------------------------------------------------------------------------
(* One lemma for each action. *)

(* RLock at the start of a getter. *)
LEMMA BeginGetterKeeps ==
  ASSUME IInv, NEW c \in Client, BeginGetter(c)
  PROVE  IInv'
<1>1. c \in Thread /\ at[c] = "idle" /\ c \notin asleep
  BY GoAssumption DEF BeginGetter, IInv, LockInv
<1>2. at' = [at EXCEPT ![c] = "read"] /\ at \in [Thread -> ClientPlaces \cup LoopPlaces]
  BY DEF BeginGetter, Goto, IInv, TypeOK
<1>3. LockInv' /\ holds' \in [Thread -> 0..2] /\ asleep' \subseteq Client
  BY <1>1, <1>2 DEF BeginGetter, RLock, IInv, TypeOK, LockInv, HeldBy
<1>4. TypeOK'
  BY <1>1, <1>2, <1>3 DEF BeginGetter, RLock, dbVars, clientVars, loopVars, nativeVars,
     fileVars, IInv, TypeOK, ClientPlaces
<1>5. Owners' = Owners
  BY <1>1, <1>2, GoAssumption DEF Owners
<1>6. OneOwner'
  BY <1>5, OneOwnerUnchanged DEF BeginGetter, dbVars, loopVars, nativeVars, IInv
<1>7. UseInv' /\ JoinInv'
  BY <1>1, <1>2 DEF BeginGetter, dbVars, clientVars, nativeVars, IInv, UseInv, JoinInv
<1> QED
  BY <1>3, <1>4, <1>6, <1>7 DEF IInv

(* checkOpen: an error, or a native call on the installed handle. *)
LEMMA CheckOpenKeeps ==
  ASSUME IInv, NEW c \in Client, CheckOpen(c)
  PROVE  IInv'
<1>1. c \in Thread /\ at[c] = "read" /\ c \notin asleep
  BY GoAssumption DEF CheckOpen
<1>2. at \in [Thread -> ClientPlaces \cup LoopPlaces] /\ holds[c] = 1
  BY <1>1 DEF IInv, TypeOK, LockInv, HeldBy
<1>3. CASE Closed /\ Refuse(c)
  <2>1. at' = [at EXCEPT ![c] = "idle"] /\ holds' = [holds EXCEPT ![c] = 0]
    BY <1>3 DEF Refuse, RUnlockAll, Goto
  <2>2. LockInv' /\ TypeOK'
    BY <1>1, <1>2, <1>3, <2>1 DEF Refuse, RUnlockAll, dbVars, clientVars, loopVars,
       nativeVars, fileVars, IInv, TypeOK, LockInv, HeldBy, ClientPlaces
  <2>3. Owners' = Owners
    BY <1>1, <1>2, <2>1, GoAssumption DEF Owners
  <2>4. OneOwner'
    BY <1>3, <2>3, OneOwnerUnchanged DEF Refuse, dbVars, loopVars, nativeVars, IInv
  <2>5. UseInv' /\ JoinInv'
    BY <1>1, <1>2, <1>3, <2>1 DEF Refuse, dbVars, clientVars, nativeVars, IInv, UseInv, JoinInv
  <2> QED
    BY <2>2, <2>4, <2>5 DEF IInv
<1>4. CASE ~Closed /\ Call(c, "native")
  <2>1. at' = [at EXCEPT ![c] = "native"] /\ using' = [using EXCEPT ![c] = handle]
    BY <1>4 DEF Call, Goto
  <2>2. handle \in Handle /\ handle' = handle
    BY <1>4 DEF Call, Closed, dbVars, IInv, TypeOK
  <2>3. LockInv' /\ TypeOK'
    BY <1>1, <1>2, <1>4, <2>1, <2>2 DEF Call, lockVars, dbVars, clientVars, loopVars,
       fileVars, IInv, TypeOK, LockInv, HeldBy, ClientPlaces
  <2>4. Owners' = Owners
    BY <1>1, <1>2, <2>1, GoAssumption DEF Owners
  <2>5. OneOwner'
    BY <1>4, <2>4, OneOwnerUnchanged DEF Call, dbVars, loopVars, IInv
  <2>6. UseInv' /\ JoinInv'
    BY <1>1, <1>2, <1>4, <2>1, <2>2 DEF Call, clientVars, IInv, TypeOK, UseInv, JoinInv
  <2> QED
    BY <2>3, <2>5, <2>6 DEF IInv
<1> QED
  BY <1>3, <1>4 DEF CheckOpen
(* The native call returns, and the deferred RUnlocks run. *)
LEMMA ReturnValueKeeps ==
  ASSUME IInv, NEW c \in Client, ReturnValue(c)
  PROVE  IInv'
<1>1. c \in Thread /\ at[c] \in {"native", "native2"} /\ c \notin asleep
  BY GoAssumption DEF ReturnValue, IInv, LockInv
<1>2. at' = [at EXCEPT ![c] = "idle"] /\ at \in [Thread -> ClientPlaces \cup LoopPlaces]
  BY DEF ReturnValue, Goto, IInv, TypeOK
<1>3. using' = [using EXCEPT ![c] = NoHandle] /\ holds' = [holds EXCEPT ![c] = 0]
  BY DEF ReturnValue, RUnlockAll
<1>4. LockInv' /\ TypeOK'
  BY <1>1, <1>2, <1>3 DEF ReturnValue, RUnlockAll, dbVars, clientVars, loopVars, fileVars,
     IInv, TypeOK, LockInv, HeldBy, ClientPlaces
<1>5. Owners' = Owners
  BY <1>1, <1>2, GoAssumption DEF Owners
<1>6. OneOwner'
  BY <1>5, OneOwnerUnchanged DEF ReturnValue, dbVars, loopVars, IInv
<1>7. UseInv' /\ JoinInv'
  BY <1>1, <1>2, <1>3 DEF ReturnValue, dbVars, clientVars, IInv, TypeOK, UseInv, JoinInv
<1> QED
  BY <1>4, <1>6, <1>7 DEF IInv

(* ArrayLength locks a second time. *)
LEMMA NotAnArrayKeeps ==
  ASSUME IInv, NEW c \in Client, NotAnArray(c)
  PROVE  IInv'
<1>1. c \in Thread /\ at[c] = "native" /\ c \notin asleep
  BY GoAssumption DEF NotAnArray, IInv, LockInv
<1>2. at' = [at EXCEPT ![c] = "nested"] /\ at \in [Thread -> ClientPlaces \cup LoopPlaces]
  BY DEF NotAnArray, Goto, IInv, TypeOK
<1>3. using' = [using EXCEPT ![c] = NoHandle] /\ holds[c] = 1
  BY <1>1 DEF NotAnArray, IInv, LockInv, HeldBy
<1>4. LockInv' /\ TypeOK'
  BY <1>1, <1>2, <1>3 DEF NotAnArray, RLock, dbVars, clientVars, loopVars, fileVars,
     IInv, TypeOK, LockInv, HeldBy, ClientPlaces
<1>5. Owners' = Owners
  BY <1>1, <1>2, GoAssumption DEF Owners
<1>6. OneOwner'
  BY <1>5, OneOwnerUnchanged DEF NotAnArray, dbVars, loopVars, IInv
<1>7. UseInv' /\ JoinInv'
  BY <1>1, <1>2, <1>3 DEF NotAnArray, dbVars, clientVars, IInv, TypeOK, UseInv, JoinInv
<1> QED
  BY <1>4, <1>6, <1>7 DEF IInv

(* The Database is still open for the second call: nobody could lock it in   *)
(* between.                                                                  *)
LEMMA ValueTypeAtKeeps ==
  ASSUME IInv, NEW c \in Client, ValueTypeAt(c)
  PROVE  IInv'
<1>1. c \in Thread /\ at[c] = "nested" /\ c \notin asleep
  BY GoAssumption DEF ValueTypeAt
<1>2. at' = [at EXCEPT ![c] = "native2"] /\ at \in [Thread -> ClientPlaces \cup LoopPlaces]
  BY DEF ValueTypeAt, Call, Goto, IInv, TypeOK
<1>3. using' = [using EXCEPT ![c] = handle] /\ handle \in Handle /\ handle' = handle
  BY <1>1 DEF ValueTypeAt, Call, dbVars, IInv, UseInv
<1>4. LockInv' /\ TypeOK'
  BY <1>1, <1>2, <1>3 DEF ValueTypeAt, Call, lockVars, dbVars, clientVars, loopVars,
     fileVars, IInv, TypeOK, LockInv, HeldBy, ClientPlaces
<1>5. Owners' = Owners
  BY <1>1, <1>2, GoAssumption DEF Owners
<1>6. OneOwner'
  BY <1>5, OneOwnerUnchanged DEF ValueTypeAt, Call, dbVars, loopVars, IInv
<1>7. UseInv' /\ JoinInv'
  BY <1>1, <1>2, <1>3 DEF ValueTypeAt, Call, clientVars, IInv, TypeOK, UseInv, JoinInv
<1> QED
  BY <1>4, <1>6, <1>7 DEF IInv

(* The call of db.mu.Lock() that EnableHotReload, DisableHotReload and Close *)
(* begin with.                                                               *)
LEMMA BeginKeeps ==
  ASSUME IInv, NEW c \in Client, NEW place \in {"enable", "disable"}, Begin(c, place),
         closing' \subseteq Client
  PROVE  IInv'
<1>1. c \in Thread /\ at[c] = "idle"
  BY GoAssumption DEF Begin
<1>2. at' = [at EXCEPT ![c] = place] /\ at \in [Thread -> ClientPlaces \cup LoopPlaces]
  BY DEF Begin, Goto, IInv, TypeOK
<1>3. LockInv'
  BY <1>1, <1>2, LockInvUnchanged DEF Begin, Announce, Getter, IInv
<1>4. TypeOK'
  BY <1>1, <1>2 DEF Begin, Announce, dbVars, loopVars, nativeVars, fileVars, IInv, TypeOK,
     ClientPlaces
<1>5. Owners' = Owners
  BY <1>1, <1>2, GoAssumption DEF Owners
<1>6. OneOwner'
  BY <1>5, OneOwnerUnchanged DEF Begin, dbVars, loopVars, nativeVars, IInv
<1>7. UseInv' /\ JoinInv'
  BY <1>1, <1>2 DEF Begin, dbVars, nativeVars, IInv, UseInv, JoinInv
<1> QED
  BY <1>3, <1>4, <1>6, <1>7 DEF IInv

(* db.mu.Lock() of Close and of a loop that has a new handle. *)
LEMMA LockKeeps ==
  ASSUME IInv, NEW t \in Thread, Lock(t)
  PROVE  IInv'
<1>1. LockInv'
  BY LockInvUnchanged DEF Lock, Announce, IInv
<1>2. TypeOK'
  BY DEF Lock, Announce, dbVars, clientVars, loopVars, nativeVars, fileVars, IInv, TypeOK
<1>3. Owners' = Owners
  BY DEF Lock, Owners
<1>4. OneOwner'
  BY <1>3, OneOwnerUnchanged DEF Lock, dbVars, loopVars, nativeVars, IInv
<1>5. UseInv' /\ JoinInv'
  BY DEF Lock, dbVars, clientVars, nativeVars, IInv, UseInv, JoinInv
<1> QED
  BY <1>1, <1>2, <1>4, <1>5 DEF IInv

(* EnableHotReload installs a loop that nobody refers to, or none. *)
LEMMA EnableKeeps ==
  ASSUME IInv, NEW c \in Client, Enable(c)
  PROVE  IInv'
<1>1. c \in Thread /\ at[c] = "enable" /\ Unlock
  BY GoAssumption DEF Enable
<1>2. at \in [Thread -> ClientPlaces \cup LoopPlaces]
  BY DEF IInv, TypeOK
<1>3. \/ /\ at' = [at EXCEPT ![c] = "idle"]
         /\ UNCHANGED <<hotReload, lastMod>>
      \/ /\ NewLoop \in Loop /\ at[NewLoop] = "off"
         /\ hotReload' = NewLoop
         /\ lastMod' \in [Loop -> Nat]
         /\ at' = [at EXCEPT ![c] = "idle", ![NewLoop] = "waiting"]
  <2>1. Unused # {} => NewLoop \in Loop /\ at[NewLoop] = "off"
    BY DEF NewLoop, Unused
  <2>2. ASSUME NEW mod \in {version, 0}, lastMod' = [lastMod EXCEPT ![NewLoop] = mod]
        PROVE  lastMod' \in [Loop -> Nat]
    <3>1. mod \in Nat /\ lastMod \in [Loop -> Nat]
      BY DEF IInv, TypeOK
    <3> QED
      BY <2>2, <3>1
  <2>3. CASE hotReload = Nobody /\ Unused # {} /\ hotReload' = NewLoop
    <3>1. CASE /\ at' = [at EXCEPT ![c] = "idle", ![NewLoop] = "waiting"]
               /\ \E mod \in {version, 0} : lastMod' = [lastMod EXCEPT ![NewLoop] = mod]
      BY <2>1, <2>2, <2>3, <3>1
    <3>2. CASE at' = [at EXCEPT ![c] = "idle"] /\ UNCHANGED <<hotReload, lastMod>>
      BY <3>2
    <3> QED
      BY <2>3, <3>1, <3>2 DEF Enable, Goto
  <2>4. CASE at' = [at EXCEPT ![c] = "idle"] /\ UNCHANGED <<hotReload, lastMod>>
    BY <2>4
  <2> QED
    BY <2>3, <2>4 DEF Enable, Goto
<1>4. \A t \in Thread : at'[t] = at[t] \/ (at[t] \notin Getter /\ at'[t] \notin Getter)
  BY <1>1, <1>2, <1>3, GoAssumption DEF Getter
<1>5. LockInv' /\ holds' \in [Thread -> 0..2] /\ asleep' = {} /\ writer' = Nobody
  BY <1>1, <1>4, UnlockKeepsLockInv
<1>6. TypeOK'
  BY <1>1, <1>2, <1>3, <1>5, GoAssumption DEF Enable, clientVars, nativeVars, fileVars,
     IInv, TypeOK, ClientPlaces, LoopPlaces
<1>7. Owners' = Owners
  BY <1>1, <1>2, <1>3, GoAssumption DEF Owners
<1>8. OneOwner'
  BY <1>7, OneOwnerUnchanged DEF Enable, nativeVars, IInv
<1>9. UseInv' /\ JoinInv'
  <2>1. \A d \in Client : at'[d] = at[d] \/ (at[d] = "enable" /\ at'[d] = "idle")
    BY <1>1, <1>2, <1>3, GoAssumption
  <2> QED
    BY <2>1 DEF Enable, clientVars, nativeVars, IInv, UseInv, JoinInv
<1> QED
  BY <1>5, <1>6, <1>8, <1>9 DEF IInv

(* DisableHotReload takes the loop it stops out of the Database. *)
LEMMA DisableKeeps ==
  ASSUME IInv, NEW c \in Client, Disable(c)
  PROVE  IInv'
<1>1. c \in Thread /\ at[c] = "disable" /\ Unlock
  BY GoAssumption DEF Disable
<1> DEFINE place == IF hotReload = Nobody THEN AfterDisable(c) ELSE "stop"
<1>2. at' = [at EXCEPT ![c] = place] /\ at \in [Thread -> ClientPlaces \cup LoopPlaces]
  BY DEF Disable, Goto, IInv, TypeOK
<1>3. place \in {"close", "idle", "stop"} /\ (place = "stop" => hotReload \in Loop)
  BY DEF AfterDisable, IInv, TypeOK
<1>4. LockInv' /\ holds' \in [Thread -> 0..2] /\ asleep' = {} /\ writer' = Nobody
  <2>1. \A t \in Thread : at'[t] = at[t] \/ (at[t] \notin Getter /\ at'[t] \notin Getter)
    BY <1>1, <1>2, <1>3 DEF Getter
  <2> QED
    BY <1>1, <2>1, UnlockKeepsLockInv
<1>5. joins' = [joins EXCEPT ![c] = hotReload] /\ hotReload' = Nobody
  BY DEF Disable
<1>6. TypeOK'
  BY <1>1, <1>2, <1>3, <1>4, <1>5 DEF Disable, loopVars, nativeVars, fileVars, IInv, TypeOK,
     ClientPlaces
<1>7. Owners' = Owners
  BY <1>1, <1>2, GoAssumption DEF Owners
<1>8. OneOwner'
  BY <1>7, OneOwnerUnchanged DEF Disable, loopVars, nativeVars, IInv
<1>9. UseInv'
  BY <1>1, <1>2, <1>3 DEF Disable, nativeVars, IInv, UseInv
<1>10. JoinInv'
  BY <1>1, <1>2, <1>3, <1>5 DEF IInv, TypeOK, JoinInv
<1> QED
  BY <1>4, <1>6, <1>8, <1>9, <1>10 DEF IInv

LEMMA StopLoopKeeps ==
  ASSUME IInv, NEW c \in Client, StopLoop(c)
  PROVE  IInv'
<1>1. c \in Thread /\ at[c] = "stop" /\ joins[c] \in Loop
  BY GoAssumption DEF StopLoop, IInv, JoinInv
<1>2. at' = [at EXCEPT ![c] = "join"] /\ at \in [Thread -> ClientPlaces \cup LoopPlaces]
  BY DEF StopLoop, Goto, IInv, TypeOK
<1>3. LockInv'
  BY <1>1, <1>2, LockInvUnchanged DEF StopLoop, lockVars, Getter
<1>4. TypeOK'
  BY <1>1, <1>2 DEF StopLoop, lockVars, dbVars, clientVars, nativeVars, fileVars, IInv,
     TypeOK, ClientPlaces
<1>5. Owners' = Owners
  BY <1>1, <1>2, GoAssumption DEF Owners
<1>6. OneOwner'
  BY <1>5, OneOwnerUnchanged DEF StopLoop, dbVars, nativeVars, IInv
<1>7. UseInv' /\ JoinInv'
  BY <1>1, <1>2 DEF StopLoop, dbVars, clientVars, nativeVars, IInv, UseInv, JoinInv
<1> QED
  BY <1>3, <1>4, <1>6, <1>7 DEF IInv

LEMMA JoinKeeps ==
  ASSUME IInv, NEW c \in Client, Join(c)
  PROVE  IInv'
<1>1. c \in Thread /\ at[c] = "join"
  BY GoAssumption DEF Join
<1>2. at' = [at EXCEPT ![c] = AfterDisable(c)] /\ at \in [Thread -> ClientPlaces \cup LoopPlaces]
  BY DEF Join, Goto, IInv, TypeOK
<1>3. AfterDisable(c) \in {"close", "idle"}
  BY DEF AfterDisable
<1>4. LockInv'
  BY <1>1, <1>2, <1>3, LockInvUnchanged DEF Join, lockVars, Getter
<1>5. TypeOK'
  BY <1>1, <1>2, <1>3 DEF Join, lockVars, dbVars, nativeVars, fileVars, IInv, TypeOK,
     ClientPlaces
<1>6. Owners' = Owners
  BY <1>1, <1>2, GoAssumption DEF Owners
<1>7. OneOwner'
  BY <1>6, OneOwnerUnchanged DEF Join, dbVars, nativeVars, IInv
<1>8. UseInv' /\ JoinInv'
  BY <1>1, <1>2, <1>3 DEF Join, dbVars, nativeVars, IInv, TypeOK, UseInv, JoinInv
<1> QED
  BY <1>4, <1>5, <1>7, <1>8 DEF IInv

(* Close frees what the Database owns, and no loop owns. *)
LEMMA FinishCloseKeeps ==
  ASSUME IInv, NEW c \in Client, FinishClose(c)
  PROVE  IInv'
<1>1. c \in Thread /\ at[c] = "close" /\ Unlock /\ Granted(c)
  BY GoAssumption DEF FinishClose
<1>2. at' = [at EXCEPT ![c] = "idle"] /\ at \in [Thread -> ClientPlaces \cup LoopPlaces]
  BY DEF FinishClose, Goto, IInv, TypeOK
<1>3. LockInv' /\ holds' \in [Thread -> 0..2] /\ asleep' = {} /\ writer' = Nobody
  BY <1>1, <1>2, UnlockKeepsLockInv DEF Getter
<1>4. live' = live \ {handle} /\ handle' = NoHandle
  <2>1. NoHandle \notin live
    BY GoAssumption DEF IInv, TypeOK
  <2> QED
    BY <2>1 DEF FinishClose, FreeHandle, Closed, nativeVars
<1>5. contents' \in [Handle -> Nat] /\ using' = using
  BY DEF FinishClose, FreeHandle, nativeVars, IInv, TypeOK
<1>6. TypeOK'
  BY <1>1, <1>2, <1>3, <1>4, <1>5 DEF FinishClose, loopVars, fileVars, IInv, TypeOK,
     ClientPlaces
<1>7. Owners' = Owners /\ owned' = owned
  BY <1>1, <1>2, GoAssumption DEF Owners, FinishClose, loopVars
<1>8. OneOwner'
  BY <1>4, <1>7, GoAssumption DEF IInv, OneOwner
<1>9. UseInv'
  <2>1. \A d \in Client : /\ at'[d] \notin {"native", "nested", "native2"}
                         /\ using[d] = NoHandle
    BY <1>1, <1>2, GrantedExcludes
  <2> QED
    BY <1>5, <2>1 DEF UseInv
<1>10. JoinInv'
  BY <1>1, <1>2 DEF FinishClose, IInv, JoinInv
<1> QED
  BY <1>3, <1>6, <1>8, <1>9, <1>10 DEF IInv

-----------------------------------------------------------------------------
(* The steps of a loop. *)

LEMMA LoopIsNoClient ==
  ASSUME NEW l \in Loop
  PROVE  l \in Thread /\ l \notin Client
BY GoAssumption

(* A step of a loop that leaves the lock and the clients alone. *)
LEMMA LoopStep ==
  ASSUME IInv, NEW l \in Loop, NEW place \in LoopPlaces, Goto(l, place),
         UNCHANGED <<lockVars, clientVars, handle, using>>
  PROVE  /\ at' = [at EXCEPT ![l] = place]
         /\ at' \in [Thread -> ClientPlaces \cup LoopPlaces]
         /\ \A t \in Thread : at'[t] \in IF t \in Client THEN ClientPlaces ELSE LoopPlaces
         /\ LockInv' /\ UseInv' /\ JoinInv'
<1>1. l \in Thread /\ l \notin Client
  BY LoopIsNoClient
<1>2. at' = [at EXCEPT ![l] = place] /\ at \in [Thread -> ClientPlaces \cup LoopPlaces]
  BY DEF Goto, IInv, TypeOK
<1>3. at[l] \in LoopPlaces
  BY <1>1 DEF IInv, TypeOK
<1>4. LockInv'
  BY <1>1, <1>2, <1>3, LockInvUnchanged DEF lockVars, Getter, LoopPlaces
<1>5. \A t \in Thread : at'[t] \in IF t \in Client THEN ClientPlaces ELSE LoopPlaces
  BY <1>1, <1>2 DEF IInv, TypeOK
<1>6. \A c \in Client : at'[c] = at[c]
  BY <1>1, <1>2, GoAssumption
<1>7. UseInv' /\ JoinInv'
  BY <1>6 DEF clientVars, IInv, UseInv, JoinInv
<1> QED
  BY <1>2, <1>4, <1>5, <1>7

LEMMA ExitKeeps ==
  ASSUME IInv, NEW l \in Loop, Exit(l)
  PROVE  IInv'
<1>1. l \in Thread /\ at[l] = "waiting" /\ Goto(l, "off")
  BY LoopIsNoClient DEF Exit
<1>2. UNCHANGED <<lockVars, clientVars, handle, using>>
  BY DEF Exit, dbVars, nativeVars
<1>3. "off" \in LoopPlaces
  BY DEF LoopPlaces
<1>4. /\ at' = [at EXCEPT ![l] = "off"]
      /\ at' \in [Thread -> ClientPlaces \cup LoopPlaces]
      /\ \A t \in Thread : at'[t] \in IF t \in Client THEN ClientPlaces ELSE LoopPlaces
      /\ LockInv' /\ UseInv' /\ JoinInv'
  BY <1>1, <1>2, <1>3, LoopStep
<1>5. lastMod' \in [Loop -> Nat] /\ seen' \in [Loop -> Nat]
  BY DEF Exit, Forget, IInv, TypeOK
<1>6. TypeOK'
  BY <1>4, <1>5 DEF Exit, lockVars, dbVars, clientVars, nativeVars, fileVars, IInv, TypeOK
<1>7. Owners' = Owners
  BY <1>1, <1>4 DEF IInv, TypeOK, Owners
<1>8. OneOwner'
  BY <1>7, OneOwnerUnchanged DEF Exit, dbVars, nativeVars, IInv
<1> QED
  BY <1>4, <1>6, <1>8 DEF IInv

LEMMA TickKeeps ==
  ASSUME IInv, NEW l \in Loop, Tick(l)
  PROVE  IInv'
<1>1. l \in Thread /\ at[l] = "waiting" /\ Goto(l, "load")
  BY LoopIsNoClient DEF Tick
<1>2. UNCHANGED <<lockVars, clientVars, handle, using>>
  BY DEF Tick, dbVars, nativeVars
<1>3. "load" \in LoopPlaces
  BY DEF LoopPlaces
<1>4. /\ at' = [at EXCEPT ![l] = "load"]
      /\ at' \in [Thread -> ClientPlaces \cup LoopPlaces]
      /\ \A t \in Thread : at'[t] \in IF t \in Client THEN ClientPlaces ELSE LoopPlaces
      /\ LockInv' /\ UseInv' /\ JoinInv'
  BY <1>1, <1>2, <1>3, LoopStep
<1>5. seen' \in [Loop -> Nat]
  BY DEF Tick, IInv, TypeOK
<1>6. TypeOK'
  BY <1>4, <1>5 DEF Tick, lockVars, dbVars, clientVars, nativeVars, fileVars, IInv, TypeOK
<1>7. Owners' = Owners
  BY <1>1, <1>4 DEF IInv, TypeOK, Owners
<1>8. OneOwner'
  BY <1>7, OneOwnerUnchanged DEF Tick, dbVars, nativeVars, IInv
<1> QED
  BY <1>4, <1>6, <1>8 DEF IInv

(* The new handle is the loop's, and nobody else's. *)
LEMMA LoadFileKeeps ==
  ASSUME IInv, NEW l \in Loop, LoadFile(l)
  PROVE  IInv'
<1>1. l \in Thread /\ at[l] = "load" /\ Goto(l, "swap")
  BY LoopIsNoClient DEF LoadFile
<1>2. UNCHANGED <<lockVars, clientVars, handle, using>>
  BY DEF LoadFile, dbVars
<1>3. "swap" \in LoopPlaces
  BY DEF LoopPlaces
<1>4. /\ at' = [at EXCEPT ![l] = "swap"]
      /\ at' \in [Thread -> ClientPlaces \cup LoopPlaces]
      /\ \A t \in Thread : at'[t] \in IF t \in Client THEN ClientPlaces ELSE LoopPlaces
      /\ LockInv' /\ UseInv' /\ JoinInv'
  BY <1>1, <1>2, <1>3, LoopStep
<1> DEFINE new == Fresh(live)
<1>5. new \in Handle /\ new \notin live
  BY FreshIsNew DEF LoadFile, IInv, TypeOK
<1>6. live' = live \cup {new} /\ owned' = [owned EXCEPT ![l] = new]
  BY DEF LoadFile
<1>7. owned \in [Loop -> Handle \cup {NoHandle}] /\ owned' \in [Loop -> Handle \cup {NoHandle}]
  BY <1>5, <1>6 DEF IInv, TypeOK
<1>8. lastMod' \in [Loop -> Nat] /\ contents' \in [Handle -> Nat]
  BY DEF LoadFile, IInv, TypeOK
<1>9. TypeOK'
  BY <1>4, <1>5, <1>6, <1>7, <1>8 DEF LoadFile, lockVars, dbVars, clientVars, fileVars,
     IInv, TypeOK
<1>10. Owners' = Owners \cup {l} /\ l \notin Owners
  BY <1>1, <1>4 DEF IInv, TypeOK, Owners
<1>11. owned'[l] = new /\ \A m \in Owners : owned'[m] = owned[m] /\ owned[m] # new
  <2>1. \A m \in Owners : m \in Loop /\ m # l /\ owned[m] \in live
    BY <1>10 DEF IInv, OneOwner, Owners
  <2> QED
    BY <1>5, <1>6, <1>7, <2>1
<1>12. handle' = handle /\ new # handle
  <2>1. handle # NoHandle => handle \in live
    BY DEF IInv, OneOwner
  <2> QED
    BY <1>2, <1>5, <2>1, GoAssumption
<1>13. OneOwner'
  <2>1. live' = ({handle} \ {NoHandle}) \cup {owned'[m] : m \in Owners'}
    BY SMTT(20), <1>6, <1>10, <1>11 DEF IInv, OneOwner
  <2> QED
    BY <1>5, <1>10, <1>11, <1>12, <2>1 DEF IInv, OneOwner
<1> QED
  BY <1>4, <1>9, <1>13 DEF IInv

LEMMA FailLoadKeeps ==
  ASSUME IInv, NEW l \in Loop, FailLoad(l)
  PROVE  IInv'
<1>1. l \in Thread /\ at[l] = "load" /\ Goto(l, "waiting")
  BY LoopIsNoClient DEF FailLoad
<1>2. UNCHANGED <<lockVars, clientVars, handle, using>>
  BY DEF FailLoad, dbVars, nativeVars
<1>3. "waiting" \in LoopPlaces
  BY DEF LoopPlaces
<1>4. /\ at' = [at EXCEPT ![l] = "waiting"]
      /\ at' \in [Thread -> ClientPlaces \cup LoopPlaces]
      /\ \A t \in Thread : at'[t] \in IF t \in Client THEN ClientPlaces ELSE LoopPlaces
      /\ LockInv' /\ UseInv' /\ JoinInv'
  BY <1>1, <1>2, <1>3, LoopStep
<1>5. TypeOK'
  BY <1>4 DEF FailLoad, lockVars, dbVars, clientVars, loopVars, nativeVars, fileVars, IInv,
     TypeOK
<1>6. Owners' = Owners
  BY <1>1, <1>4 DEF IInv, TypeOK, Owners
<1>7. OneOwner'
  BY <1>6, OneOwnerUnchanged DEF FailLoad, dbVars, loopVars, nativeVars, IInv
<1> QED
  BY <1>4, <1>5, <1>7 DEF IInv

(* The two handles change owners; or the loop keeps the one that it has.     *)
LEMMA SwapKeeps ==
  ASSUME IInv, NEW l \in Loop, Swap(l)
  PROVE  IInv'
<1>1. l \in Thread /\ l \notin Client /\ at[l] = "swap" /\ Unlock /\ Granted(l)
  BY LoopIsNoClient DEF Swap
<1>2. l \in Owners /\ owned[l] \in Handle /\ owned[l] # handle
  BY <1>1 DEF Owners, IInv, OneOwner
<1> DEFINE place == IF Closed THEN "discard" ELSE "free"
<1>3. at' = [at EXCEPT ![l] = place] /\ at \in [Thread -> ClientPlaces \cup LoopPlaces]
  BY DEF Swap, Goto, IInv, TypeOK
<1>4. LockInv' /\ holds' \in [Thread -> 0..2] /\ asleep' = {} /\ writer' = Nobody
  BY <1>1, <1>3, UnlockKeepsLockInv DEF Getter
<1>5. owned \in [Loop -> Handle \cup {NoHandle}] /\ handle \in Handle \cup {NoHandle}
  BY DEF IInv, TypeOK
<1>6. IF Closed THEN handle' = handle /\ owned' = owned
                ELSE handle' = owned[l] /\ owned' = [owned EXCEPT ![l] = handle]
  BY DEF Swap
<1>7. TypeOK'
  BY <1>1, <1>2, <1>3, <1>4, <1>5, <1>6 DEF Swap, clientVars, nativeVars, fileVars, IInv,
     TypeOK, LoopPlaces
<1>8. Owners' = Owners
  BY <1>1, <1>3 DEF Owners
<1>9. OneOwner'
  <2>1. CASE Closed
    BY <1>6, <1>8, <2>1, OneOwnerUnchanged DEF Swap, nativeVars, IInv
  <2>2. CASE ~Closed
    <3>1. handle \in Handle /\ handle' = owned[l] /\ owned'[l] = handle
      BY <1>5, <1>6, <2>2 DEF Closed
    <3>2. \A m \in Owners \ {l} : /\ owned'[m] = owned[m] /\ owned[m] \in Handle
                                  /\ owned[m] # handle /\ owned[m] # owned[l]
      BY <1>2, <1>5, <1>6, <2>2 DEF Owners, IInv, OneOwner
    <3>3. live' = live /\ live = {handle} \cup {owned[m] : m \in Owners}
      BY <3>1, GoAssumption DEF Swap, nativeVars, IInv, OneOwner
    <3>4. {handle} \cup {owned[m] : m \in Owners} = {owned[l]} \cup {owned'[m] : m \in Owners}
      BY <1>2, <3>1, <3>2
    <3>5. live' = ({handle'} \ {NoHandle}) \cup {owned'[m] : m \in Owners'}
      BY <1>2, <1>8, <3>1, <3>3, <3>4, GoAssumption
    <3>6. \A m \in Owners' : owned'[m] \in Handle /\ owned'[m] # handle'
      BY <1>2, <1>8, <3>1, <3>2
    <3>7. \A m, n \in Owners' : m # n => owned'[m] # owned'[n]
      BY <1>8, <3>1, <3>2 DEF IInv, OneOwner
    <3> QED
      BY <3>5, <3>6, <3>7 DEF OneOwner
  <2> QED
    BY <2>1, <2>2
<1>10. UseInv' /\ JoinInv'
  <2>1. \A c \in Client : /\ at'[c] = at[c] /\ at[c] \notin {"native", "nested", "native2"}
                         /\ using[c] = NoHandle
    BY <1>1, <1>3, GrantedExcludes, GoAssumption
  <2> QED
    BY <2>1 DEF Swap, clientVars, nativeVars, IInv, UseInv, JoinInv
<1> QED
  BY <1>4, <1>7, <1>9, <1>10 DEF IInv

(* What only the loop knows is freed, and the loop no longer knows it. *)
LEMMA FreeOwnedKeeps ==
  ASSUME IInv, NEW l \in Loop, FreeOwned(l)
  PROVE  IInv'
<1> DEFINE place == IF at[l] = "free" THEN "waiting" ELSE "off"
<1>1. l \in Thread /\ at[l] \in {"free", "discard"} /\ Goto(l, place) /\ place \in LoopPlaces
  BY LoopIsNoClient DEF FreeOwned, LoopPlaces
<1>2. UNCHANGED <<lockVars, clientVars, handle, using>>
  BY DEF FreeOwned, FreeHandle, dbVars
<1>3. /\ at' = [at EXCEPT ![l] = place]
      /\ at' \in [Thread -> ClientPlaces \cup LoopPlaces]
      /\ \A t \in Thread : at'[t] \in IF t \in Client THEN ClientPlaces ELSE LoopPlaces
      /\ LockInv' /\ UseInv' /\ JoinInv'
  BY <1>1, <1>2, LoopStep
<1>4. live' = live \ {owned[l]} /\ contents' \in [Handle -> Nat]
  BY DEF FreeOwned, FreeHandle, IInv, TypeOK
<1>5. lastMod' \in [Loop -> Nat] /\ seen' \in [Loop -> Nat]
  BY DEF FreeOwned, Forget, IInv, TypeOK
<1>6. owned' = [owned EXCEPT ![l] = NoHandle] /\ owned \in [Loop -> Handle \cup {NoHandle}]
  BY DEF FreeOwned, IInv, TypeOK
<1>7. TypeOK'
  BY <1>2, <1>3, <1>4, <1>5, <1>6 DEF FreeOwned, lockVars, dbVars, clientVars, fileVars,
     IInv, TypeOK
<1>8. l \in Owners /\ Owners' = Owners \ {l}
  BY <1>1, <1>3 DEF IInv, TypeOK, Owners
<1>9. \A m \in Owners' : owned'[m] = owned[m] /\ owned[m] # owned[l]
  BY <1>6, <1>8 DEF Owners, IInv, OneOwner
<1>10. OneOwner'
  <2>1. live' = ({handle'} \ {NoHandle}) \cup {owned'[m] : m \in Owners'}
    BY <1>2, <1>4, <1>8, <1>9 DEF IInv, OneOwner
  <2> QED
    BY <1>2, <1>8, <1>9, <2>1 DEF IInv, OneOwner
<1> QED
  BY <1>3, <1>7, <1>10 DEF IInv

LEMMA WriteFileKeeps ==
  ASSUME IInv, WriteFile
  PROVE  IInv'
<1>1. Owners' = Owners /\ LockInv'
  BY DEF WriteFile, lockVars, Owners, IInv, LockInv, HeldBy
<1>2. TypeOK'
  BY DEF WriteFile, lockVars, dbVars, clientVars, loopVars, nativeVars, IInv, TypeOK
<1>3. OneOwner'
  BY <1>1, OneOwnerUnchanged DEF WriteFile, dbVars, loopVars, nativeVars, IInv
<1>4. UseInv' /\ JoinInv'
  BY DEF WriteFile, dbVars, clientVars, nativeVars, IInv, UseInv, JoinInv
<1> QED
  BY <1>1, <1>2, <1>3, <1>4 DEF IInv

LEMMA StutterKeeps ==
  ASSUME IInv, UNCHANGED vars
  PROVE  IInv'
<1>1. Owners' = Owners /\ LockInv'
  BY DEF vars, lockVars, Owners, IInv, LockInv, HeldBy
<1>2. TypeOK'
  BY DEF vars, lockVars, dbVars, clientVars, loopVars, nativeVars, fileVars, IInv, TypeOK
<1>3. OneOwner'
  BY <1>1, OneOwnerUnchanged DEF vars, dbVars, loopVars, nativeVars, IInv
<1>4. UseInv' /\ JoinInv'
  BY DEF vars, dbVars, clientVars, nativeVars, IInv, UseInv, JoinInv
<1> QED
  BY <1>1, <1>2, <1>3, <1>4 DEF IInv

-----------------------------------------------------------------------------
(* The Database begins with one live handle, its own. *)
LEMMA InitHolds == Init => IInv
<1> SUFFICES ASSUME Init PROVE IInv
  OBVIOUS
<1>1. handle \in Handle
  BY FreshIsNew, GoAssumption DEF Init
<1>2. \A t \in Thread : at[t] = IF t \in Client THEN "idle" ELSE "off"
  BY DEF Init
<1>3. TypeOK
  BY <1>1, <1>2 DEF Init, LockInit, TypeOK, ClientPlaces, LoopPlaces
<1>4. LockInv
  BY <1>2 DEF Init, LockInit, LockInv, HeldBy
<1>5. UseInv /\ JoinInv
  BY <1>2, GoAssumption DEF Init, UseInv, JoinInv
<1>6. Owners = {}
  BY <1>2, GoAssumption DEF Owners
<1>7. OneOwner
  BY <1>1, <1>6, GoAssumption DEF Init, OneOwner
<1> QED
  BY <1>3, <1>4, <1>5, <1>7 DEF IInv

(* Every step of a goroutine, and every write of the file, keeps the         *)
(* invariant.                                                                *)
LEMMA StepKeeps == IInv /\ [Next]_vars => IInv'
<1> SUFFICES ASSUME IInv, [Next]_vars PROVE IInv'
  OBVIOUS
<1>1. ASSUME NEW c \in Client, Start(c)
      PROVE  IInv'
  <2>1. CASE BeginGetter(c)
    BY <2>1, BeginGetterKeeps
  <2>2. CASE EnableHotReload(c)
    BY <2>2, BeginKeeps DEF EnableHotReload, IInv, TypeOK
  <2>3. CASE DisableHotReload(c)
    BY <2>3, BeginKeeps DEF DisableHotReload, IInv, TypeOK
  <2>4. CASE Close(c)
    BY <2>4, BeginKeeps DEF Close, IInv, TypeOK
  <2> QED
    BY <1>1, <2>1, <2>2, <2>3, <2>4 DEF Start
<1>2. ASSUME NEW c \in Client, Continue(c)
      PROVE  IInv'
  BY <1>2, CheckOpenKeeps, ReturnValueKeeps, ValueTypeAtKeeps, EnableKeeps, DisableKeeps,
     StopLoopKeeps, JoinKeeps, FinishCloseKeeps DEF Continue
<1>3. ASSUME NEW l \in Loop, Poll(l)
      PROVE  IInv'
  BY <1>3, TickKeeps, LoadFileKeeps, FailLoadKeeps, SwapKeeps, FreeOwnedKeeps DEF Poll
<1> QED
  BY <1>1, <1>2, <1>3, NotAnArrayKeeps, ExitKeeps, LockKeeps, WriteFileKeeps, StutterKeeps
     DEF Next

(* The invariant is inductive. *)
THEOREM InvariantHolds == Spec => []IInv
<1> QED
  BY InitHolds, StepKeeps, PTL DEF Spec

(* The types of the variables, for any number of goroutines and handles.     *)
THEOREM TypeCorrect == Spec => []TypeOK
<1>1. IInv => TypeOK
  BY DEF IInv
<1> QED
  BY <1>1, InvariantHolds, PTL

(* However reloads, closes and re-enabled loops interleave, each native      *)
(* database has one owner: none is freed twice, none is forgotten.           *)
THEOREM OneOwnerHolds == Spec => []OneOwner
<1>1. IInv => OneOwner
  BY DEF IInv
<1> QED
  BY <1>1, InvariantHolds, PTL

(* No native call of any getter outlives its lock or its handle.             *)
THEOREM CallsGuarded == Spec => []CallsAreGuarded
<1>1. ASSUME IInv PROVE CallsAreGuarded
  <2> SUFFICES ASSUME NEW c \in Client, using[c] # NoHandle
               PROVE  using[c] = handle /\ holds[c] > 0
    BY DEF CallsAreGuarded
  <2>1. using[c] = handle /\ at[c] \in {"native", "native2"}
    BY <1>1 DEF IInv, UseInv
  <2>2. c \in Thread /\ holds[c] \in {1, 2}
    BY <1>1, <2>1, GoAssumption DEF IInv, LockInv, HeldBy
  <2> QED
    BY <2>1, <2>2
<1> QED
  BY <1>1, InvariantHolds, PTL

-----------------------------------------------------------------------------
(* The refinement: each step is one of NativeHandle's, or none.              *)

LEMMA InitMaps == Init => Native!NativeInit
<1> SUFFICES ASSUME Init PROVE Native!NativeInit
  OBVIOUS
<1>1. handle \in Handle
  BY FreshIsNew, GoAssumption DEF Init
<1> QED
  BY <1>1 DEF Init, Native!NativeInit

\* checkOpen and ValueTypeAt begin a call on the handle of the Database.
LEMMA CallMaps ==
  ASSUME IInv, NEW c \in Client, NEW place, Call(c, place), at[c] \in {"read", "nested"},
         handle \in Handle
  PROVE  Native!BeginCall(c, handle)
<1>1. using[c] = NoHandle
  BY DEF IInv, UseInv
<1>2. handle \in live
  BY GoAssumption DEF IInv, OneOwner
<1> QED
  BY <1>1, <1>2 DEF Call, Native!BeginCall

\* ReturnValue and NotAnArray end one.
LEMMA ReturnMaps ==
  ASSUME IInv, NEW c \in Client, ReturnValue(c) \/ NotAnArray(c)
  PROVE  Native!EndCall(c)
<1>1. using[c] # NoHandle
  BY GoAssumption DEF ReturnValue, NotAnArray, IInv, UseInv, TypeOK
<1> QED
  BY <1>1 DEF ReturnValue, NotAnArray, Native!EndCall

\* Close frees under the lock: no getter is in a call.
LEMMA FinishCloseMaps ==
  ASSUME IInv, NEW c \in Client, FinishClose(c)
  PROVE  UNCHANGED <<live, using>> \/ (handle \in Handle /\ Native!Free(handle))
<1>1. CASE Closed
  BY <1>1 DEF FinishClose, nativeVars
<1>2. CASE ~Closed
  <2>1. handle \in Handle /\ handle \in live
    BY <1>2, GoAssumption DEF Closed, IInv, TypeOK, OneOwner
  <2>2. \A d \in Client : using[d] # handle
    BY <2>1, GrantedExcludes, GoAssumption DEF FinishClose
  <2> QED
    BY <1>2, <2>1, <2>2 DEF FinishClose, FreeHandle, Native!Free
<1> QED
  BY <1>1, <1>2

LEMMA LoadMaps ==
  ASSUME IInv, NEW l \in Loop, LoadFile(l)
  PROVE  Fresh(live) \in Handle /\ Native!Load(Fresh(live))
<1>1. Fresh(live) \in Handle /\ Fresh(live) \notin live
  BY FreshIsNew DEF LoadFile, IInv, TypeOK
<1> QED
  BY <1>1 DEF LoadFile, Native!Load

\* A loop frees without the lock, and what it frees is in no call: calls are
\* made on the Database's handle, which it has no more.
LEMMA FreeOwnedMaps ==
  ASSUME IInv, NEW l \in Loop, FreeOwned(l)
  PROVE  owned[l] \in Handle /\ Native!Free(owned[l])
<1>1. l \in Owners
  BY DEF FreeOwned, Owners
<1>2. owned[l] \in Handle /\ owned[l] # handle /\ owned[l] \in live
  BY <1>1 DEF IInv, OneOwner
<1>3. \A c \in Client : using[c] # owned[l]
  BY <1>2, GoAssumption DEF IInv, UseInv
<1> QED
  BY <1>2, <1>3 DEF FreeOwned, FreeHandle, Native!Free

LEMMA StepMaps == IInv /\ [Next]_vars => [Native!NativeNext]_(Native!nativeVars)
<1> SUFFICES ASSUME IInv, [Next]_vars
             PROVE  Native!NativeNext \/ UNCHANGED <<live, using>>
  BY DEF Native!nativeVars
<1>1. ASSUME NEW c \in Client, CheckOpen(c)
      PROVE  Native!NativeNext \/ UNCHANGED <<live, using>>
  <2>1. CASE Closed /\ Refuse(c)
    BY <2>1 DEF Refuse, nativeVars
  <2>2. CASE ~Closed /\ Call(c, "native")
    <3>1. handle \in Handle
      BY <2>2 DEF Closed, IInv, TypeOK
    <3> QED
      BY <1>1, <2>2, <3>1, CallMaps DEF CheckOpen, Native!NativeNext
  <2> QED
    BY <1>1, <2>1, <2>2 DEF CheckOpen
<1>2. ASSUME NEW c \in Client, ValueTypeAt(c)
      PROVE  Native!NativeNext
  <2>1. handle \in Handle
    BY <1>2 DEF ValueTypeAt, IInv, UseInv
  <2> QED
    BY <1>2, <2>1, CallMaps DEF ValueTypeAt, Native!NativeNext
<1>3. ASSUME NEW c \in Client, ReturnValue(c) \/ NotAnArray(c)
      PROVE  Native!NativeNext
  BY <1>3, ReturnMaps DEF Native!NativeNext
<1>4. ASSUME NEW c \in Client, FinishClose(c)
      PROVE  Native!NativeNext \/ UNCHANGED <<live, using>>
  BY <1>4, FinishCloseMaps DEF Native!NativeNext
<1>5. ASSUME NEW l \in Loop, LoadFile(l) \/ FreeOwned(l)
      PROVE  Native!NativeNext
  BY <1>5, LoadMaps, FreeOwnedMaps DEF Native!NativeNext
<1>6. ASSUME NEW c \in Client, Start(c) \/ Enable(c) \/ Disable(c) \/ StopLoop(c) \/ Join(c)
      PROVE  UNCHANGED <<live, using>>
  BY <1>6 DEF Start, BeginGetter, EnableHotReload, DisableHotReload, Close, Begin, Enable,
     Disable, StopLoop, Join, nativeVars
<1>7. ASSUME NEW l \in Loop, Exit(l) \/ Tick(l) \/ FailLoad(l) \/ Swap(l)
      PROVE  UNCHANGED <<live, using>>
  BY <1>7 DEF Exit, Tick, FailLoad, Swap, nativeVars
<1>8. ASSUME NEW t \in Thread, Lock(t)
      PROVE  UNCHANGED <<live, using>>
  BY <1>8 DEF Lock, nativeVars
<1>9. CASE WriteFile \/ UNCHANGED vars
  BY <1>9 DEF WriteFile, vars, nativeVars
<1> QED
  BY <1>1, <1>2, <1>3, <1>4, <1>5, <1>6, <1>7, <1>8, <1>9 DEF Next, Continue, Poll

(* The binding implements the C interface's rules: it calls on live handles  *)
(* only, and frees each once, with no call on it under way.                  *)
THEOREM NativeRulesKept == Spec => KeepsNativeRules
<1> QED
  BY InitMaps, InvariantHolds, StepMaps, PTL DEF Spec, KeepsNativeRules, Native!NativeSpec
=============================================================================
