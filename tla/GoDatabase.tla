------------------------------- MODULE GoDatabase -------------------------------
(***************************************************************************)
(* The Go binding's Database, shared by goroutines: getters, Close, and    *)
(* hot reload with its poll goroutine (mdix-go/database.go, watch.go).     *)
(*                                                                         *)
(* A Loop stands for one poll goroutine at a time, with its hotReloadState, *)
(* and is used again once nobody refers to it.  A critical section of      *)
(* db.mu.Lock is one step: nothing it touches is touched by anybody who    *)
(* does not hold the lock.  Every write of the file gives it a newer       *)
(* modified-time, which stands for the version written.                    *)
(***************************************************************************)
EXTENDS RWMutex

CONSTANTS
  Client, Loop,        \* goroutines that use the Database, and that poll for it
  Handle, NoHandle,    \* native databases
  MaxVersions          \* bound: versions of the file

ASSUME GoAssumption ==
  /\ Thread = Client \cup Loop /\ Client \cap Loop = {}
  /\ Handle # {} /\ NoHandle \notin Handle
  /\ MaxVersions \in Nat

VARIABLES
  handle,      \* db.handle; NoHandle once db.closed
  hotReload,   \* db.hotReload: the loop, or Nobody
  at,          \* what each goroutine does next
  closing,     \* the clients whose DisableHotReload is Close's
  joins,       \* the loop a client stops in DisableHotReload
  stopped,     \* the loops whose stop channel is closed
  lastMod,     \* state.lastMod of each loop
  seen,        \* the modified-time of each loop's reload
  owned,       \* a handle only the loop knows: one to install, or to free
  live, using, \* the native side (NativeHandle)
  contents,    \* the version each live handle was loaded from
  version, sound   \* the file: its version, and whether it loads

dbVars     == <<handle, hotReload>>
clientVars == <<closing, joins>>
loopVars   == <<stopped, lastMod, seen, owned>>
nativeVars == <<live, using, contents>>
fileVars   == <<version, sound>>
vars == <<lockVars, dbVars, at, clientVars, loopVars, nativeVars, fileVars>>

ClientPlaces == {"idle", "read", "native", "nested", "native2",
                 "enable", "disable", "stop", "join", "close"}
LoopPlaces   == {"off", "waiting", "load", "swap", "discard", "free"}

Closed == handle = NoHandle

\* A handle that is not live; which one, nobody can tell.
Fresh(S) == CHOOSE h \in Handle : h \notin S

Init ==
  /\ LockInit
  /\ handle = Fresh({}) /\ hotReload = Nobody
  /\ at = [t \in Thread |-> IF t \in Client THEN "idle" ELSE "off"]
  /\ closing = {} /\ joins = [c \in Client |-> Nobody]
  /\ stopped = {} /\ lastMod = [l \in Loop |-> 0] /\ seen = [l \in Loop |-> 0]
  /\ owned = [l \in Loop |-> NoHandle]
  /\ live = {handle} /\ using = [c \in Client |-> NoHandle]
  /\ version = 1 /\ sound = TRUE
  /\ contents = [h \in Handle |-> IF h = handle THEN 1 ELSE 0]

Goto(t, place) == at' = [at EXCEPT ![t] = place]

\* Free(h): the handle and what it holds are gone.
FreeHandle(h) ==
  /\ live' = live \ {h}
  /\ contents' = [contents EXCEPT ![h] = 0]
  /\ UNCHANGED using

-----------------------------------------------------------------------------
(* The getters, and ArrayLength, which asks for the type of what is no array *)
(* while it holds the lock.                                                  *)

BeginGetter(c) ==
  /\ at[c] = "idle"
  /\ RLock(c) /\ Goto(c, "read")
  /\ UNCHANGED <<dbVars, clientVars, loopVars, nativeVars, fileVars>>

Call(c, place) ==
  /\ using' = [using EXCEPT ![c] = handle]
  /\ Goto(c, place)
  /\ UNCHANGED <<lockVars, dbVars, clientVars, loopVars, live, contents, fileVars>>

Refuse(c) ==
  /\ RUnlockAll(c) /\ Goto(c, "idle")
  /\ UNCHANGED <<dbVars, clientVars, loopVars, nativeVars, fileVars>>

\* checkOpen, then the native call.
CheckOpen(c) ==
  /\ at[c] = "read" /\ c \notin asleep
  /\ IF Closed THEN Refuse(c) ELSE Call(c, "native")

\* Faulty variant: the call goes on when the lock is given back.
ReturnEarly(c) ==
  /\ at[c] \in {"native", "native2"}
  /\ holds[c] > 0
  /\ RUnlockAll(c)
  /\ UNCHANGED <<at, dbVars, clientVars, loopVars, nativeVars, fileVars>>

ReturnValue(c) ==
  /\ at[c] \in {"native", "native2"}
  /\ using' = [using EXCEPT ![c] = NoHandle]
  /\ RUnlockAll(c) /\ Goto(c, "idle")
  /\ UNCHANGED <<dbVars, clientVars, loopVars, live, contents, fileVars>>

\* ArrayLength's ValueTypeAt, which locks again.
NotAnArray(c) ==
  /\ at[c] = "native"
  /\ using' = [using EXCEPT ![c] = NoHandle]
  /\ RLock(c) /\ Goto(c, "nested")
  /\ UNCHANGED <<dbVars, clientVars, loopVars, live, contents, fileVars>>

ValueTypeAt(c) ==
  /\ at[c] = "nested" /\ c \notin asleep
  /\ Call(c, "native2")

-----------------------------------------------------------------------------
(* EnableHotReload, DisableHotReload and Close. *)

\* Each begins with db.mu.Lock().
Begin(c, place) ==
  /\ at[c] = "idle"
  /\ Announce(c) /\ Goto(c, place)
  /\ UNCHANGED <<dbVars, joins, loopVars, nativeVars, fileVars>>

EnableHotReload(c)  == Begin(c, "enable") /\ UNCHANGED closing
DisableHotReload(c) == Begin(c, "disable") /\ UNCHANGED closing
Close(c)            == Begin(c, "disable") /\ closing' = closing \cup {c}

LockPlaces == {"close", "swap"}

Lock(t) ==
  /\ at[t] \in LockPlaces
  /\ Announce(t)
  /\ UNCHANGED <<at, dbVars, clientVars, loopVars, nativeVars, fileVars>>

\* Bound: the loops that run, or that somebody still stops.
Unused  == {l \in Loop : at[l] = "off" /\ hotReload # l /\ \A c \in Client : joins[c] # l}
NewLoop == CHOOSE l \in Loop : l \in Unused

\* The modified-time on record is the file's at this moment, not at the Load;
\* it is zero when the file cannot be looked at.
Enable(c) ==
  /\ at[c] = "enable" /\ Granted(c) /\ Unlock
  /\ \/ /\ Closed \/ hotReload # Nobody \/ Unused = {}
        /\ Goto(c, "idle")
        /\ UNCHANGED <<hotReload, lastMod>>
     \/ /\ ~Closed /\ hotReload = Nobody /\ Unused # {}
        /\ hotReload' = NewLoop
        /\ \E mod \in {version, 0} : lastMod' = [lastMod EXCEPT ![NewLoop] = mod]
        /\ at' = [at EXCEPT ![c] = "idle", ![NewLoop] = "waiting"]
  /\ UNCHANGED <<handle, clientVars, stopped, seen, owned, nativeVars, fileVars>>

\* Where DisableHotReload leads: back to Close, or to its caller.
AfterDisable(c) == IF c \in closing THEN "close" ELSE "idle"

Disable(c) ==
  /\ at[c] = "disable" /\ Granted(c) /\ Unlock
  /\ joins' = [joins EXCEPT ![c] = hotReload]
  /\ hotReload' = Nobody
  /\ Goto(c, IF hotReload = Nobody THEN AfterDisable(c) ELSE "stop")
  /\ UNCHANGED <<handle, closing, loopVars, nativeVars, fileVars>>

\* Faulty variant: the stop channel stays open.
StopNothing(c) ==
  /\ at[c] = "stop"
  /\ Goto(c, "join")
  /\ UNCHANGED <<lockVars, dbVars, clientVars, loopVars, nativeVars, fileVars>>

StopLoop(c) ==
  /\ at[c] = "stop"
  /\ stopped' = stopped \cup {joins[c]}
  /\ Goto(c, "join")
  /\ UNCHANGED <<lockVars, dbVars, clientVars, lastMod, seen, owned, nativeVars, fileVars>>

\* `<-state.done`
Join(c) ==
  /\ at[c] = "join" /\ at[joins[c]] = "off"
  /\ joins' = [joins EXCEPT ![c] = Nobody]
  /\ stopped' = stopped \ {joins[c]}
  /\ Goto(c, AfterDisable(c))
  /\ UNCHANGED <<lockVars, dbVars, closing, lastMod, seen, owned, nativeVars, fileVars>>

\* Faulty variant: db.handle stays as it is.
CloseKeepingHandle(c) ==
  /\ at[c] = "close" /\ Granted(c) /\ Unlock
  /\ IF Closed THEN UNCHANGED nativeVars ELSE FreeHandle(handle)
  /\ closing' = closing \ {c}
  /\ Goto(c, "idle")
  /\ UNCHANGED <<dbVars, joins, loopVars, fileVars>>

FinishClose(c) ==
  /\ at[c] = "close" /\ Granted(c) /\ Unlock
  /\ IF Closed THEN UNCHANGED nativeVars ELSE FreeHandle(handle)
  /\ handle' = NoHandle
  /\ closing' = closing \ {c}
  /\ Goto(c, "idle")
  /\ UNCHANGED <<hotReload, joins, loopVars, fileVars>>

-----------------------------------------------------------------------------
(* hotReloadLoop *)

\* The times of a loop that ends are lost with it.
Forget(l) == lastMod' = [lastMod EXCEPT ![l] = 0] /\ seen' = [seen EXCEPT ![l] = 0]

Exit(l) ==
  /\ at[l] = "waiting" /\ l \in stopped
  /\ Goto(l, "off") /\ Forget(l)
  /\ UNCHANGED <<lockVars, dbVars, clientVars, stopped, owned, nativeVars, fileVars>>

\* A tick that finds a newer modified-time.
Tick(l) ==
  /\ at[l] = "waiting" /\ version > lastMod[l]
  /\ seen' = [seen EXCEPT ![l] = version]
  /\ Goto(l, "load")
  /\ UNCHANGED <<lockVars, dbVars, clientVars, stopped, lastMod, owned, nativeVars, fileVars>>

\* The file has gone further since the tick, or not.
LoadFile(l) ==
  /\ at[l] = "load" /\ sound
  /\ live # Handle
  /\ live' = live \cup {Fresh(live)}
  /\ contents' = [contents EXCEPT ![Fresh(live)] = version]
  /\ owned' = [owned EXCEPT ![l] = Fresh(live)]
  /\ lastMod' = [lastMod EXCEPT ![l] = seen[l]]
  /\ Goto(l, "swap")
  /\ UNCHANGED <<lockVars, dbVars, clientVars, stopped, seen, using, fileVars>>

\* Faulty variant: a failed load counts as seen.
FailLoadSeen(l) ==
  /\ at[l] = "load"
  /\ lastMod' = [lastMod EXCEPT ![l] = seen[l]]
  /\ Goto(l, "waiting")
  /\ UNCHANGED <<lockVars, dbVars, clientVars, stopped, seen, owned, nativeVars, fileVars>>

\* The file does not load, or cannot for the moment (it is being written, an
\* import is missing).  lastMod is left alone: the next tick tries again.
FailLoad(l) ==
  /\ at[l] = "load"
  /\ Goto(l, "waiting")
  /\ UNCHANGED <<lockVars, dbVars, clientVars, loopVars, nativeVars, fileVars>>

Swap(l) ==
  /\ at[l] = "swap" /\ Granted(l) /\ Unlock
  /\ IF Closed
     THEN Goto(l, "discard") /\ UNCHANGED <<handle, owned>>
     ELSE /\ handle' = owned[l]
          /\ owned' = [owned EXCEPT ![l] = handle]
          /\ Goto(l, "free")
  /\ UNCHANGED <<hotReload, clientVars, stopped, lastMod, seen, nativeVars, fileVars>>

\* The old handle is freed, and the callbacks run; or the new one is, and the
\* goroutine ends.
FreeOwned(l) ==
  /\ at[l] \in {"free", "discard"}
  /\ FreeHandle(owned[l])
  /\ owned' = [owned EXCEPT ![l] = NoHandle]
  /\ IF at[l] = "free"
     THEN Goto(l, "waiting") /\ UNCHANGED <<lastMod, seen>>
     ELSE Goto(l, "off") /\ Forget(l)
  /\ UNCHANGED <<lockVars, dbVars, clientVars, stopped, fileVars>>

-----------------------------------------------------------------------------
\* Somebody writes the file, which may be half written when it is read.
WriteFile ==
  /\ version < MaxVersions
  /\ version' = version + 1 /\ sound' \in BOOLEAN
  /\ UNCHANGED <<lockVars, dbVars, at, clientVars, loopVars, nativeVars>>

Start(c) == BeginGetter(c) \/ EnableHotReload(c) \/ DisableHotReload(c) \/ Close(c)
Continue(c) ==
  \/ CheckOpen(c) \/ ReturnValue(c) \/ ValueTypeAt(c)
  \/ Enable(c) \/ Disable(c) \/ StopLoop(c) \/ Join(c) \/ FinishClose(c)
Poll(l) == Tick(l) \/ LoadFile(l) \/ FailLoad(l) \/ Swap(l) \/ FreeOwned(l)

Next ==
  \/ \E c \in Client : Start(c) \/ NotAnArray(c) \/ Continue(c)
  \/ \E l \in Loop : Exit(l) \/ Poll(l)
  \/ \E t \in Thread : Lock(t)
  \/ WriteFile

\* Goroutines run; RWMutex lets a writer in in the end; a select with a closed
\* stop channel takes it in the end, whatever the ticker does; and a load that
\* could succeed again and again is not refused every time.
Fairness ==
  /\ \A c \in Client : WF_vars(Continue(c))
  /\ \A l \in Loop : WF_vars(Poll(l)) /\ SF_vars(LoadFile(l)) /\ SF_vars(Exit(l))
  /\ \A t \in Thread : SF_vars(Lock(t))

Spec == Init /\ [][Next]_vars /\ Fairness

-----------------------------------------------------------------------------
\* The types of the variables.
TypeOK ==
  /\ holds \in [Thread -> 0..2] /\ asleep \subseteq Client /\ writer \in Thread \cup {Nobody}
  /\ handle \in Handle \cup {NoHandle} /\ hotReload \in Loop \cup {Nobody}
  /\ at \in [Thread -> ClientPlaces \cup LoopPlaces]
  /\ \A t \in Thread : at[t] \in IF t \in Client THEN ClientPlaces ELSE LoopPlaces
  /\ closing \subseteq Client /\ joins \in [Client -> Loop \cup {Nobody}]
  /\ stopped \subseteq Loop
  /\ lastMod \in [Loop -> Nat] /\ seen \in [Loop -> Nat]
  /\ owned \in [Loop -> Handle \cup {NoHandle}]
  /\ live \subseteq Handle /\ using \in [Client -> Handle \cup {NoHandle}]
  /\ contents \in [Handle -> Nat]
  /\ version \in Nat /\ sound \in BOOLEAN

\* The loops that know a handle nobody else does.
Owners == {l \in Loop : at[l] \in {"swap", "discard", "free"}}

(* Every native database has one owner, at any moment of any mix of reloads, *)
(* closes and re-enabled loops: the Database, or the one loop that has yet   *)
(* to install or to free it.  So none is freed twice, and when the Database  *)
(* is closed and its loops are done, none is left.                           *)
OneOwner ==
  /\ live = ({handle} \ {NoHandle}) \cup {owned[l] : l \in Owners}
  /\ \A l \in Owners : owned[l] \in Handle /\ owned[l] # handle
  /\ \A l, m \in Owners : l # m => owned[l] # owned[m]

(* A native call runs on the handle that is installed, and the lock is held  *)
(* for as long as it runs: no reload and no Close frees it underneath.       *)
CallsAreGuarded ==
  \A c \in Client : using[c] # NoHandle => using[c] = handle /\ holds[c] > 0

(* The binding keeps to the C interface's rules (NativeHandle).              *)
Native == INSTANCE NativeHandle WITH Caller <- Client
KeepsNativeRules == Native!NativeSpec

\* A getter that waits for the lock it holds, behind a writer that waits for it.
Deadlocked == \E c \in Client : c \in asleep /\ holds[c] > 0

(* Close ends and frees, however many goroutines read, reload, enable and    *)
(* close, except in a deadlock of ArrayLength with itself.                   *)
CloseReturnsOr ==
  \A c \in Client : (c \in closing) ~> (c \notin closing \/ Deadlocked)

(* "Close must stop the poll goroutine cleanly ... If this ever deadlocks":  *)
(* Close returns.                                                            *)
CloseReturns == \A c \in Client : (c \in closing) ~> (c \notin closing)

(* A change a loop has not seen is not lost while it polls: the getters      *)
(* serve it, if the file stays as it is and loads, however many loads failed *)
(* before it ("so the very next tick retries the same change").              *)
ChangeIsServed ==
  \A l \in Loop, n \in 2..MaxVersions :
    (hotReload = l /\ version = n /\ sound /\ lastMod[l] < n) ~>
      \/ ~Closed /\ contents[handle] = n
      \/ hotReload # l \/ version # n \/ Closed \/ Deadlocked
=============================================================================
