------------------------------- MODULE CsDatabase -------------------------------
(***************************************************************************)
(* The C# binding's MdixDatabase: getters, Reload, the file watcher and    *)
(* Dispose on threads of their own, without a lock around the handle       *)
(* (MdixDatabase.cs in mdix-csharp).                                       *)
(*                                                                         *)
(* A Handle is a MdixSafeHandle with the native database it wraps.  Its    *)
(* count is 1 for the owner and 1 for each DangerousAddRef; the native     *)
(* database is freed when the count reaches 0, and the framework throws    *)
(* when a handle without a count is used or released.                      *)
(***************************************************************************)
EXTENDS Integers, FiniteSets

CONSTANTS
  Reader, Reloader,   \* threads that call getters, and that reload
  MaxHandles,         \* bound: handles, the first one and one for each reload
  MaxVersions         \* bound: versions of the file

ASSUME ReadersAssumption == IsFiniteSet(Reader)

ASSUME BoundsAssumption == MaxHandles \in Nat \ {0} /\ MaxVersions \in Nat \ {0}

Handle   == 1..MaxHandles   \* in the order in which they are loaded
NoHandle == 0

VARIABLES
  safeHandle,     \* _safeHandle
  loaded,         \* how many handles there are so far
  refs,           \* the count of each handle
  released,       \* the handles whose Dispose was called
  contents,       \* the version each handle was loaded from
  disposed,       \* _disposed
  disposing,      \* where Dispose is: "not", "begun", "done"
  at,             \* what each thread does next
  ref, raw,       \* a reader's counted handle, and the one of its native call
  mine,           \* a reloader's new handle, then the one it replaced
  watching,       \* _watcher # null
  events,         \* change events on their way to HandleFileChanged
  window,         \* less than ReloadDebounceTicks since _lastReloadTick
  saved, sound,   \* the file: its version, and whether it loads
  crossed,        \* history: a handle was replaced under a getter
  missed          \* history: a save was not followed by a reload of its own

readerVars == <<ref, raw>>
fileVars   == <<saved, sound>>
watchVars  == <<watching, events, window>>
handleVars == <<loaded, refs, released, contents>>
databaseVars == <<safeHandle, handleVars, disposed, disposing, at, readerVars, mine,
                  watchVars, fileVars, crossed, missed>>

Thread == Reader \cup Reloader
MaxEvents == 2   \* bound: events on their way

Goto(t, place) == at' = [at EXCEPT ![t] = place]

DatabaseInit ==
  /\ safeHandle = 1 /\ loaded = 1
  /\ refs = [h \in Handle |-> IF h = safeHandle THEN 1 ELSE 0]
  /\ released = {} /\ contents = [h \in Handle |-> IF h = safeHandle THEN 1 ELSE 0]
  /\ disposed = FALSE /\ disposing = "not"
  /\ at = [t \in Thread |-> "idle"]
  /\ ref = [r \in Reader |-> NoHandle] /\ raw = [r \in Reader |-> NoHandle]
  /\ mine = [t \in Reloader |-> NoHandle]
  /\ watching = FALSE /\ events = 0 /\ window = FALSE
  /\ saved = 1 /\ sound = TRUE
  /\ crossed = FALSE /\ missed = TRUE

\* SafeHandle.Dispose: once for a handle; it throws when the count is gone.
DisposeHandle(h) ==
  /\ refs' = [refs EXCEPT ![h] = IF h \in released THEN @ ELSE IF @ > 0 THEN @ - 1 ELSE @]
  /\ released' = IF refs[h] > 0 THEN released \cup {h} ELSE released
  /\ UNCHANGED <<loaded, contents>>

DisposeThrows(h) == h \notin released /\ refs[h] = 0

-----------------------------------------------------------------------------
(* TryGetRawHandle, the native call, and the release in `finally`: each      *)
(* reads the field again.                                                    *)

UnlessReader == UNCHANGED <<safeHandle, loaded, released, contents, disposed, disposing, mine,
                            watchVars, fileVars, crossed, missed>>

LoadField(r) ==
  /\ at[r] = "idle" /\ ~disposed
  /\ ref' = [ref EXCEPT ![r] = safeHandle]
  /\ Goto(r, "addref")
  /\ UNCHANGED <<refs, raw>> /\ UnlessReader

\* Faulty variant: the handle is used without a count of its own.
GetUncounted(r) ==
  /\ at[r] = "addref"
  /\ Goto(r, "getraw")
  /\ UNCHANGED <<refs, ref, raw>> /\ UnlessReader

\* DangerousAddRef, which throws on a handle that is closed.
AddRef(r) ==
  /\ at[r] = "addref"
  /\ IF refs[ref[r]] = 0
     THEN Goto(r, "idle") /\ ref' = [ref EXCEPT ![r] = NoHandle] /\ UNCHANGED refs
     ELSE Goto(r, "getraw") /\ refs' = [refs EXCEPT ![ref[r]] = @ + 1] /\ UNCHANGED ref
  /\ UNCHANGED raw /\ UnlessReader

\* DangerousGetHandle, and the native call begins.
GetRaw(r) ==
  /\ at[r] = "getraw"
  /\ raw' = [raw EXCEPT ![r] = safeHandle]
  /\ Goto(r, "native")
  /\ UNCHANGED <<refs, ref>> /\ UnlessReader

\* The call returns, and `finally` releases what the field holds by then
\* (nothing, and throws, when that has no count).
ReturnValue(r) ==
  /\ at[r] = "native"
  /\ refs' = [refs EXCEPT ![safeHandle] = IF @ > 0 THEN @ - 1 ELSE @]
  /\ Goto(r, "idle")
  /\ ref' = [ref EXCEPT ![r] = NoHandle] /\ raw' = [raw EXCEPT ![r] = NoHandle]
  /\ UnlessReader

InGetter(r) == at[r] \in {"addref", "getraw", "native"}

-----------------------------------------------------------------------------
(* Reload, called by the program or by HandleFileChanged. *)

UnlessReload == UNCHANGED <<readerVars, disposing, watching, events, window, fileVars>>

\* ThrowIfDisposed, in a call of the program's.
Reload(t) ==
  /\ at[t] = "idle" /\ ~disposed
  /\ Goto(t, "load")
  /\ UNCHANGED <<safeHandle, handleVars, disposed, mine, crossed, missed>> /\ UnlessReload

\* mdix_load.  A reload that reads the current version makes up for every save
\* before it, unless an older one is still about to be installed.
LoadFile(t) ==
  /\ at[t] = "load" /\ sound
  /\ loaded < MaxHandles /\ loaded' = loaded + 1
  /\ mine' = [mine EXCEPT ![t] = loaded']
  /\ refs' = [refs EXCEPT ![loaded'] = 1]
  /\ contents' = [contents EXCEPT ![loaded'] = saved]
  /\ missed' = (\E u \in Reloader : at[u] = "swap" /\ contents[mine[u]] # saved)
  /\ Goto(t, "swap")
  /\ UNCHANGED <<safeHandle, released, disposed, crossed>> /\ UnlessReload

FailLoad(t) ==
  /\ at[t] = "load" /\ ~sound
  /\ Goto(t, "idle")
  /\ UNCHANGED <<safeHandle, handleVars, disposed, mine, crossed, missed>> /\ UnlessReload

Swap(t) ==
  /\ at[t] = "swap"
  /\ safeHandle' = mine[t]
  /\ mine' = [mine EXCEPT ![t] = safeHandle]
  /\ crossed' = (crossed \/ \E r \in Reader : InGetter(r))
  /\ Goto(t, "dispose")
  /\ UNCHANGED <<handleVars, disposed, missed>> /\ UnlessReload

\* oldSafeHandle.Dispose()
DisposeOld(t) ==
  /\ at[t] = "dispose"
  /\ DisposeHandle(mine[t])
  /\ mine' = [mine EXCEPT ![t] = NoHandle]
  /\ Goto(t, IF DisposeThrows(mine[t]) THEN "idle" ELSE "check")
  /\ UNCHANGED <<safeHandle, disposed, crossed, missed>> /\ UnlessReload

\* Faulty variant: the reload ends without a look at _disposed.
CheckNothing(t) ==
  /\ at[t] = "check"
  /\ Goto(t, "idle")
  /\ UNCHANGED <<safeHandle, handleVars, disposed, mine, crossed, missed>> /\ UnlessReload

CheckDisposed(t) ==
  /\ at[t] = "check"
  /\ Goto(t, IF disposed THEN "undo" ELSE "idle")
  /\ UNCHANGED <<safeHandle, handleVars, disposed, mine, crossed, missed>> /\ UnlessReload

\* Dispose raced in: what is installed now is nobody else's to dispose.
Undo(t) ==
  /\ at[t] = "undo"
  /\ DisposeHandle(safeHandle)
  /\ Goto(t, "idle")
  /\ UNCHANGED <<safeHandle, disposed, mine, crossed, missed>> /\ UnlessReload

-----------------------------------------------------------------------------
(* The watcher *)

UnlessWatch == UNCHANGED <<safeHandle, handleVars, disposed, disposing, readerVars, mine,
                           fileVars, crossed>>

\* ThrowIfDisposed comes before the lock that the rest is done under.
EnableHotReload(t) ==
  /\ at[t] = "idle" /\ ~disposed
  /\ Goto(t, "enable")
  /\ UNCHANGED <<watchVars, missed>> /\ UnlessWatch

InstallWatcher(t) ==
  /\ at[t] = "enable"
  /\ watching' = TRUE
  /\ Goto(t, "idle")
  /\ UNCHANGED <<events, window, missed>> /\ UnlessWatch

DisableHotReload ==
  /\ watching
  /\ watching' = FALSE /\ events' = 0
  /\ missed' = (missed \/ events > 0)
  /\ UNCHANGED <<at, window>> /\ UnlessWatch

\* Faulty variant: the tick is stored before it is compared, and the event that
\* opens a window is dropped as well.
DropFirst(t) ==
  /\ at[t] = "idle" /\ events > 0
  /\ events' = events - 1
  /\ window' = TRUE
  /\ UNCHANGED <<at, watching, missed>> /\ UnlessWatch

\* HandleFileChanged: the first event of a window, which waits 100 ms.
AcceptEvent(t) ==
  /\ at[t] = "idle" /\ events > 0 /\ ~window
  /\ events' = events - 1
  /\ window' = TRUE
  /\ Goto(t, "delay")
  /\ UNCHANGED <<watching, missed>> /\ UnlessWatch

\* An event inside the window.  Nothing remembers it; the reload that opened
\* the window makes up for it only if it has yet to read the file.
DropEvent ==
  /\ events > 0 /\ window
  /\ events' = events - 1
  /\ missed' = (missed \/ ~\E t \in Reloader : at[t] = "delay")
  /\ UNCHANGED <<at, watching, window>> /\ UnlessWatch

CloseWindow ==
  /\ window
  /\ window' = FALSE
  /\ UNCHANGED <<at, watching, events, missed>> /\ UnlessWatch

EndDelay(t) ==
  /\ at[t] = "delay"
  /\ Goto(t, IF disposed THEN "idle" ELSE "load")
  /\ UNCHANGED <<watchVars, missed>> /\ UnlessWatch

-----------------------------------------------------------------------------
(* Dispose, and the file *)

UnlessDispose == UNCHANGED <<safeHandle, at, readerVars, mine, window, fileVars, crossed>>

Dispose ==
  /\ ~disposed
  /\ disposed' = TRUE /\ disposing' = "begun"
  /\ UNCHANGED <<handleVars, watching, events, missed>> /\ UnlessDispose

\* Its DisableHotReload, and _safeHandle.Dispose().
FinishDispose ==
  /\ disposing = "begun"
  /\ disposing' = "done"
  /\ watching' = FALSE /\ events' = 0
  /\ DisposeHandle(safeHandle)
  /\ UNCHANGED <<disposed, missed>> /\ UnlessDispose

\* A save raises one event, or several.
WriteFile ==
  /\ saved < MaxVersions
  /\ saved' = saved + 1 /\ sound' \in BOOLEAN
  /\ events' \in IF watching THEN (events + 1)..MaxEvents ELSE {0}
  /\ missed' = (missed \/ ~watching)
  /\ UNCHANGED <<safeHandle, handleVars, disposed, disposing, at, readerVars, mine,
                 watching, window, crossed>>

Get(r) == LoadField(r) \/ AddRef(r) \/ GetRaw(r) \/ ReturnValue(r)

Work(t) ==
  \/ LoadFile(t) \/ FailLoad(t) \/ Swap(t) \/ DisposeOld(t) \/ CheckDisposed(t) \/ Undo(t)
  \/ InstallWatcher(t) \/ AcceptEvent(t) \/ EndDelay(t)

DatabaseNext ==
  \/ \E r \in Reader : Get(r)
  \/ \E t \in Reloader : Reload(t) \/ EnableHotReload(t) \/ Work(t)
  \/ DisableHotReload \/ DropEvent \/ CloseWindow
  \/ Dispose \/ FinishDispose
  \/ WriteFile

DatabaseSpec == DatabaseInit /\ [][DatabaseNext]_databaseVars

-----------------------------------------------------------------------------
\* The types of the variables.
DatabaseTypeOK ==
  /\ loaded \in Handle /\ safeHandle \in 1..loaded
  /\ refs \in [Handle -> 0..(1 + Cardinality(Reader))]
  /\ released \subseteq Handle /\ contents \in [Handle -> 0..MaxVersions]
  /\ disposed \in BOOLEAN /\ disposing \in {"not", "begun", "done"}
  /\ at \in [Thread -> {"idle", "addref", "getraw", "native", "load", "swap", "dispose",
                        "check", "undo", "enable", "delay"}]
  /\ ref \in [Reader -> Handle \cup {NoHandle}] /\ raw \in [Reader -> Handle \cup {NoHandle}]
  /\ mine \in [Reloader -> Handle \cup {NoHandle}]
  /\ watching \in BOOLEAN /\ events \in 0..MaxEvents /\ window \in BOOLEAN
  /\ saved \in 1..MaxVersions /\ sound \in BOOLEAN
  /\ crossed \in BOOLEAN /\ missed \in BOOLEAN

(* A native call runs on a database that is not freed under it, whatever     *)
(* reloads and disposes come in between, as long as no reload has replaced   *)
(* the handle between the reads of the field by one getter.                  *)
CallsOnLive ==
  \A r \in Reader : raw[r] # NoHandle /\ ~crossed => refs[raw[r]] > 0

AllIdle == disposing # "begun" /\ \A t \in Thread : at[t] = "idle"

\* The handles that should be live when nothing is under way.
Wanted == IF disposed THEN {} ELSE {safeHandle}

(* Each replaced handle is freed, and the last one by Dispose, also when     *)
(* Dispose comes in the middle of one or several reloads (with the same      *)
(* exception).                                                               *)
NothingLeaks == AllIdle /\ ~crossed => {h \in Handle : refs[h] > 0} = Wanted

(* While the file is watched, every save that loads is served in the end:    *)
(* the debounce drops the further events of a save and no other's.  It is    *)
(* excepted that a save falls into the window of an earlier one after that   *)
(* one's reload has begun to read, or that an older read is installed last.  *)
SavesAreServed ==
  AllIdle /\ events = 0 /\ watching /\ ~disposed /\ sound /\ ~missed =>
    contents[safeHandle] = saved
=============================================================================
