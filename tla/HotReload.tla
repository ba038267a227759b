------------------------------- MODULE HotReload -------------------------------
(***************************************************************************)
(* HotReloadWatcher: a program polls one .mdix file, which others write,   *)
(* and reloads it when its modified-time has changed                       *)
(* (dixscript/src/Runtime/hot_reload.rs).                                  *)
(*                                                                         *)
(* Each step is one access to the file system.  The reload goes through a  *)
(* DixLoader of its own, whose cache is empty: it compiles what it reads.  *)
(* It may fail on a file that compiles (an import or a key that cannot be  *)
(* had for the moment).                                                    *)
(***************************************************************************)
EXTENDS SourceFile

CONSTANT Watched   \* the watcher's path

ASSUME WatchedAssumption == Watched \in Path

VARIABLES
  last_modified,   \* NoTime until a reload has succeeded
  held,            \* the version of the data the program got last
  at,              \* "idle", or the next step of the call under way
  began,           \* the version of the file as that call began
  mtime,           \* what force_reload's current_mtime returned
  returned         \* what the last call returned

watcherVars == <<last_modified, held, at, began, mtime, returned>>
hotVars     == <<history, watcherVars>>

Stages  == {"idle", "check", "stamp", "reload"}
Results == {"nothing", "Ok(None)", "Ok(data)", "Err"}
None    == 0   \* held before the first reload

WatcherInit ==
  /\ FileInit
  /\ last_modified = NoTime /\ held = None
  /\ at = "idle" /\ began = 0 /\ mtime = NoTime /\ returned = "nothing"

Return(result) == at' = "idle" /\ returned' = result

-----------------------------------------------------------------------------
Begin(stage) ==
  /\ at = "idle"
  /\ at' = stage
  /\ began' = Version(Watched)
  /\ UNCHANGED <<history, last_modified, held, mtime, returned>>

CheckAndReload == Begin("check")
ForceReload    == Begin("stamp")

\* Faulty variant: a file that cannot be looked at counts as unchanged.
HasChangedUnseen ==
  /\ at = "check"
  /\ IF Mtime(Watched) \in {NoTime, last_modified}
     THEN Return("Ok(None)") ELSE at' = "stamp" /\ UNCHANGED returned
  /\ UNCHANGED <<history, last_modified, held, began, mtime>>

\* has_changed
HasChanged ==
  /\ at = "check"
  /\ \/ ~Exists(Watched) /\ Return("Err")
     \/ Exists(Watched) /\ Mtime(Watched) # last_modified
        /\ at' = "stamp" /\ UNCHANGED returned
     \/ Exists(Watched) /\ Mtime(Watched) = last_modified /\ Return("Ok(None)")
  /\ UNCHANGED <<history, last_modified, held, began, mtime>>

\* force_reload reads the modified-time, again.
Stamp ==
  /\ at = "stamp"
  /\ IF Exists(Watched) THEN at' = "reload" /\ UNCHANGED returned ELSE Return("Err")
  /\ mtime' = Mtime(Watched)
  /\ UNCHANGED <<history, last_modified, held, began>>

Reload ==
  /\ at = "reload" /\ Compiles(Watched)
  /\ last_modified' = mtime
  /\ held' = Version(Watched)
  /\ Return("Ok(data)")
  /\ UNCHANGED <<history, began, mtime>>

\* Faulty variant: the stamp moves although nothing was loaded.
FailReloadStamped ==
  /\ at = "reload"
  /\ Return("Err")
  /\ last_modified' = mtime
  /\ UNCHANGED <<history, held, began, mtime>>

\* load_text fails: `?` leaves last_modified as it is.
FailReload ==
  /\ at = "reload"
  /\ Return("Err")
  /\ UNCHANGED <<history, last_modified, held, began, mtime>>

Watch == CheckAndReload \/ HasChanged \/ Stamp \/ Reload \/ FailReload

WatcherNext ==
  \/ Write(Watched) /\ UNCHANGED watcherVars
  \/ Watch \/ ForceReload

\* The program polls for ever, and a reload that could succeed again and again
\* is not refused every time.
WatcherSpec ==
  WatcherInit /\ [][WatcherNext]_hotVars /\ WF_hotVars(Watch) /\ SF_hotVars(Reload)

-----------------------------------------------------------------------------
\* The types of the watcher's variables.
WatcherTypeOK ==
  /\ HistoryOK
  /\ last_modified \in Nat /\ held \in Nat /\ began \in Nat /\ mtime \in Nat
  /\ at \in Stages /\ returned \in Results
  /\ at = "reload" => mtime # NoTime

(* "Ok(None) when the file is unchanged": the program then holds data at    *)
(* least as new as what the file held when the check began, or with the     *)
(* same modified-time.                                                      *)
NoneMeansCurrent ==
  at = "idle" /\ returned = "Ok(None)" => NotOlder(Watched, held, began)

(* A change is never given up on: once the file stays at a version that     *)
(* compiles, the program gets that version, or keeps one with its           *)
(* modified-time, after however many failures and torn saves ("so the next  *)
(* check_and_reload() call will retry").                                    *)
ChangeIsPickedUp ==
  \A n \in 1..MaxVersions :
    <>[](Version(Watched) = n /\ Compiles(Watched)) => <>[]NotOlder(Watched, held, n)
=============================================================================
