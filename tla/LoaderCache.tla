------------------------------ MODULE LoaderCache ------------------------------
(***************************************************************************)
(* DixLoader::load_text with its load_cache: threads that share a loader   *)
(* load files that are being written                                       *)
(* (dixscript/src/Runtime/loader.rs).                                      *)
(*                                                                         *)
(* Each step below is one access to the file system or one critical        *)
(* section of the load_cache mutex.  The data a load produces is known by  *)
(* the version it was read from: compiling reads nothing else of the file, *)
(* and is part of ReadSource; it may fail for other reasons (an import or  *)
(* a key that cannot be had for the moment, a @DATA section that is asked  *)
(* for and missing).  Of DixLoadOptions the model keeps enable_caching.    *)
(***************************************************************************)
EXTENDS SourceFile, FiniteSets

CONSTANTS
  Thread,
  Caching,         \* the values of enable_caching that loads are called with
  MaxCachedFiles   \* MAX_CACHED_FILES

ASSUME LoaderAssumption ==
  /\ Caching \in SUBSET BOOLEAN \ {{}}
  /\ MaxCachedFiles \in Nat \ {0}

VARIABLES
  load_cache,   \* path -> modified-time and data
  call          \* each thread's load_text: where it is, and once "done", what it returned

threadVars == <<load_cache, call>>
vars       == <<history, threadVars>>

Failed == 0     \* an answer that is no version

\* A call: its arguments, the version of the file as it began, what it has found.
Call(p, caching, place) ==
  [at |-> place, path |-> p, caching |-> caching,
   began |-> Version(p), mtime |-> NoTime, data |-> Failed]

LoaderInit ==
  /\ FileInit
  /\ load_cache = << >>
  /\ \E p \in Path, c \in Caching : call = [t \in Thread |-> Call(p, c, "done")]

\* load_text of thread t returns.
Returns(t, data) ==
  call' = [call EXCEPT ![t].at = "done", ![t].mtime = NoTime, ![t].data = data]

-----------------------------------------------------------------------------
\* load_text is called and finds the path there (or returns at once).
Load(t, p, caching) ==
  /\ call[t].at = "done"
  /\ call' = [call EXCEPT ![t] = Call(p, caching, IF Exists(p) THEN "stat" ELSE "done")]
  /\ UNCHANGED <<history, load_cache>>

ReadMtime(t) ==
  /\ call[t].at = "stat"
  /\ call' = [call EXCEPT ![t].at = "lookup", ![t].mtime = Mtime(call[t].path)]
  /\ UNCHANGED <<history, load_cache>>

Cacheable(t) == call[t].caching /\ call[t].mtime # NoTime

\* Faulty variant: an entry for the path is enough.
HitByPath(t) == Cacheable(t) /\ call[t].path \in DOMAIN load_cache

Hit(t) ==
  /\ Cacheable(t)
  /\ call[t].path \in DOMAIN load_cache
  /\ load_cache[call[t].path].mtime = call[t].mtime

\* "Serving cached load"
ServeCached(t) ==
  /\ call[t].at = "lookup" /\ Hit(t)
  /\ Returns(t, load_cache[call[t].path].data)
  /\ UNCHANGED <<history, load_cache>>

MissCache(t) ==
  /\ call[t].at = "lookup" /\ ~Hit(t)
  /\ call' = [call EXCEPT ![t].at = "read"]
  /\ UNCHANGED <<history, load_cache>>

\* fs::read, and the compilation of what it returned.
ReadSource(t) ==
  /\ call[t].at = "read" /\ Compiles(call[t].path)
  /\ call' = [call EXCEPT ![t].at = "store", ![t].data = Version(call[t].path)]
  /\ UNCHANGED <<history, load_cache>>

FailSource(t) ==
  /\ call[t].at = "read"
  /\ Returns(t, Failed)
  /\ UNCHANGED <<history, load_cache>>

\* A full cache is emptied before the insertion.
Stored(p, entry) ==
  LET kept == IF Cardinality(DOMAIN load_cache) >= MaxCachedFiles
              THEN {} ELSE DOMAIN load_cache
  IN [q \in kept \cup {p} |-> IF q = p THEN entry ELSE load_cache[q]]

\* Faulty variant: the modified-time is read after the bytes.
StoreRestamped(t) ==
  /\ call[t].at = "store"
  /\ load_cache' =
       IF Cacheable(t)
       THEN Stored(call[t].path, [mtime |-> Mtime(call[t].path), data |-> call[t].data])
       ELSE load_cache
  /\ Returns(t, call[t].data)
  /\ UNCHANGED history

Store(t) ==
  /\ call[t].at = "store"
  /\ load_cache' =
       IF Cacheable(t)
       THEN Stored(call[t].path, [mtime |-> call[t].mtime, data |-> call[t].data])
       ELSE load_cache
  /\ Returns(t, call[t].data)
  /\ UNCHANGED history

Step(t) ==
  \/ ReadMtime(t) \/ ServeCached(t) \/ MissCache(t)
  \/ ReadSource(t) \/ FailSource(t) \/ Store(t)

Next ==
  \/ \E p \in Path : Write(p) /\ UNCHANGED threadVars
  \/ \E t \in Thread, p \in Path, c \in Caching : Load(t, p, c)
  \/ \E t \in Thread : Step(t)

Spec == LoaderInit /\ [][Next]_vars

-----------------------------------------------------------------------------
Places == {"done", "stat", "lookup", "read", "store"}
Calls  == [at : Places, path : Path, caching : Caching,
           began : Nat, mtime : Nat, data : Nat]
Loaded(t) == call[t].at = "done" /\ call[t].data # Failed

\* The types of the files, the cache and the calls.
TypeOK ==
  /\ HistoryOK
  /\ DOMAIN load_cache \subseteq Path
  /\ \A p \in DOMAIN load_cache : load_cache[p] \in [mtime : Nat \ {NoTime}, data : Nat]
  /\ call \in [Thread -> Calls]

(* A cache entry never passes for a later state of the file: where one     *)
(* carries the entry's modified-time, the file had that time already when  *)
(* the data was read, however the insertions of slow and fast threads      *)
(* interleave.  load_text reads the modified-time before the bytes.        *)
CacheNeverOlder ==
  \A p \in DOMAIN load_cache :
    LET e == load_cache[p] IN
      /\ e.data \in 1..Version(p)
      /\ history[p][e.data].state \in {"sound", "cut"}
      /\ \A w \in e.data..Version(p) :
           history[p][w].mtime = e.mtime => history[p][e.data].mtime = e.mtime

(* A load never returns data older than what the file held when load_text   *)
(* was called, save where that has the same modified-time: "the *next*      *)
(* call's mtime check would no longer match and would correctly miss, not   *)
(* compound the staleness".                                                 *)
LoadsAreFresh ==
  \A t \in Thread :
    Loaded(t) => NotOlder(call[t].path, call[t].data, call[t].began)
=============================================================================
