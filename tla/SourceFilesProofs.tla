--------------------------- MODULE SourceFilesProofs ---------------------------
(***************************************************************************)
(* Proofs about the files that the runtime reads and writes.  LoaderCache  *)
(* and HotReload, for any number of threads, files, versions and cached    *)
(* files, rest on the order of two reads: the modified-time comes from a   *)
(* version no newer than the bytes.  DlmArtifacts, for any number of runs  *)
(* of one compiler, rests on what each of its steps leaves for the next.   *)
(***************************************************************************)
EXTENDS LoaderCache, HotReload, DlmArtifacts, TLAPS

\* The clock does not go back, and is never at NoTime.
ClockInv ==
  \A p \in Path : \A v, w \in 1..Version(p) :
    v <= w => /\ history[p][v].mtime <= history[p][w].mtime
              /\ history[p][v].mtime # NoTime

\* The modified-time is that of a version of p from `first' to `last'.
TimeOf(p, first, last, stamp) == \E v \in first..last : history[p][v].mtime = stamp

\* Data with the modified-time of that version or an older one.
Stamped(p, first, data, stamp) ==
  /\ data \in 1..Version(p) /\ history[p][data].state \in {"sound", "cut"}
  /\ TimeOf(p, first, data, stamp)

CacheInv ==
  \A p \in DOMAIN load_cache : Stamped(p, 1, load_cache[p].data, load_cache[p].mtime)

CallOK(c) ==
  /\ c.began \in 1..Version(c.path)
  /\ c.at \in {"lookup", "read"} /\ c.mtime # NoTime =>
       TimeOf(c.path, c.began, Version(c.path), c.mtime)
  /\ c.at = "store" =>
       /\ c.data \in c.began..Version(c.path)
       /\ history[c.path][c.data].state \in {"sound", "cut"}
       /\ c.mtime # NoTime => TimeOf(c.path, c.began, c.data, c.mtime)
  /\ c.at = "done" /\ c.data # Failed => NotOlder(c.path, c.data, c.began)

CallInv == \A t \in Thread : CallOK(call[t])

IInv == TypeOK /\ ClockInv /\ CacheInv /\ CallInv

(* The watcher's part: its data is from no earlier than its stamp, and a    *)
(* reload under way has read the time of some version.                      *)
StampInv == last_modified # NoTime => Stamped(Watched, 1, held, last_modified)

BeganInv ==
  /\ began <= Version(Watched)
  /\ at # "idle" \/ returned # "nothing" => began > 0

ReloadInv == at = "reload" => TimeOf(Watched, 1, Version(Watched), mtime)

WatcherInv ==
  WatcherTypeOK /\ ClockInv /\ StampInv /\ BeganInv /\ ReloadInv /\ NoneMeansCurrent

\* What a write does to the files.
Grows ==
  \A q \in Path :
    /\ Version(q) \in Nat \ {0} /\ Version(q)' \in Nat /\ Version(q) <= Version(q)'
    /\ \A v \in 1..Version(q) : history'[q][v] = history[q][v]

-----------------------------------------------------------------------------
(* What Len and Append give. *)
LEMMA SeqFacts ==
  ASSUME NEW S, NEW s \in Seq(S), NEW x \in S
  PROVE  /\ Len(s) \in Nat /\ \A i \in 1..Len(s) : s[i] \in S
         /\ Append(s, x) \in Seq(S) /\ Len(Append(s, x)) = Len(s) + 1
         /\ \A i \in 1..Len(s) : Append(s, x)[i] = s[i]
         /\ Append(s, x)[Len(s) + 1] = x
  OBVIOUS

(* A version number is a number, and the versions up to it are there. *)
LEMMA VersionIsNat ==
  ASSUME HistoryOK, NEW p \in Path
  PROVE  /\ Version(p) \in Nat \ {0}
         /\ \A v \in 1..Version(p) : history[p][v] \in [state : States, mtime : Nat]
<1> DEFINE R == [state : States, mtime : Nat]
<1>1. history[p] \in Seq(R) /\ Version(p) > 0
  BY DEF HistoryOK
<1>2. [state |-> "sound", mtime |-> 1] \in R
  BY DEF States
<1> HIDE DEF R
<1>3. Len(history[p]) \in Nat /\ \A v \in 1..Len(history[p]) : history[p][v] \in R
  BY <1>1, <1>2, SeqFacts
<1> QED
  BY <1>1, <1>3 DEF Version, R

(* Every file starts with one version. *)
LEMMA FileInitOK ==
  ASSUME FileInit
  PROVE  HistoryOK /\ ClockInv /\ \A p \in Path : Version(p) = 1
<1>1. \A p \in Path : history[p] = <<[state |-> "sound", mtime |-> 1]>> /\ Version(p) = 1
  BY DEF FileInit, Version
<1>2. HistoryOK
  BY <1>1 DEF FileInit, HistoryOK, States
<1>3. ClockInv
  BY <1>1 DEF ClockInv, NoTime
<1> QED
  BY <1>1, <1>2, <1>3

(* Nothing is yet loaded when the program starts. *)
LEMMA InitIInv == LoaderInit => IInv
<1> SUFFICES ASSUME LoaderInit PROVE IInv
  OBVIOUS
<1>1. HistoryOK /\ ClockInv /\ \A p \in Path : Version(p) = 1
  BY FileInitOK DEF LoaderInit
<1>2. PICK p \in Path, c \in Caching : call = [t \in Thread |-> Call(p, c, "done")]
  BY DEF LoaderInit
<1>3. call \in [Thread -> Calls] /\ CallInv
  BY <1>1, <1>2 DEF Calls, Call, Places, CallInv, CallOK, NoTime, Failed
<1>4. DOMAIN load_cache = {}
  BY DEF LoaderInit
<1> QED
  BY <1>1, <1>3, <1>4 DEF IInv, TypeOK, CacheInv

(* A write adds a version, and leaves the others as they are. *)
LEMMA WriteAppends ==
  ASSUME HistoryOK, ClockInv, NEW p \in Path, Write(p)
  PROVE  HistoryOK' /\ ClockInv' /\ Grows
<1>1. PICK state \in States, tick \in {0, 1} :
        history' = [history EXCEPT ![p] =
          Append(history[p], [state |-> state, mtime |-> Latest(p).mtime + tick])]
  BY DEF Write
<1> DEFINE last == history[p][Version(p)].mtime
           new  == [state |-> state, mtime |-> last + tick]
<1>2. last \in Nat /\ last # NoTime /\ new \in [state : States, mtime : Nat]
  BY VersionIsNat DEF ClockInv
<1> HIDE DEF last
<1>3. /\ history'[p] = Append(history[p], new)
      /\ \A q \in Path \ {p} : history'[q] = history[q]
      /\ DOMAIN history' = Path
  BY <1>1 DEF HistoryOK, Latest, last
<1>4. /\ history'[p] \in Seq([state : States, mtime : Nat])
      /\ Version(p)' = Version(p) + 1
      /\ \A v \in 1..Version(p) : history'[p][v] = history[p][v]
      /\ history'[p][Version(p) + 1] = new
  <2> DEFINE R == [state : States, mtime : Nat]
  <2>1. history[p] \in Seq(R) /\ new \in R
    BY <1>2 DEF HistoryOK
  <2> HIDE DEF R, new
  <2>2. /\ Append(history[p], new) \in Seq(R)
        /\ Len(Append(history[p], new)) = Len(history[p]) + 1
        /\ \A i \in 1..Len(history[p]) : Append(history[p], new)[i] = history[p][i]
        /\ Append(history[p], new)[Len(history[p]) + 1] = new
    BY <2>1, SeqFacts
  <2> QED
    BY <2>2, <1>3 DEF R, Version
<1>5. \A q \in Path \ {p} : Version(q)' = Version(q)
  BY <1>3 DEF Version
<1>6. HistoryOK'
  <2>1. \A q \in Path : Version(q)' > 0
    <3>1. Version(p)' > 0
      BY <1>4, VersionIsNat
    <3>2. \A q \in Path \ {p} : Version(q)' > 0
      BY <1>5, VersionIsNat
    <3> QED
      BY <3>1, <3>2
  <2>2. \A q \in Path : history'[q] \in Seq([state : States, mtime : Nat])
    <3> DEFINE R == [state : States, mtime : Nat]
    <3>1. history'[p] \in Seq(R) /\ \A q \in Path : history[q] \in Seq(R)
      BY <1>4 DEF HistoryOK
    <3> HIDE DEF R
    <3>2. \A q \in Path : history'[q] \in Seq(R)
      BY <3>1, <1>3
    <3> QED
      BY <3>2 DEF R
  <2> QED
    BY <2>1, <2>2, <1>3 DEF HistoryOK
<1>7. ClockInv'
  <2> SUFFICES ASSUME NEW q \in Path, NEW v \in 1..Version(q)', NEW w \in 1..Version(q)', v <= w
               PROVE  history'[q][v].mtime <= history'[q][w].mtime /\ history'[q][v].mtime # NoTime
    BY DEF ClockInv
  <2>1. CASE q # p
    BY <2>1, <1>3, <1>5 DEF ClockInv
  <2>2. CASE q = p /\ w <= Version(p)
    <3>1. v \in 1..Version(p) /\ w \in 1..Version(p)
      BY <2>2, <1>4, VersionIsNat
    <3> QED
      BY <3>1, <2>2, <1>4 DEF ClockInv
  <2>3. CASE q = p /\ w = Version(p) + 1 /\ v <= Version(p)
    <3>1. history[p][v].mtime <= last /\ history[p][v].mtime # NoTime /\ history[p][v].mtime \in Nat
      BY <2>3, VersionIsNat DEF ClockInv, last
    <3>2. new.mtime = last + tick
      OBVIOUS
    <3> HIDE DEF new
    <3>3. history'[q][v] = history[p][v] /\ history'[q][w] = new
      BY <2>3, <1>4
    <3> QED
      BY <3>1, <3>2, <3>3, <1>2
  <2>4. CASE q = p /\ w = Version(p) + 1 /\ v = w
    BY <2>4, <1>2, <1>4 DEF NoTime
  <2>5. q = p => w <= Version(p) \/ (w = Version(p) + 1 /\ (v <= Version(p) \/ v = w))
    BY <1>4, VersionIsNat
  <2> QED
    BY <2>1, <2>2, <2>3, <2>4, <2>5
<1>8. ASSUME NEW q \in Path
      PROVE  /\ Version(q) \in Nat \ {0} /\ Version(q)' \in Nat /\ Version(q) <= Version(q)'
             /\ \A v \in 1..Version(q) : history'[q][v] = history[q][v]
  <2>1. CASE q = p
    BY <2>1, <1>4, VersionIsNat
  <2>2. CASE q # p
    BY <2>2, <1>3, <1>5, VersionIsNat
  <2> QED
    BY <2>1, <2>2
<1> QED
  BY <1>6, <1>7, <1>8 DEF Grows

(* The time of a version stays the time of one. *)
LEMMA TimeOfKeeps ==
  ASSUME Grows, NEW q \in Path, NEW first \in Nat \ {0}, NEW last \in 1..Version(q),
         NEW stamp, TimeOf(q, first, last, stamp),
         NEW later \in Nat, last <= later
  PROVE  TimeOf(q, first, later, stamp)'
<1>1. PICK v \in first..last : history[q][v].mtime = stamp
  BY DEF TimeOf
<1>2. v \in 1..Version(q) /\ v \in first..later
  BY DEF Grows
<1> QED
  BY <1>1, <1>2 DEF TimeOf, Grows

(* What is not older than a version stays so. *)
LEMMA NotOlderKeeps ==
  ASSUME Grows, NEW q \in Path, NEW v, NEW w \in 1..Version(q), NotOlder(q, v, w)
  PROVE  NotOlder(q, v, w)'
<1>1. /\ Version(q) \in Nat /\ Version(q)' \in Nat
      /\ \A u \in 1..Version(q) : u \in 1..Version(q)' /\ history'[q][u] = history[q][u]
  BY DEF Grows
<1>2. v \in 1..Version(q) /\ v \in 1..Version(q)'
  BY <1>1 DEF NotOlder
<1>3. CASE v >= w
  BY <1>2, <1>3 DEF NotOlder
<1>4. CASE ~(v >= w)
  <2>1. PICK u \in w..Version(q) : history[q][u].mtime = history[q][v].mtime
    BY <1>4 DEF NotOlder
  <2>2. u \in 1..Version(q) /\ u \in w..Version(q)'
    BY <1>1, <2>1
  <2>3. history'[q][u].mtime = history'[q][v].mtime
    BY <1>1, <1>2, <2>1, <2>2
  <2> QED
    BY <1>2, <2>2, <2>3 DEF NotOlder
<1> QED
  BY <1>3, <1>4

(* Data keeps the time of its version or of an older one. *)
LEMMA StampedKeeps ==
  ASSUME Grows, NEW q \in Path, NEW data, NEW stamp, Stamped(q, 1, data, stamp)
  PROVE  Stamped(q, 1, data, stamp)'
<1>1. data \in 1..Version(q) /\ data \in Nat /\ Version(q) \in Nat
  BY DEF Stamped, Grows
<1>2. TimeOf(q, 1, data, stamp)'
  BY <1>1, TimeOfKeeps DEF Stamped
<1> QED
  BY <1>1, <1>2 DEF Stamped, Grows

(* What is known of a file's versions stays known when it is written. *)
LEMMA WriteKeeps ==
  ASSUME IInv, NEW p \in Path, Write(p), UNCHANGED threadVars
  PROVE  IInv'
<1>1. HistoryOK' /\ ClockInv' /\ Grows
  BY WriteAppends DEF IInv, TypeOK
<1>2. load_cache' = load_cache /\ call' = call
  BY DEF threadVars
<1>3. CacheInv'
  <2> SUFFICES ASSUME NEW q \in DOMAIN load_cache
               PROVE  Stamped(q, 1, load_cache[q].data, load_cache[q].mtime)'
    BY <1>2 DEF CacheInv
  <2>1. PICK e : e = load_cache[q]
    OBVIOUS
  <2>2. q \in Path /\ Stamped(q, 1, e.data, e.mtime)
    BY <2>1 DEF IInv, TypeOK, CacheInv
  <2>3. Stamped(q, 1, e.data, e.mtime)'
    BY <2>2, <1>1, StampedKeeps
  <2> QED
    BY <2>1, <2>3, <1>2
<1>4. CallInv'
  <2> SUFFICES ASSUME NEW t \in Thread PROVE CallOK(call[t])'
    BY <1>2 DEF CallInv
  <2>1. PICK c : c = call[t]
    OBVIOUS
  <2>2. CallOK(c) /\ c.path \in Path /\ c.began \in Nat /\ c.data \in Nat
    BY <2>1 DEF IInv, TypeOK, CallInv, Calls
  <2>3. PICK q \in Path : q = c.path
    BY <2>2
  <2>4. /\ Version(q) \in Nat \ {0} /\ Version(q)' \in Nat /\ Version(q) <= Version(q)'
        /\ c.began \in 1..Version(q)
    BY <2>2, <2>3, <1>1 DEF Grows, CallOK
  <2>5. c.began \in 1..Version(q)'
    BY <2>4
  <2>6. ASSUME c.at \in {"lookup", "read"}, c.mtime # NoTime
        PROVE  TimeOf(q, c.began, Version(q), c.mtime)'
    <3>1. PICK n \in Nat, m \in Nat : n = Version(q) /\ m = Version(q)'
      BY <2>4
    <3>2. TimeOf(q, c.began, n, c.mtime) /\ c.began \in Nat \ {0} /\ n \in 1..Version(q)
      BY <2>2, <2>3, <2>4, <2>6, <3>1 DEF CallOK
    <3>3. TimeOf(q, c.began, m, c.mtime)'
      BY <3>1, <3>2, <2>4, <1>1, TimeOfKeeps
    <3> QED
      BY <3>1, <3>3
  <2>7. ASSUME c.at = "store"
        PROVE  /\ c.data \in c.began..Version(q)'
               /\ history'[q][c.data].state \in {"sound", "cut"}
               /\ c.mtime # NoTime => TimeOf(q, c.began, c.data, c.mtime)'
    <3>1. /\ c.began \in 1..Version(q) /\ c.data \in c.began..Version(q)
          /\ history[q][c.data].state \in {"sound", "cut"}
          /\ c.mtime # NoTime => TimeOf(q, c.began, c.data, c.mtime)
      BY <2>2, <2>3, <2>7 DEF CallOK
    <3>2. c.data \in 1..Version(q) /\ c.data \in c.began..Version(q)' /\ c.began \in Nat \ {0}
      BY <3>1, <2>4
    <3>3. c.mtime # NoTime => TimeOf(q, c.began, c.data, c.mtime)'
      BY <3>1, <3>2, <2>2, <1>1, TimeOfKeeps
    <3> QED
      BY <3>1, <3>2, <3>3, <1>1 DEF Grows
  <2>8. ASSUME c.at = "done", c.data # Failed
        PROVE  NotOlder(q, c.data, c.began)'
    BY <2>2, <2>3, <2>4, <2>8, <1>1, NotOlderKeeps DEF CallOK
  <2> QED
    BY <2>1, <2>3, <2>5, <2>6, <2>7, <2>8, <1>2 DEF CallOK
<1> QED
  BY <1>1, <1>2, <1>3, <1>4 DEF IInv, TypeOK

(* A step of one thread leaves the other calls, and the files. *)
LEMMA CallKeeps ==
  ASSUME IInv, NEW t \in Thread, NEW c \in Calls, call' = [call EXCEPT ![t] = c],
         UNCHANGED history, CallOK(c)
  PROVE  call' \in [Thread -> Calls] /\ CallInv' /\ HistoryOK' /\ ClockInv'
<1>1. call' \in [Thread -> Calls]
  BY DEF IInv, TypeOK
<1>2. \A u \in Thread : CallOK(call'[u])
  BY DEF IInv, TypeOK, CallInv
<1>3. \A p : Version(p)' = Version(p)
  BY DEF Version
<1>4. CallInv'
  BY <1>2, <1>3 DEF CallInv, CallOK, TimeOf, NotOlder
<1> QED
  BY <1>1, <1>3, <1>4 DEF IInv, TypeOK, HistoryOK, ClockInv

(* The cache stays, and with it what is known of it. *)
LEMMA CacheKeeps ==
  ASSUME IInv, UNCHANGED <<history, load_cache>>,
         call' \in [Thread -> Calls], CallInv', HistoryOK', ClockInv'
  PROVE  IInv'
<1>1. \A p : Version(p)' = Version(p)
  BY DEF Version
<1>2. CacheInv'
  BY <1>1 DEF IInv, CacheInv, Stamped, TimeOf
<1> QED
  BY <1>2 DEF IInv, TypeOK

(* load_text is called. *)
LEMMA LoadPreserves ==
  ASSUME IInv, NEW t \in Thread, NEW p \in Path, NEW c \in Caching, Load(t, p, c)
  PROVE  IInv'
<1>1. \A place \in Places : Call(p, c, place) \in Calls
  BY VersionIsNat DEF IInv, TypeOK, Call, Calls, NoTime, Failed
<1>2. Call(p, c, IF Exists(p) THEN "stat" ELSE "done") \in Calls
  BY <1>1 DEF Places
<1>3. CallOK(Call(p, c, IF Exists(p) THEN "stat" ELSE "done"))
  BY VersionIsNat DEF IInv, TypeOK, Call, CallOK, Failed
<1> QED
  BY <1>2, <1>3, CallKeeps, CacheKeeps DEF Load

(* The modified-time is that of the latest version. *)
LEMMA ReadMtimePreserves ==
  ASSUME IInv, NEW t \in Thread, ReadMtime(t)
  PROVE  IInv'
<1> DEFINE c == [call[t] EXCEPT !.at = "lookup", !.mtime = Mtime(call[t].path)]
<1>1. /\ call[t] \in Calls /\ CallOK(call[t]) /\ call[t].path \in Path /\ HistoryOK
      /\ call' = [call EXCEPT ![t] = c]
  BY DEF IInv, TypeOK, CallInv, Calls, ReadMtime
<1>2. /\ Version(call[t].path) \in Nat \ {0} /\ Mtime(call[t].path) \in Nat
      /\ Mtime(call[t].path) # NoTime =>
           history[call[t].path][Version(call[t].path)].mtime = Mtime(call[t].path)
  BY <1>1, VersionIsNat DEF Mtime, Latest, NoTime
<1>3. c \in Calls /\ c.at = "lookup" /\ c.path = call[t].path
      /\ c.began = call[t].began /\ c.mtime = Mtime(call[t].path)
  BY <1>1, <1>2 DEF Calls, Places
<1> HIDE DEF c
<1>4. c.began \in 1..Version(c.path)
  BY <1>1, <1>3 DEF CallOK
<1>5. c.mtime # NoTime => TimeOf(c.path, c.began, Version(c.path), c.mtime)
  BY <1>2, <1>3, <1>4 DEF TimeOf
<1>6. CallOK(c)
  BY <1>3, <1>4, <1>5 DEF CallOK
<1> QED
  BY <1>1, <1>3, <1>6, CallKeeps, CacheKeeps DEF ReadMtime

(* A call that returns nothing, or something no older than its beginning. *)
LEMMA ReturnsOK ==
  ASSUME IInv, NEW t \in Thread, NEW data \in Nat, Returns(t, data), UNCHANGED history,
         data # Failed => NotOlder(call[t].path, data, call[t].began)
  PROVE  call' \in [Thread -> Calls] /\ CallInv' /\ HistoryOK' /\ ClockInv'
<1> DEFINE c == [call[t] EXCEPT !.at = "done", !.mtime = NoTime, !.data = data]
<1>1. call[t] \in Calls /\ CallOK(call[t]) /\ call' = [call EXCEPT ![t] = c]
  BY DEF IInv, TypeOK, CallInv, Returns
<1>2. c \in Calls /\ c.at = "done" /\ c.path = call[t].path
      /\ c.began = call[t].began /\ c.data = data
  BY <1>1 DEF Calls, Places, NoTime
<1> HIDE DEF c
<1>3. CallOK(c)
  BY <1>1, <1>2 DEF CallOK
<1> QED
  BY <1>1, <1>2, <1>3, CallKeeps

(* What carries the modified-time of a version of p carries that of every  *)
(* later one that has it.                                                  *)
LEMMA StampFits ==
  ASSUME ClockInv, HistoryOK, NEW p \in Path, NEW data, NEW stamp, Stamped(p, 1, data, stamp),
         NEW w \in data..Version(p), history[p][w].mtime = stamp
  PROVE  history[p][data].mtime = stamp
<1>1. Version(p) \in Nat /\ data \in 1..Version(p)
  BY VersionIsNat DEF Stamped
<1>2. PICK v \in 1..data : history[p][v].mtime = stamp
  BY DEF Stamped, TimeOf
<1>3. v \in 1..Version(p) /\ w \in 1..Version(p) /\ v <= data /\ data <= w
  BY <1>1
<1>4. /\ history[p][v].mtime <= history[p][data].mtime
      /\ history[p][data].mtime <= history[p][w].mtime
      /\ history[p][v].mtime \in Nat /\ history[p][data].mtime \in Nat
  BY <1>1, <1>3, VersionIsNat DEF ClockInv
<1> QED
  BY <1>2, <1>4

(* What the cache has under the modified-time that was read is as new as   *)
(* the call.                                                               *)
LEMMA ServeCachedPreserves ==
  ASSUME IInv, NEW t \in Thread, ServeCached(t)
  PROVE  IInv'
<1> DEFINE c == call[t]
           e == load_cache[c.path]
<1>1. /\ c.at = "lookup" /\ c.mtime # NoTime /\ c.path \in DOMAIN load_cache
      /\ e.mtime = c.mtime /\ Returns(t, e.data) /\ UNCHANGED <<history, load_cache>>
  BY DEF ServeCached, Hit, Cacheable
<1>2. /\ c.path \in Path /\ e.data \in Nat /\ CallOK(c) /\ HistoryOK /\ ClockInv
      /\ Stamped(c.path, 1, e.data, e.mtime)
  BY <1>1 DEF IInv, TypeOK, CallInv, CacheInv
<1> HIDE DEF c, e
<1>3. /\ Version(c.path) \in Nat /\ c.began \in 1..Version(c.path)
      /\ e.data \in 1..Version(c.path)
  BY <1>2, VersionIsNat DEF CallOK, Stamped
<1>4. PICK v \in c.began..Version(c.path) : history[c.path][v].mtime = c.mtime
  BY <1>1, <1>2 DEF CallOK, TimeOf
<1>5. CASE e.data >= c.began
  <2>1. NotOlder(c.path, e.data, c.began)
    BY <1>3, <1>5 DEF NotOlder
  <2> QED
    BY <2>1, <1>1, <1>2, ReturnsOK, CacheKeeps DEF c
<1>6. CASE ~(e.data >= c.began)
  <2>1. v \in e.data..Version(c.path)
    BY <1>3, <1>6
  <2>2. history[c.path][e.data].mtime = e.mtime
    BY <2>1, <1>1, <1>2, <1>4, StampFits
  <2>3. NotOlder(c.path, e.data, c.began)
    BY <2>2, <1>1, <1>3, <1>4 DEF NotOlder
  <2> QED
    BY <2>3, <1>1, <1>2, ReturnsOK, CacheKeeps DEF c
<1> QED
  BY <1>5, <1>6

(* Nothing is found, and the file will be read. *)
LEMMA MissCachePreserves ==
  ASSUME IInv, NEW t \in Thread, MissCache(t)
  PROVE  IInv'
<1> DEFINE c == [call[t] EXCEPT !.at = "read"]
<1>1. /\ call[t] \in Calls /\ CallOK(call[t]) /\ call[t].at = "lookup"
      /\ call' = [call EXCEPT ![t] = c]
  BY DEF IInv, TypeOK, CallInv, MissCache
<1>2. c \in Calls /\ c.at = "read" /\ c.path = call[t].path
      /\ c.began = call[t].began /\ c.mtime = call[t].mtime
  BY <1>1 DEF Calls, Places
<1> HIDE DEF c
<1>3. CallOK(c)
  BY <1>1, <1>2 DEF CallOK
<1> QED
  BY <1>1, <1>2, <1>3, CallKeeps, CacheKeeps DEF MissCache

(* The bytes are those of the latest version, the time of one before it. *)
LEMMA ReadSourcePreserves ==
  ASSUME IInv, NEW t \in Thread, ReadSource(t)
  PROVE  IInv'
<1> DEFINE c == [call[t] EXCEPT !.at = "store", !.data = Version(call[t].path)]
<1>1. /\ call[t] \in Calls /\ CallOK(call[t]) /\ call[t].at = "read"
      /\ call[t].path \in Path /\ HistoryOK /\ call' = [call EXCEPT ![t] = c]
      /\ Compiles(call[t].path)
  BY DEF IInv, TypeOK, CallInv, Calls, ReadSource
<1>2. Version(call[t].path) \in Nat \ {0}
  BY <1>1, VersionIsNat
<1>3. c \in Calls /\ c.at = "store" /\ c.path = call[t].path
      /\ c.began = call[t].began /\ c.mtime = call[t].mtime
      /\ c.data = Version(call[t].path)
  BY <1>1, <1>2 DEF Calls, Places
<1> HIDE DEF c
<1>4. c.began \in 1..Version(c.path) /\ c.data \in c.began..Version(c.path)
  BY <1>1, <1>2, <1>3 DEF CallOK
<1>5. history[c.path][c.data].state \in {"sound", "cut"}
  BY <1>1, <1>3 DEF Compiles, Latest
<1>6. c.mtime # NoTime => TimeOf(c.path, c.began, c.data, c.mtime)
  BY <1>1, <1>3 DEF CallOK
<1>7. CallOK(c)
  BY <1>3, <1>4, <1>5, <1>6 DEF CallOK
<1> QED
  BY <1>1, <1>3, <1>7, CallKeeps, CacheKeeps DEF ReadSource

(* A load that fails returns nothing. *)
LEMMA FailSourcePreserves ==
  ASSUME IInv, NEW t \in Thread, FailSource(t)
  PROVE  IInv'
<1>1. Failed \in Nat
  BY DEF Failed
<1> QED
  BY <1>1, ReturnsOK, CacheKeeps DEF FailSource

(* What is put into the cache was read after its modified-time. *)
LEMMA StorePreserves ==
  ASSUME IInv, NEW t \in Thread, Store(t)
  PROVE  IInv'
<1> DEFINE c == call[t]
           e == [mtime |-> c.mtime, data |-> c.data]
<1>1. /\ c.at = "store" /\ Returns(t, c.data) /\ UNCHANGED history
      /\ load_cache' = IF Cacheable(t) THEN Stored(c.path, e) ELSE load_cache
  BY DEF Store
<1>2. /\ c \in Calls /\ c.path \in Path /\ c.data \in Nat /\ c.mtime \in Nat
      /\ CallOK(c) /\ HistoryOK
  BY DEF IInv, TypeOK, CallInv, Calls
<1>3. Cacheable(t) => c.mtime # NoTime
  BY DEF Cacheable
<1>4. e.mtime = c.mtime /\ e.data = c.data
  OBVIOUS
<1> HIDE DEF c, e
<1>5. /\ Version(c.path) \in Nat /\ c.began \in 1..Version(c.path)
      /\ c.data \in c.began..Version(c.path)
      /\ history[c.path][c.data].state \in {"sound", "cut"}
      /\ c.mtime # NoTime => TimeOf(c.path, c.began, c.data, c.mtime)
  BY <1>1, <1>2, VersionIsNat DEF CallOK
<1>6. NotOlder(c.path, c.data, c.began)
  BY <1>5 DEF NotOlder
<1>7. call' \in [Thread -> Calls] /\ CallInv' /\ HistoryOK' /\ ClockInv'
  BY <1>1, <1>2, <1>6, ReturnsOK DEF c
<1>8. CASE ~Cacheable(t)
  BY <1>1, <1>7, <1>8, CacheKeeps
<1>9. CASE Cacheable(t)
  <2>1. Stamped(c.path, 1, c.data, c.mtime)
    <3>1. PICK v \in c.began..c.data : history[c.path][v].mtime = c.mtime
      BY <1>3, <1>5, <1>9 DEF TimeOf
    <3>2. v \in 1..c.data /\ c.data \in 1..Version(c.path)
      BY <1>5
    <3> QED
      BY <3>1, <3>2, <1>5 DEF Stamped, TimeOf
  <2>2. \A q \in DOMAIN load_cache' :
          \/ q = c.path /\ load_cache'[q] = e
          \/ q \in DOMAIN load_cache /\ load_cache'[q] = load_cache[q]
    BY <1>1, <1>9 DEF Stored
  <2>3. e \in [mtime : Nat \ {NoTime}, data : Nat]
    BY <1>2, <1>3, <1>9 DEF e
  <2>4. \A q \in DOMAIN load_cache' :
          q \in Path /\ load_cache'[q] \in [mtime : Nat \ {NoTime}, data : Nat]
    BY <2>2, <2>3, <1>2 DEF IInv, TypeOK
  <2>5. \A q \in DOMAIN load_cache' : Stamped(q, 1, load_cache'[q].data, load_cache'[q].mtime)
    BY <2>1, <2>2, <1>4 DEF IInv, CacheInv
  <2>6. \A p : Version(p)' = Version(p)
    BY <1>1 DEF Version
  <2>7. CacheInv'
    BY <2>5, <2>6, <1>1 DEF CacheInv, Stamped, TimeOf
  <2> QED
    BY <2>4, <2>7, <1>7 DEF IInv, TypeOK
<1> QED
  BY <1>8, <1>9

-----------------------------------------------------------------------------
(* Every step keeps the invariant. *)
LEMMA NextIInv == IInv /\ [Next]_vars => IInv'
<1> SUFFICES ASSUME IInv, [Next]_vars PROVE IInv'
  OBVIOUS
<1>1. ASSUME NEW p \in Path, Write(p), UNCHANGED threadVars PROVE IInv'
  BY <1>1, WriteKeeps
<1>2. ASSUME NEW t \in Thread, NEW p \in Path, NEW c \in Caching, Load(t, p, c) PROVE IInv'
  BY <1>2, LoadPreserves
<1>3. ASSUME NEW t \in Thread, Step(t) PROVE IInv'
  BY <1>3, ReadMtimePreserves, ServeCachedPreserves, MissCachePreserves,
     ReadSourcePreserves, FailSourcePreserves, StorePreserves DEF Step
<1>4. CASE UNCHANGED vars
  <2>1. UNCHANGED <<history, load_cache, call>> /\ \A p : Version(p)' = Version(p)
    BY <1>4 DEF vars, threadVars, Version
  <2>2. CallInv'
    BY <2>1 DEF IInv, CallInv, CallOK, TimeOf, NotOlder
  <2>3. HistoryOK' /\ ClockInv' /\ call' \in [Thread -> Calls]
    BY <2>1 DEF IInv, TypeOK, HistoryOK, ClockInv
  <2> QED
    BY <2>1, <2>2, <2>3, CacheKeeps
<1> QED
  BY <1>1, <1>2, <1>3, <1>4 DEF Next

LEMMA InvHolds == Spec => []IInv
  BY InitIInv, NextIInv, PTL DEF Spec

(* The files, the cache and the calls keep their types. *)
THEOREM TypeCorrect == Spec => []TypeOK
<1>1. IInv => TypeOK
  BY DEF IInv
<1> QED
  BY <1>1, InvHolds, PTL

(* A cache entry never passes for a later state of its file. *)
THEOREM CacheKeepsUp == Spec => []CacheNeverOlder
<1>1. IInv => CacheNeverOlder
  <2> SUFFICES ASSUME IInv, NEW p \in DOMAIN load_cache
               PROVE  /\ load_cache[p].data \in 1..Version(p)
                      /\ history[p][load_cache[p].data].state \in {"sound", "cut"}
                      /\ \A w \in load_cache[p].data..Version(p) :
                           history[p][w].mtime = load_cache[p].mtime =>
                             history[p][load_cache[p].data].mtime = load_cache[p].mtime
    BY DEF CacheNeverOlder
  <2>1. p \in Path /\ Stamped(p, 1, load_cache[p].data, load_cache[p].mtime)
    BY DEF IInv, TypeOK, CacheInv
  <2>2. ClockInv /\ HistoryOK
    BY DEF IInv, TypeOK
  <2> QED
    BY <2>1, <2>2, StampFits DEF Stamped
<1> QED
  BY <1>1, InvHolds, PTL

(* No load returns data older than its call. *)
THEOREM LoadsStayFresh == Spec => []LoadsAreFresh
<1>1. IInv => LoadsAreFresh
  BY DEF IInv, CallInv, CallOK, LoadsAreFresh, Loaded
<1> QED
  BY <1>1, InvHolds, PTL
-----------------------------------------------------------------------------
(* The watcher starts with nothing. *)
LEMMA WatcherInitInv == WatcherInit => WatcherInv
<1> SUFFICES ASSUME WatcherInit PROVE WatcherInv
  OBVIOUS
<1>1. HistoryOK /\ ClockInv /\ Version(Watched) = 1
  BY FileInitOK, WatchedAssumption DEF WatcherInit
<1> QED
  BY <1>1 DEF WatcherInit, WatcherInv, WatcherTypeOK, StampInv, BeganInv, ReloadInv,
     NoneMeansCurrent, Stages, Results, NoTime, None

(* What the watcher knows stays true when the file is written. *)
LEMMA WriteKeepsWatcher ==
  ASSUME WatcherInv, Write(Watched), UNCHANGED watcherVars
  PROVE  WatcherInv'
<1>1. HistoryOK' /\ ClockInv' /\ Grows
  BY WriteAppends, WatchedAssumption DEF WatcherInv, WatcherTypeOK
<1>2. PICK w \in Path : w = Watched
  BY WatchedAssumption
<1>3. PICK n \in Nat \ {0}, m \in Nat : n = Version(w) /\ m = Version(w)' /\ n <= m
  BY <1>1, <1>2 DEF Grows
<1>4. PICK data \in Nat, stamp \in Nat, start \in Nat, read \in Nat :
        data = held /\ stamp = last_modified /\ start = began /\ read = mtime
  BY DEF WatcherInv, WatcherTypeOK
<1>5. /\ held' = data /\ last_modified' = stamp /\ began' = start /\ mtime' = read
      /\ at' = at /\ returned' = returned
  BY <1>4 DEF watcherVars
<1>6. WatcherTypeOK'
  BY <1>1, <1>5, <1>4 DEF WatcherInv, WatcherTypeOK
<1>7. StampInv'
  <2>1. stamp # NoTime => Stamped(w, 1, data, stamp)'
    BY <1>1, <1>2, <1>4, StampedKeeps DEF WatcherInv, StampInv
  <2> QED
    BY <2>1, <1>2, <1>5 DEF StampInv
<1>8. BeganInv'
  BY <1>2, <1>3, <1>4, <1>5 DEF WatcherInv, BeganInv
<1>9. ReloadInv'
  <2>1. at = "reload" => TimeOf(w, 1, n, read)
    BY <1>2, <1>3, <1>4 DEF WatcherInv, ReloadInv
  <2>2. at = "reload" => TimeOf(w, 1, m, read)'
    BY <2>1, <1>1, <1>3, TimeOfKeeps
  <2> QED
    BY <2>2, <1>2, <1>3, <1>5 DEF ReloadInv
<1>10. NoneMeansCurrent'
  <2> SUFFICES ASSUME at = "idle", returned = "Ok(None)"
               PROVE  NotOlder(w, data, start)'
    BY <1>2, <1>5 DEF NoneMeansCurrent
  <2>1. NotOlder(w, data, start) /\ start \in 1..Version(w)
    BY <1>2, <1>3, <1>4 DEF WatcherInv, NoneMeansCurrent, BeganInv
  <2> QED
    BY <2>1, <1>1, NotOlderKeeps
<1> QED
  BY <1>1, <1>6, <1>7, <1>8, <1>9, <1>10 DEF WatcherInv

(* A step of the watcher reads the file and leaves it. *)
LEMMA FilesStay ==
  ASSUME WatcherInv, UNCHANGED history
  PROVE  /\ Version(Watched)' = Version(Watched) /\ Version(Watched) \in Nat \ {0}
         /\ HistoryOK' /\ ClockInv'
  BY VersionIsNat, WatchedAssumption DEF WatcherInv, WatcherTypeOK, Version, HistoryOK, ClockInv

(* check_and_reload or force_reload is called. *)
LEMMA BeginPreserves ==
  ASSUME WatcherInv, CheckAndReload \/ ForceReload
  PROVE  WatcherInv'
<1>1. /\ at' \in {"check", "stamp"} /\ began' = Version(Watched)
      /\ UNCHANGED <<history, last_modified, held, mtime, returned>>
  BY DEF CheckAndReload, ForceReload, Begin
<1>2. Version(Watched)' = Version(Watched) /\ Version(Watched) \in Nat \ {0}
      /\ HistoryOK' /\ ClockInv'
  BY <1>1, FilesStay
<1>3. WatcherTypeOK' /\ BeganInv' /\ ReloadInv' /\ NoneMeansCurrent'
  BY <1>1, <1>2 DEF WatcherInv, WatcherTypeOK, Stages, BeganInv, ReloadInv, NoneMeansCurrent
<1>4. StampInv'
  BY <1>1, <1>2 DEF WatcherInv, StampInv, Stamped, TimeOf
<1> QED
  BY <1>2, <1>3, <1>4 DEF WatcherInv

(* A file with the modified-time of the last reload is not newer than what  *)
(* that reload gave, as far as modified-times can tell.                     *)
LEMMA HasChangedPreserves ==
  ASSUME WatcherInv, HasChanged
  PROVE  WatcherInv'
<1>1. /\ at = "check" /\ UNCHANGED <<history, last_modified, held, began, mtime>>
      /\ at' \in {"idle", "stamp"} /\ returned' \in {"Err", "Ok(None)", returned}
  BY DEF HasChanged, Return
<1>2. Version(Watched)' = Version(Watched) /\ Version(Watched) \in Nat \ {0}
      /\ HistoryOK' /\ ClockInv'
  BY <1>1, FilesStay
<1>3. WatcherTypeOK' /\ BeganInv' /\ ReloadInv'
  BY <1>1, <1>2 DEF WatcherInv, WatcherTypeOK, Stages, Results, BeganInv, ReloadInv
<1>4. StampInv'
  BY <1>1, <1>2 DEF WatcherInv, StampInv, Stamped, TimeOf
<1>5. NoneMeansCurrent'
  <2> SUFFICES ASSUME at' = "idle", returned' = "Ok(None)"
               PROVE  NotOlder(Watched, held, began)
    BY <1>1, <1>2 DEF NoneMeansCurrent, NotOlder
  <2>1. Exists(Watched) /\ Mtime(Watched) = last_modified
    BY <1>1 DEF HasChanged, Return
  <2>2. PICK n \in Nat \ {0} : n = Version(Watched)
    BY <1>2
  <2>3. history[Watched][n].mtime = last_modified /\ last_modified # NoTime
    BY <2>1, <2>2, WatchedAssumption DEF Mtime, Latest, WatcherInv, ClockInv
  <2>4. Stamped(Watched, 1, held, last_modified)
    BY <2>3 DEF WatcherInv, StampInv
  <2>5. held \in 1..n /\ n \in held..Version(Watched)
    BY <2>2, <2>4 DEF Stamped
  <2>6. history[Watched][held].mtime = last_modified
    BY <2>3, <2>4, <2>5, StampFits, WatchedAssumption DEF WatcherInv, WatcherTypeOK
  <2>7. n \in began..Version(Watched)
    BY <2>2 DEF WatcherInv, BeganInv, WatcherTypeOK
  <2> QED
    BY <2>2, <2>3, <2>5, <2>6, <2>7 DEF NotOlder
<1> QED
  BY <1>2, <1>3, <1>4, <1>5 DEF WatcherInv

(* The time read is that of the latest version. *)
LEMMA StampPreserves ==
  ASSUME WatcherInv, Stamp
  PROVE  WatcherInv'
<1>1. /\ at = "stamp" /\ UNCHANGED <<history, last_modified, held, began>>
      /\ mtime' = Mtime(Watched)
      /\ \/ Exists(Watched) /\ at' = "reload" /\ returned' = returned
         \/ at' = "idle" /\ returned' = "Err"
  BY DEF Stamp, Return
<1>2. Version(Watched)' = Version(Watched) /\ Version(Watched) \in Nat \ {0}
      /\ HistoryOK' /\ ClockInv'
  BY <1>1, FilesStay
<1>3. Mtime(Watched) \in Nat
  BY <1>2, VersionIsNat, WatchedAssumption DEF Mtime, Latest, NoTime, WatcherInv, WatcherTypeOK
<1>4. Exists(Watched) => /\ Mtime(Watched) = history[Watched][Version(Watched)].mtime
                         /\ Mtime(Watched) # NoTime
  BY <1>2, WatchedAssumption DEF Mtime, Latest, WatcherInv, ClockInv
<1>5. WatcherTypeOK' /\ BeganInv' /\ NoneMeansCurrent'
  BY <1>1, <1>2, <1>3, <1>4 DEF WatcherInv, WatcherTypeOK, Stages, Results, BeganInv, NoneMeansCurrent
<1>6. StampInv'
  BY <1>1, <1>2 DEF WatcherInv, StampInv, Stamped, TimeOf
<1>7. ReloadInv'
  BY <1>1, <1>2, <1>4 DEF ReloadInv, TimeOf
<1> QED
  BY <1>2, <1>5, <1>6, <1>7 DEF WatcherInv

(* The data is from the latest version, the stamp from one before it. *)
LEMMA ReloadPreserves ==
  ASSUME WatcherInv, Reload
  PROVE  WatcherInv'
<1>1. /\ at = "reload" /\ Compiles(Watched) /\ UNCHANGED <<history, began, mtime>>
      /\ last_modified' = mtime /\ held' = Version(Watched)
      /\ at' = "idle" /\ returned' = "Ok(data)"
  BY DEF Reload, Return
<1>2. Version(Watched)' = Version(Watched) /\ Version(Watched) \in Nat \ {0}
      /\ HistoryOK' /\ ClockInv'
  BY <1>1, FilesStay
<1>3. WatcherTypeOK' /\ BeganInv' /\ ReloadInv' /\ NoneMeansCurrent'
  BY <1>1, <1>2 DEF WatcherInv, WatcherTypeOK, Stages, Results, BeganInv, ReloadInv, NoneMeansCurrent
<1>4. TimeOf(Watched, 1, Version(Watched), mtime)
  BY <1>1 DEF WatcherInv, ReloadInv
<1>5. history[Watched][Version(Watched)].state \in {"sound", "cut"}
  BY <1>1 DEF Compiles, Latest
<1>6. StampInv'
  BY <1>1, <1>2, <1>4, <1>5 DEF StampInv, Stamped, TimeOf
<1> QED
  BY <1>2, <1>3, <1>6 DEF WatcherInv

(* Nothing is loaded, and nothing forgotten. *)
LEMMA FailReloadPreserves ==
  ASSUME WatcherInv, FailReload
  PROVE  WatcherInv'
<1>1. /\ at = "reload" /\ UNCHANGED <<history, last_modified, held, began, mtime>>
      /\ at' = "idle" /\ returned' = "Err"
  BY DEF FailReload, Return
<1>2. Version(Watched)' = Version(Watched) /\ Version(Watched) \in Nat \ {0}
      /\ HistoryOK' /\ ClockInv'
  BY <1>1, FilesStay
<1>3. WatcherTypeOK' /\ BeganInv' /\ ReloadInv' /\ NoneMeansCurrent'
  BY <1>1, <1>2 DEF WatcherInv, WatcherTypeOK, Stages, Results, BeganInv, ReloadInv, NoneMeansCurrent
<1>4. StampInv'
  BY <1>1, <1>2 DEF WatcherInv, StampInv, Stamped, TimeOf
<1> QED
  BY <1>2, <1>3, <1>4 DEF WatcherInv

(* Every step of the watcher and of the writers keeps the invariant. *)
LEMMA WatcherNextInv == WatcherInv /\ [WatcherNext]_hotVars => WatcherInv'
<1> SUFFICES ASSUME WatcherInv, [WatcherNext]_hotVars PROVE WatcherInv'
  OBVIOUS
<1>1. CASE UNCHANGED hotVars
  <2>1. UNCHANGED <<history, last_modified, held, at, began, mtime, returned>>
    BY <1>1 DEF hotVars, watcherVars
  <2>2. Version(Watched)' = Version(Watched) /\ HistoryOK' /\ ClockInv'
    BY <2>1, FilesStay
  <2> QED
    BY <2>1, <2>2 DEF WatcherInv, WatcherTypeOK, StampInv, BeganInv, ReloadInv,
       NoneMeansCurrent, Stamped, TimeOf, NotOlder
<1>2. CASE WatcherNext
  BY <1>2, WriteKeepsWatcher, BeginPreserves, HasChangedPreserves, StampPreserves,
     ReloadPreserves, FailReloadPreserves DEF WatcherNext, Watch
<1> QED
  BY <1>1, <1>2

LEMMA WatcherInvHolds == WatcherSpec => []WatcherInv
  BY WatcherInitInv, WatcherNextInv, PTL DEF WatcherSpec

(* The watcher's variables keep their types. *)
THEOREM WatcherTypeCorrect == WatcherSpec => []WatcherTypeOK
<1>1. WatcherInv => WatcherTypeOK
  BY DEF WatcherInv
<1> QED
  BY <1>1, WatcherInvHolds, PTL

(* Ok(None) is only said of data that no modified-time shows to be old:     *)
(* has_changed compares with the stamp that force_reload read before the    *)
(* bytes, so however writes fall between the two stats and the read, a file *)
(* that changed since either has another time or has that of the data.      *)
THEOREM NothingNewMeansCurrent == WatcherSpec => []NoneMeansCurrent
<1>1. WatcherInv => NoneMeansCurrent
  BY DEF WatcherInv
<1> QED
  BY <1>1, WatcherInvHolds, PTL

-----------------------------------------------------------------------------
(* DlmArtifacts, with one compiler at a time: two that run at once can leave *)
(* the data of one with the key of the other.                                *)

\* The artifact f is locked and holds the latest run.
Sealed(f) == f \in readonly /\ content[f] = started

\* Whoever is under way is on the latest run, and only runs begun have trouble.
RunInv(c) ==
  LET j == compiler[c] IN
  /\ \A n \in troubled : n <= started
  /\ \A f \in Artifacts : content[f] <= started
  /\ j.at # "idle" => j.run = started /\ started # 0
  /\ j.run = 0 \/ j.run = started

\* What each step of write_enc_file and write_key_file finds.
WriteInv(c) ==
  LET j == compiler[c] IN
  /\ j.at # "lock" => ~j.wrote
  /\ j.at = "open" => j.file \notin readonly
  /\ j.at = "fill" => j.file \in present /\ content[j.file] = Torn
  /\ j.wrote => j.file \in present /\ content[j.file] = started
  /\ j.at # "idle" => j.reported \subseteq {"enc"} /\ (j.file = "enc" => j.reported = {})
  /\ j.run = 0 => j.reported = {}
  /\ \A f \in j.reported : content[f] = started

\* What the latest run has done already, if it met no failure.
CleanInv(c) ==
  LET j == compiler[c] IN
  started # 0 /\ started \notin troubled =>
    /\ j.at = "lock" => j.wrote
    /\ j.at = "idle" \/ j.file = "key" => Sealed("enc")
    /\ j.at = "idle" => Sealed("key")

(* A read that began on a settled pair finds nothing older, and that pair as *)
(* long as no run has begun.                                                 *)
ReadInv(c) ==
  LET r == reader IN
  /\ r.since <= started
  /\ r.settled # 0 =>
       /\ r.settled = r.since
       /\ r.since = started => compiler[c].at = "idle" /\ started \notin troubled
       /\ \A f \in Artifacts : content[f] # Torn => content[f] >= r.settled
       /\ r.at = "idle" /\ r.result # Torn => r.result >= r.settled
       /\ r.at = "idle" /\ r.since = started => r.result = r.settled
       /\ r.at = "key" /\ r.since = started => r.enc = r.settled

PipelineInv(c) == PipelineTypeOK /\ RunInv(c) /\ WriteInv(c) /\ CleanInv(c) /\ ReadInv(c)

\* What a step makes of its compiler: it goes on with its file, or the file is
\* over; and whether it met a failure.
Moved(c, place) ==
  LET j == compiler[c]  k == compiler'[c] IN
  k.at = place /\ k.file = j.file /\ k.run = j.run /\ k.wrote = j.wrote /\ k.reported = j.reported

Ended(c, reported) ==
  LET j == compiler[c]  k == compiler'[c] IN
  /\ k.at = IF j.file = "enc" THEN "unlock" ELSE "idle"
  /\ k.file = "key" /\ k.run = j.run /\ ~k.wrote /\ k.reported = reported

Fails(c) == troubled' = troubled \cup {compiler[c].run}
Fine     == UNCHANGED troubled

LEMMA WorkFacts ==
  ASSUME PipelineTypeOK, NEW c \in Compiler
  PROVE  /\ compiler[c] \in Work
         /\ compiler[c].at \in {"idle", "unlock", "open", "fill", "lock"}
         /\ compiler[c].file \in {"enc", "key"} /\ compiler[c].run \in 0..MaxRuns
         /\ compiler[c].wrote \in BOOLEAN /\ compiler[c].reported \subseteq Artifacts
  BY DEF PipelineTypeOK, Artifacts, Work

\* What the actions do, with the failure as a case of its own.
LEMMA MoveFacts ==
  ASSUME PipelineTypeOK, NEW c \in Compiler,
         NEW p \in {"idle", "unlock", "open", "fill", "lock"}, Goes(c, p)
  PROVE  Moved(c, p) /\ compiler' \in [Compiler -> Work]
  BY DEF PipelineTypeOK, Moved, Work, Goes

LEMMA EndFacts ==
  ASSUME PipelineTypeOK, NEW c \in Compiler, NEW S \in SUBSET Artifacts,
         Written(c, S)
  PROVE  Ended(c, S) /\ compiler' \in [Compiler -> Work]
<1> DEFINE over == [compiler[c] EXCEPT !.at = IF Now(c) = "enc" THEN "unlock" ELSE "idle",
                                       !.file = "key", !.wrote = FALSE, !.reported = S]
<1>1. compiler' = [compiler EXCEPT ![c] = over]
  BY DEF Written
<1>2. over \in Work /\ over.at = (IF compiler[c].file = "enc" THEN "unlock" ELSE "idle")
  BY WorkFacts DEF Artifacts, Now, Work
<1>3. over.file = "key" /\ over.run = compiler[c].run /\ ~over.wrote /\ over.reported = S
  OBVIOUS
<1> QED
  BY <1>1, <1>2, <1>3 DEF PipelineTypeOK, Ended

LEMMA StartFacts ==
  ASSUME PipelineTypeOK, NEW c \in Compiler, StartRun(c)
  PROVE  /\ compiler[c].at = "idle" /\ UNCHANGED <<disk, troubled, reader>>
         /\ started' = started + 1 /\ started' \in 0..MaxRuns
         /\ compiler' \in [Compiler -> Work]
         /\ compiler'[c].at = "unlock" /\ compiler'[c].file = "enc"
         /\ compiler'[c].run = started' /\ ~compiler'[c].wrote
         /\ compiler'[c].reported = {}
<1> DEFINE fresh == [Resting EXCEPT !.at = "unlock", !.run = started + 1]
<1>1. /\ fresh.at = "unlock" /\ fresh.file = "enc" /\ fresh.run = started + 1
      /\ ~fresh.wrote /\ fresh.reported = {}
  BY DEF Resting
<1>2. started + 1 \in 0..MaxRuns
  BY ArtifactsAssumption DEF PipelineTypeOK, StartRun
<1>3. fresh \in Work
  BY <1>2 DEF Artifacts, Work, Resting
<1>4. compiler' = [compiler EXCEPT ![c] = fresh]
  BY DEF StartRun
<1> HIDE DEF fresh
<1>5. compiler' \in [Compiler -> Work] /\ compiler'[c] = fresh
  BY <1>3, <1>4 DEF PipelineTypeOK
<1> QED
  BY <1>1, <1>2, <1>5 DEF Settled, StartRun

LEMMA UnlockFacts ==
  ASSUME PipelineTypeOK, NEW c \in Compiler, Unlock(c)
  PROVE  /\ compiler[c].at = "unlock" /\ UNCHANGED <<present, content, started, reader>>
         /\ compiler' \in [Compiler -> Work]
         /\ \/ /\ Fine /\ readonly' = readonly \ {compiler[c].file}
               /\ Moved(c, "open")
            \/ /\ Fails(c) /\ UNCHANGED readonly
               /\ Ended(c, compiler[c].reported)
<1>1. PICK failed \in BOOLEAN :
        /\ Trouble(c, failed)
        /\ readonly' = IF failed THEN readonly ELSE readonly \ {Now(c)}
        /\ IF failed THEN Written(c, compiler[c].reported) ELSE Goes(c, "open")
  BY DEF Unlock
<1>2. CASE failed
  BY <1>1, <1>2, WorkFacts, EndFacts DEF Fails, At, Trouble, Unlock
<1>3. CASE ~failed
  BY <1>1, <1>3, MoveFacts DEF Fine, At, Trouble, Now, Unlock
<1> QED
  BY <1>2, <1>3

LEMMA OpenFacts ==
  ASSUME PipelineTypeOK, NEW c \in Compiler, Open(c)
  PROVE  /\ compiler[c].at = "open" /\ UNCHANGED <<readonly, started, reader>>
         /\ compiler' \in [Compiler -> Work]
         /\ \/ /\ Fails(c) \/ (Fine /\ compiler[c].file \in readonly)
               /\ UNCHANGED <<present, content>>
               /\ Moved(c, "lock")
            \/ /\ Fine
               /\ present' = present \cup {compiler[c].file}
               /\ content' = [content EXCEPT ![compiler[c].file] = Torn]
               /\ Moved(c, "fill")
<1>1. PICK failed \in BOOLEAN :
        /\ Trouble(c, failed)
        /\ IF failed \/ Now(c) \in readonly
           THEN Goes(c, "lock") /\ UNCHANGED <<present, content>>
           ELSE /\ Goes(c, "fill")
                /\ present' = present \cup {Now(c)}
                /\ content' = [content EXCEPT ![Now(c)] = Torn]
  BY DEF Open
<1>2. CASE failed
  BY <1>1, <1>2, MoveFacts DEF Fails, At, Trouble, Open
<1>3. CASE ~failed /\ Now(c) \in readonly
  BY <1>1, <1>3, MoveFacts DEF Fine, At, Trouble, Now, Open
<1>4. CASE ~failed /\ Now(c) \notin readonly
  BY <1>1, <1>4, MoveFacts DEF Fine, At, Trouble, Now, Open
<1> QED
  BY <1>2, <1>3, <1>4

LEMMA FillFacts ==
  ASSUME PipelineTypeOK, NEW c \in Compiler, Fill(c),
         content[compiler[c].file] = Torn
  PROVE  /\ compiler[c].at = "fill" /\ UNCHANGED <<present, readonly, started, reader>>
         /\ compiler' \in [Compiler -> Work]
         /\ compiler'[c].at = "lock" /\ compiler'[c].file = compiler[c].file
         /\ compiler'[c].run = compiler[c].run
         /\ compiler'[c].reported = compiler[c].reported
         /\ \/ /\ Fine /\ compiler'[c].wrote
               /\ content' = [content EXCEPT ![compiler[c].file] = compiler[c].run]
            \/ /\ Fails(c) /\ ~compiler'[c].wrote
               /\ content' = [content EXCEPT ![compiler[c].file] = Torn]
<1>1. PICK failed \in BOOLEAN :
        /\ Trouble(c, failed)
        /\ content' = [content EXCEPT ![Now(c)] = IF failed THEN Torn ELSE compiler[c].run]
        /\ compiler' = [compiler EXCEPT ![c].at = "lock", ![c].wrote = ~failed]
  BY DEF Now, Fill
<1>2. compiler'[c] = [compiler[c] EXCEPT !.at = "lock", !.wrote = ~failed]
  BY <1>1 DEF PipelineTypeOK
<1>3. /\ compiler'[c].at = "lock" /\ compiler'[c].file = compiler[c].file
      /\ compiler'[c].run = compiler[c].run /\ compiler'[c].wrote = ~failed
      /\ compiler'[c].reported = compiler[c].reported /\ compiler'[c] \in Work
  BY <1>2, WorkFacts DEF Work
<1>4. compiler' \in [Compiler -> Work]
  BY <1>1, <1>3 DEF PipelineTypeOK
<1>5. CASE failed
  BY <1>1, <1>3, <1>4, <1>5 DEF Fails, At, Trouble, Now, Fill
<1>6. CASE ~failed
  BY <1>1, <1>3, <1>4, <1>6 DEF Fine, At, Trouble, Now, Fill
<1> QED
  BY <1>5, <1>6

LEMMA LockFacts ==
  ASSUME PipelineTypeOK, NEW c \in Compiler, Lock(c)
  PROVE  /\ compiler[c].at = "lock" /\ UNCHANGED <<present, content, started, reader>>
         /\ compiler' \in [Compiler -> Work]
         /\ Ended(c, IF compiler[c].wrote THEN compiler[c].reported \cup {compiler[c].file}
                     ELSE compiler[c].reported)
         /\ \/ Fails(c) /\ UNCHANGED readonly
            \/ /\ Fine
               /\ readonly' = IF compiler[c].file \in present
                              THEN readonly \cup {compiler[c].file} ELSE readonly
<1> DEFINE result == IF compiler[c].wrote THEN compiler[c].reported \cup {compiler[c].file}
                     ELSE compiler[c].reported
<1>1. result \in SUBSET Artifacts
  BY WorkFacts DEF Artifacts
<1>2. Written(c, result)
  BY DEF Now, Lock
<1>3. Ended(c, result) /\ compiler' \in [Compiler -> Work]
  BY <1>1, <1>2, EndFacts
<1>4. PICK failed \in BOOLEAN :
        /\ Trouble(c, failed)
        /\ readonly' = IF failed \/ Now(c) \notin present
                       THEN readonly ELSE readonly \cup {Now(c)}
  BY DEF Lock
<1>5. CASE failed
  BY <1>3, <1>4, <1>5 DEF Fails, At, Trouble, Lock
<1>6. CASE ~failed
  BY <1>3, <1>4, <1>6 DEF Fine, At, Trouble, Now, Lock
<1> QED
  BY <1>5, <1>6

LEMMA DieFacts ==
  ASSUME PipelineTypeOK, NEW c \in Compiler, Die(c)
  PROVE  /\ compiler[c].at # "idle" /\ UNCHANGED <<disk, started, reader>> /\ Fails(c)
         /\ compiler' \in [Compiler -> Work]
         /\ compiler'[c].at = "idle" /\ compiler'[c].file = "enc" /\ compiler'[c].run = 0
         /\ compiler'[c].wrote = FALSE /\ compiler'[c].reported = {}
<1>1. compiler' = [compiler EXCEPT ![c] = Resting]
  BY DEF Die
<1>2. Resting \in Work /\ Resting.at = "idle" /\ Resting.file = "enc" /\ Resting.run = 0
      /\ Resting.wrote = FALSE /\ Resting.reported = {}
  BY ArtifactsAssumption DEF Artifacts, Work, Resting
<1> QED
  BY <1>1, <1>2 DEF PipelineTypeOK, Fails, Settled, Trouble, Die

\* A failure is one of the latest run.
LEMMA TroubleFacts ==
  ASSUME PipelineTypeOK, NEW c \in Compiler, RunInv(c), compiler[c].at # "idle",
         Fine \/ Fails(c), started' = started
  PROVE  /\ compiler[c].run = started
         /\ troubled' \subseteq Runs /\ \A n \in troubled' : n <= started'
<1>1. compiler[c].run = started /\ started \in Runs
  BY DEF PipelineTypeOK, RunInv, Runs
<1>2. troubled' \subseteq troubled \cup {started}
  BY <1>1 DEF Fails, Fine
<1>3. \A n \in troubled : n <= started
  BY DEF RunInv
<1> QED
  BY <1>1, <1>2, <1>3 DEF PipelineTypeOK

\* The five parts of the invariant, kept by each step.
LEMMA PipelineTypePreserved ==
  ASSUME NEW c \in Compiler, Compiler = {c}, PipelineTypeOK, RunInv(c), WriteInv(c),
         [PipelineNext]_pipelineVars
  PROVE  PipelineTypeOK'
<1>1. CASE StartRun(c)
  BY <1>1, StartFacts DEF PipelineTypeOK, disk
<1>2. CASE Unlock(c)
  <2>1. troubled' \subseteq Runs /\ started' = started /\ reader' = reader
    BY <1>2, TroubleFacts, UnlockFacts
  <2>2. present' \subseteq Artifacts /\ readonly' \subseteq present'
    BY <1>2, UnlockFacts DEF PipelineTypeOK
  <2>3. content' \in [Artifacts -> {Torn} \cup Runs] /\ compiler' \in [Compiler -> Work]
    BY <1>2, UnlockFacts DEF PipelineTypeOK
  <2> QED
    BY <2>1, <2>2, <2>3 DEF PipelineTypeOK
<1>3. CASE Open(c)
  <2>0. compiler[c].at # "idle" /\ started' = started /\ reader' = reader /\ (Fine \/ Fails(c))
    BY <1>3, OpenFacts
  <2>1. troubled' \subseteq Runs /\ started' = started /\ reader' = reader
    BY <2>0, TroubleFacts
  <2>2. present' \subseteq Artifacts /\ readonly' \subseteq present'
    <3>1. readonly \subseteq present /\ present \subseteq Artifacts
      BY DEF PipelineTypeOK
    <3>2. readonly' = readonly /\ present' \in {present, present \cup {compiler[c].file}}
      BY <1>3, OpenFacts
    <3> QED
      BY <3>1, <3>2, WorkFacts DEF Artifacts
  <2>3. content' \in [Artifacts -> {Torn} \cup Runs] /\ compiler' \in [Compiler -> Work]
    BY <1>3, OpenFacts DEF PipelineTypeOK
  <2> QED
    BY <2>1, <2>2, <2>3 DEF PipelineTypeOK
<1>4. CASE Fill(c)
  <2>0. content[compiler[c].file] = Torn
    BY <1>4 DEF WriteInv, At, Fill
  <2>1. troubled' \subseteq Runs /\ started' = started /\ reader' = reader
    BY <1>4, <2>0, TroubleFacts, FillFacts
  <2>2. present' \subseteq Artifacts /\ readonly' \subseteq present'
    BY <1>4, <2>0, FillFacts DEF PipelineTypeOK
  <2>3. content' \in [Artifacts -> {Torn} \cup Runs] /\ compiler' \in [Compiler -> Work]
    BY <1>4, <2>0, FillFacts DEF PipelineTypeOK, RunInv, Runs
  <2> QED
    BY <2>1, <2>2, <2>3 DEF PipelineTypeOK
<1>5. CASE Lock(c)
  <2>1. troubled' \subseteq Runs /\ started' = started /\ reader' = reader
    BY <1>5, TroubleFacts, LockFacts
  <2>2. present' \subseteq Artifacts /\ readonly' \subseteq present'
    BY <1>5, LockFacts DEF PipelineTypeOK
  <2>3. content' \in [Artifacts -> {Torn} \cup Runs] /\ compiler' \in [Compiler -> Work]
    BY <1>5, LockFacts DEF PipelineTypeOK
  <2> QED
    BY <2>1, <2>2, <2>3 DEF PipelineTypeOK
<1>6. CASE Die(c)
  <2>1. troubled' \subseteq Runs /\ started' = started /\ reader' = reader
    BY <1>6, TroubleFacts, DieFacts
  <2>2. present' \subseteq Artifacts /\ readonly' \subseteq present'
    BY <1>6, DieFacts DEF PipelineTypeOK, disk
  <2>3. content' \in [Artifacts -> {Torn} \cup Runs] /\ compiler' \in [Compiler -> Work]
    BY <1>6, DieFacts DEF PipelineTypeOK, disk
  <2> QED
    BY <2>1, <2>2, <2>3 DEF PipelineTypeOK
<1>7. CASE BeginRead /\ UNCHANGED <<disk, started, troubled, compiler>>
  <2>1. SettledRun \in 0..MaxRuns
    BY ArtifactsAssumption DEF PipelineTypeOK, SettledRun
  <2>2. reader' \in Reading
    BY <1>7, <2>1 DEF PipelineTypeOK, Torn, Reading, NoRead, BeginRead
  <2> QED
    BY <1>7, <2>2 DEF PipelineTypeOK, disk
<1>8. CASE ResolveKey /\ UNCHANGED <<disk, started, troubled, compiler>>
  BY <1>8 DEF PipelineTypeOK, disk, Reading, Ends, ResolveKey
<1>9. CASE ReadEnc /\ UNCHANGED <<disk, started, troubled, compiler>>
  BY <1>9 DEF PipelineTypeOK, disk, Artifacts, Reading, ReadEnc
<1>10. CASE ReadKey /\ UNCHANGED <<disk, started, troubled, compiler>>
  BY <1>10 DEF PipelineTypeOK, disk, Reading, Ends, ReadKey
<1>11. CASE UNCHANGED pipelineVars
  BY <1>11 DEF PipelineTypeOK, disk, pipelineVars
<1> QED
  BY <1>1, <1>2, <1>3, <1>4, <1>5, <1>6, <1>7, <1>8, <1>9, <1>10, <1>11
     DEF PipelineNext, Compile, Read

LEMMA RunPreserved ==
  ASSUME NEW c \in Compiler, Compiler = {c}, PipelineTypeOK, RunInv(c), WriteInv(c),
         [PipelineNext]_pipelineVars
  PROVE  RunInv(c)'
<1>1. CASE StartRun(c)
  <2>1. \A n \in troubled' : n <= started'
    <3>1. \A n \in troubled : n \in Nat /\ n <= started
      BY DEF PipelineTypeOK, RunInv, Runs
    <3>2. troubled' = troubled /\ started' = started + 1 /\ started \in Nat
      BY <1>1, StartFacts DEF PipelineTypeOK
    <3> QED
      BY <3>1, <3>2
  <2>2. \A f \in Artifacts : content'[f] <= started'
    BY <1>1, StartFacts DEF PipelineTypeOK, disk, RunInv, Torn, Runs
  <2>3. started' # 0
    BY <1>1, StartFacts DEF PipelineTypeOK
  <2> QED
    BY <1>1, <2>1, <2>2, <2>3, StartFacts DEF RunInv
<1>2. CASE Unlock(c)
  BY <1>2, TroubleFacts, UnlockFacts DEF RunInv, Moved, Ended
<1>3. CASE Open(c)
  BY <1>3, TroubleFacts, OpenFacts DEF PipelineTypeOK, RunInv, Torn, Moved
<1>4. CASE Fill(c)
  <2>1. content[compiler[c].file] = Torn
    BY <1>4 DEF WriteInv, At, Fill
  <2> QED
    BY <1>4, <2>1, TroubleFacts, FillFacts DEF PipelineTypeOK, RunInv
<1>5. CASE Lock(c)
  BY <1>5, TroubleFacts, LockFacts DEF RunInv, Ended
<1>6. CASE Die(c)
  BY <1>6, TroubleFacts, DieFacts DEF disk, RunInv
<1>7. CASE UNCHANGED <<disk, started, troubled, compiler>>
  BY <1>7 DEF disk, RunInv
<1>8. CASE UNCHANGED pipelineVars
  BY <1>8 DEF disk, RunInv, pipelineVars
<1> QED
  BY <1>1, <1>2, <1>3, <1>4, <1>5, <1>6, <1>7, <1>8 DEF PipelineNext, Compile, Read

LEMMA WritePreserved ==
  ASSUME NEW c \in Compiler, Compiler = {c}, PipelineTypeOK, RunInv(c), WriteInv(c),
         [PipelineNext]_pipelineVars
  PROVE  WriteInv(c)'
<1>1. CASE StartRun(c)
  BY <1>1, StartFacts DEF WriteInv
<1>2. CASE Unlock(c)
  BY <1>2, UnlockFacts DEF WriteInv, Moved, Ended
<1>3. CASE Open(c)
  BY <1>3, WorkFacts, OpenFacts DEF PipelineTypeOK, Artifacts, WriteInv, Moved
<1>4. CASE Fill(c)
  <2>1. content[compiler[c].file] = Torn
    BY <1>4 DEF WriteInv, At, Fill
  <2> QED
    BY <1>4, <2>1, WorkFacts, TroubleFacts, FillFacts DEF PipelineTypeOK, WriteInv
<1>5. CASE Lock(c)
  BY <1>5, LockFacts DEF RunInv, WriteInv, Ended
<1>6. CASE Die(c)
  BY <1>6, DieFacts DEF WriteInv
<1>7. CASE UNCHANGED <<disk, started, troubled, compiler>>
  BY <1>7 DEF disk, WriteInv
<1>8. CASE UNCHANGED pipelineVars
  BY <1>8 DEF disk, WriteInv, pipelineVars
<1> QED
  BY <1>1, <1>2, <1>3, <1>4, <1>5, <1>6, <1>7, <1>8 DEF PipelineNext, Compile, Read

LEMMA CleanPreserved ==
  ASSUME NEW c \in Compiler, Compiler = {c}, PipelineTypeOK, RunInv(c), WriteInv(c),
         CleanInv(c), [PipelineNext]_pipelineVars
  PROVE  CleanInv(c)'
<1>1. CASE StartRun(c)
  BY <1>1, StartFacts DEF CleanInv
<1>2. CASE Unlock(c)
  BY <1>2, TroubleFacts, UnlockFacts DEF Fails, Fine, Moved, CleanInv, Sealed
<1>3. CASE Open(c)
  <2> SUFFICES ASSUME started' # 0, started' \notin troubled' PROVE CleanInv(c)'
    BY DEF CleanInv
  <2>1. Fine /\ started # 0 /\ started \notin troubled
    BY <1>3, TroubleFacts, OpenFacts DEF Fails, Fine
  <2>2. /\ compiler'[c].at \in {"fill", "lock"} /\ compiler'[c].file = compiler[c].file
        /\ compiler'[c].at = "lock" => compiler'[c].wrote
        /\ \E v : content' = [content EXCEPT ![compiler[c].file] = v]
    BY <1>3, <2>1, TroubleFacts, OpenFacts DEF WriteInv, Fails, Moved
  <2>3. compiler[c].file = "key" => Sealed("enc")'
    BY <1>3, <2>1, <2>2, OpenFacts DEF CleanInv, Sealed
  <2> QED
    BY <2>2, <2>3 DEF CleanInv
<1>4. CASE Fill(c)
  <2>0. content[compiler[c].file] = Torn
    BY <1>4 DEF WriteInv, At, Fill
  <2> SUFFICES ASSUME started' # 0, started' \notin troubled' PROVE CleanInv(c)'
    BY DEF CleanInv
  <2>1. Fine /\ started # 0 /\ started \notin troubled
    BY <1>4, <2>0, TroubleFacts, FillFacts DEF Fails, Fine
  <2>2. /\ compiler'[c].at \in {"fill", "lock"} /\ compiler'[c].file = compiler[c].file
        /\ compiler'[c].at = "lock" => compiler'[c].wrote
        /\ \E v : content' = [content EXCEPT ![compiler[c].file] = v]
    BY <1>4, <2>0, <2>1, TroubleFacts, FillFacts DEF Fails
  <2>3. compiler[c].file = "key" => Sealed("enc")'
    BY <1>4, <2>0, <2>1, <2>2, FillFacts DEF CleanInv, Sealed
  <2> QED
    BY <2>2, <2>3 DEF CleanInv
<1>5. CASE Lock(c)
  BY <1>5, WorkFacts, TroubleFacts, LockFacts DEF WriteInv, Fails, Fine, CleanInv,
     Ended, Sealed
<1>6. CASE Die(c)
  BY <1>6, TroubleFacts, DieFacts DEF Fails, CleanInv
<1>7. CASE UNCHANGED <<disk, started, troubled, compiler>>
  BY <1>7 DEF disk, CleanInv, Sealed
<1>8. CASE UNCHANGED pipelineVars
  BY <1>8 DEF disk, CleanInv, Sealed, pipelineVars
<1> QED
  BY <1>1, <1>2, <1>3, <1>4, <1>5, <1>6, <1>7, <1>8 DEF PipelineNext, Compile, Read

LEMMA ReadPreserved ==
  ASSUME NEW c \in Compiler, Compiler = {c}, PipelineTypeOK, RunInv(c), WriteInv(c),
         CleanInv(c), ReadInv(c), [PipelineNext]_pipelineVars
  PROVE  ReadInv(c)'
<1>1. CASE StartRun(c)
  <2>1. reader.since # started'
    BY <1>1, StartFacts DEF PipelineTypeOK, ReadInv
  <2>2. reader.since <= started'
    BY <1>1, StartFacts DEF PipelineTypeOK, ReadInv, Reading
  <2> QED
    BY <1>1, <2>1, <2>2, StartFacts DEF disk, ReadInv
<1>2. CASE Unlock(c)
  BY <1>2, UnlockFacts DEF ReadInv
<1>3. CASE Open(c)
  BY <1>3, OpenFacts DEF PipelineTypeOK, ReadInv
<1>4. CASE Fill(c)
  <2>1. content[compiler[c].file] = Torn
    BY <1>4 DEF WriteInv, At, Fill
  <2> QED
    BY <1>4, <2>1, TroubleFacts, FillFacts DEF PipelineTypeOK, ReadInv
<1>5. CASE Lock(c)
  BY <1>5, LockFacts DEF ReadInv
<1>6. CASE Die(c)
  BY <1>6, DieFacts DEF disk, ReadInv
<1>7. CASE BeginRead /\ UNCHANGED <<disk, started, troubled, compiler>>
  BY <1>7 DEF PipelineTypeOK, disk, Artifacts, CleanInv, Sealed, ReadInv, Settled,
     SettledRun, Quiet, BeginRead
<1>8. CASE ResolveKey /\ UNCHANGED <<disk, started, troubled, compiler>>
  <2>1. reader.settled # 0 /\ reader.since = started => Readable("key")
    BY DEF PipelineTypeOK, Torn, CleanInv, Sealed, ReadInv, Readable
  <2>2. CASE Readable("key")
    BY <1>8, <2>2 DEF PipelineTypeOK, disk, ReadInv, Reading, ResolveKey
  <2>3. CASE ~Readable("key")
    <3>1. /\ reader'.result = Torn /\ reader'.at = "idle"
          /\ reader'.settled = reader.settled /\ reader'.since = reader.since
      BY <1>8, <2>3 DEF PipelineTypeOK, Reading, Ends, ResolveKey
    <3> QED
      BY <1>8, <2>1, <2>3, <3>1 DEF disk, ReadInv
  <2> QED
    BY <2>2, <2>3
<1>9. CASE ReadEnc /\ UNCHANGED <<disk, started, troubled, compiler>>
  BY <1>9 DEF disk, CleanInv, Sealed, ReadInv, ReadEnc
<1>10. CASE ReadKey /\ UNCHANGED <<disk, started, troubled, compiler>>
  BY <1>10 DEF PipelineTypeOK, disk, CleanInv, Sealed, ReadInv, Readable, Decrypts,
     Ends, ReadKey
<1>11. CASE UNCHANGED pipelineVars
  BY <1>11 DEF disk, ReadInv, pipelineVars
<1> QED
  BY <1>1, <1>2, <1>3, <1>4, <1>5, <1>6, <1>7, <1>8, <1>9, <1>10, <1>11
     DEF PipelineNext, Compile, Read

LEMMA PipelineStarts ==
  ASSUME NEW c \in Compiler, Compiler = {c}, PipelineInit
  PROVE  PipelineInv(c)
<1>1. PipelineTypeOK
  <2>1. Resting \in Work /\ NoRead \in Reading
    BY ArtifactsAssumption DEF Artifacts, Torn, Reading, NoRead, Work, Resting
  <2> QED
    BY <2>1, ArtifactsAssumption DEF PipelineTypeOK, PipelineInit
<1>2. compiler[c] = Resting /\ reader = NoRead /\ started = 0
  BY DEF PipelineInit
<1>3. RunInv(c) /\ WriteInv(c) /\ CleanInv(c)
  BY <1>2 DEF RunInv, Torn, WriteInv, CleanInv, Resting, PipelineInit
<1>4. ReadInv(c)
  BY <1>2 DEF ReadInv, NoRead
<1> QED
  BY <1>1, <1>3, <1>4 DEF PipelineInv

LEMMA PipelineStays ==
  ASSUME NEW c \in Compiler, Compiler = {c}, PipelineInv(c),
         [PipelineNext]_pipelineVars
  PROVE  PipelineInv(c)'
  BY PipelineTypePreserved, RunPreserved, WritePreserved, CleanPreserved,
     ReadPreserved DEF PipelineInv

LEMMA PipelineInvariant ==
  ASSUME NEW c \in Compiler, Compiler = {c}
  PROVE  PipelineSpec => []PipelineInv(c)
<1>1. PipelineInit => PipelineInv(c)
  BY PipelineStarts
<1>2. PipelineInv(c) /\ [PipelineNext]_pipelineVars => PipelineInv(c)'
  BY PipelineStays
<1> QED
  BY <1>1, <1>2, PTL DEF PipelineSpec

(* For any number of runs of one compiler, whatever fails and whenever it     *)
(* dies: the files, the runs and the reader keep their types.                *)
THEOREM PipelineTypeCorrect ==
  ASSUME NEW c \in Compiler, Compiler = {c}
  PROVE  PipelineSpec => []PipelineTypeOK
<1>1. PipelineInv(c) => PipelineTypeOK
  BY DEF PipelineInv
<1> QED
  BY <1>1, PipelineInvariant, PTL

(* For any number of runs of one compiler: after a run without a failure     *)
(* both artifacts are locked and hold what it wrote, whatever the failed and *)
(* the dead runs before it left behind.                                      *)
THEOREM CleanRunsLeavePairs ==
  ASSUME NEW c \in Compiler, Compiler = {c}
  PROVE  PipelineSpec => []CleanRunLeavesLockedPair
<1>1. ASSUME PipelineInv(c), SettledRun # 0
      PROVE  readonly = Artifacts /\ \A f \in Artifacts : content[f] = started
  <2>1. Sealed("enc") /\ Sealed("key")
    BY <1>1 DEF CleanInv, Settled, SettledRun, Quiet, PipelineInv
  <2> QED
    BY <1>1, <2>1 DEF PipelineTypeOK, Artifacts, Sealed, PipelineInv
<1>2. ASSUME PipelineInv(c), SettledRun # 0 PROVE started \in Runs
  BY <1>2 DEF PipelineTypeOK, Runs, SettledRun, PipelineInv
<1>3. PipelineInv(c) => CleanRunLeavesLockedPair
  BY <1>1, <1>2 DEF CleanRunLeavesLockedPair
<1> QED
  BY <1>3, PipelineInvariant, PTL

(* For any number of runs of one compiler: a path that the latest result     *)
(* reports is a file with what that run wrote, also when the run failed.     *)
THEOREM ReportsAreTrue ==
  ASSUME NEW c \in Compiler, Compiler = {c}
  PROVE  PipelineSpec => []ReportedIsOnDisk
<1>1. PipelineInv(c) => ReportedIsOnDisk
  BY DEF WriteInv, PipelineInv, ReportedIsOnDisk
<1> QED
  BY <1>1, PipelineInvariant, PTL

(* For any number of runs of one compiler: a read of a settled pair that no  *)
(* run disturbs returns the latest run, and no read returns an older one.    *)
THEOREM ReadsAreSettled ==
  ASSUME NEW c \in Compiler, Compiler = {c}
  PROVE  PipelineSpec => []ReadsTheSettledRun
<1>1. PipelineInv(c) => ReadsTheSettledRun
  BY DEF ReadInv, PipelineInv, ReadsTheSettledRun
<1> QED
  BY <1>1, PipelineInvariant, PTL
================================================================================
