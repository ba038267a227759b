------------------------- MODULE CompileSourceProofs -------------------------
(***************************************************************************)
(* Proofs about CompileSource, for any number of threads, loaders and      *)
(* sources.  The lock keeps the table to one compilation at a time; a load *)
(* that is alone with its loader has the errors and the strategy that it   *)
(* gave it, and Stage says how far it has come with them.                  *)
(***************************************************************************)
EXTENDS CompileSource, TLAPS

Locked == {"clear", "analyze", "analyzed", "judge", "resolve"}

\* The guard is with the one that is under the lock.
LockInv == \A t \in Thread : At(t) \in Locked <=> guard = t

\* Undisturbed, it has its own enums in the table, but those still to come.
Tabled(j, table) ==
  /\ j.at \in {"analyzed", "judge", "resolve"} => j.todo = {}
  /\ j.at \in Locked \ {"clear"} =>
       /\ j.todo \subseteq Enums(j.source)
       /\ j.undisturbed => table = [e \in Enums(j.source) \ j.todo |-> j.source]

EnumInv == \A t \in Thread : Tabled(job[t], registry)

\* A load that is alone shares its loader with none under way.
AloneInv ==
  \A t, u \in Thread :
    t # u /\ job[t].alone /\ ~Over(t) /\ ~Over(u) => job[t].loader # job[u].loader

Scanned(j, err, strat) ==
  LET s == j.source
      passed == {i \in StraysOf(s) : i < j.next}
  IN /\ strat = j.inherited /\ j.next \in Nat \ {0}
     /\ ~j.cut /\ j.section /\ ~j.failed
     /\ j.inherited = "halt" => passed = {}
     /\ j.at = "scan" => (err <=> passed # {})
     /\ j.at = "stray" => err /\ j.next \in StraysOf(s)

Cutting(j, err) ==
  LET s == j.source IN
    /\ err /\ j.cut /\ j.section /\ ~j.failed
    /\ Cuts(s, j.inherited) /\ j.kept = Read(s, j.inherited)

Parsing(j, err) ==
  LET s      == j.source
      read   == Read(s, j.inherited)
      end    == Len(Entries(s)) + 1
      passed == {i \in read : i < j.next /\ Has(s, i, "malformed")}
  IN /\ j.section /\ ~j.failed /\ j.next \in Nat \ {0}
     /\ j.cut <=> Cuts(s, j.inherited)
     /\ j.kept = read \ passed
     /\ StraysOf(s) # {} => err
     /\ Halts(s) => passed = {} /\ (j.cut => j.next <= end)
     /\ j.at = "parse" /\ Halts(s) => (err <=> StraysOf(s) # {})
     /\ j.at = "fault" =>
          /\ err
          /\ \/ j.next \in read /\ Has(s, j.next, "malformed")
             \/ j.cut /\ j.next = end

Compiled(j) ==
  /\ j.section <=> ~Broken(j.source, j.inherited)
  /\ j.kept = Kept(j.source, j.inherited)

Analyzing(j, err) ==
  LET s     == j.source
      wrong == {i \in j.kept : i < j.next /\ Has(s, i, "invalid")}
  IN /\ Compiled(j)
     /\ Halts(s) /\ j.section => (err <=> StraysOf(s) # {} \/ j.failed)
     /\ j.at = "clear" => ~j.failed
     /\ j.at \in {"analyze", "analyzed"} => (j.failed <=> wrong # {})
     /\ j.at = "analyze" /\ Halts(s) =>
          /\ ~j.failed
          /\ StraysOf(s) # {} => \A i \in j.kept : i >= j.next
     /\ j.at = "analyzed" /\ Halts(s) /\ StraysOf(s) # {} =>
          \E i \in j.kept : j.next = i + 1 /\ IsFirst(i, j.kept)
     /\ j.at = "judge" => (j.failed <=> ~Accepted(s, j.inherited))
     /\ j.at = "resolve" => Accepted(s, j.inherited)

Answered(j) ==
  /\ j.ok <=> Accepted(j.source, j.inherited)
  /\ j.ok => Compiled(j)

\* How far a load has come that is alone, from the errors and the strategy of
\* its manager.
Stage(j, err, strat) ==
  /\ j.at \in {"scan", "stray"} => Scanned(j, err, strat)
  /\ j.at = "cut" => Cutting(j, err)
  /\ j.at \in Places \ {"scan", "stray", "cut", "idle", "done"} => strat = OwnStrategy(j.source)
  /\ j.at \in {"parse", "fault"} => Parsing(j, err)
  /\ j.at = "parsed" => Compiled(j) /\ ~j.section /\ ~j.failed
  /\ j.at \in Locked => Analyzing(j, err)
  /\ j.at = "done" /\ j.undisturbed => Answered(j)

StageInv ==
  \A t \in Thread :
    job[t].alone => Stage(job[t], errors[job[t].loader], strategy[job[t].loader])

IInv == TypeOK /\ LockInv /\ EnumInv /\ AloneInv /\ StageInv

-----------------------------------------------------------------------------
(* The types hold at the start. *)
LEMMA InitType == Init => TypeOK
  BY CompileAssumption DEF Init, TypeOK, Job, Jobs, Places, Strategies

(* What a compilation becomes is a compilation. *)
LEMMA Moved ==
  ASSUME job \in [Thread -> Jobs], NEW t \in Thread, NEW j \in Jobs, Becomes(t, j)
  PROVE  job' \in [Thread -> Jobs]
  BY DEF Becomes

(* A step of t leaves the other compilations as they are. *)
LEMMA Other ==
  ASSUME job \in [Thread -> Jobs], NEW t \in Thread, NEW j, Becomes(t, j)
  PROVE  job'[t] = j /\ \A u \in Thread \ {t} : job'[u] = job[u]
  BY DEF Becomes

(* The fields that the stages write keep their types. *)
LEMMA Fields ==
  ASSUME NEW j \in Jobs, NEW p \in Places, NEW n \in Nat, NEW S \in SUBSET Nat,
         NEW b \in BOOLEAN
  PROVE  /\ [j EXCEPT !.at = p, !.next = n] \in Jobs
         /\ [j EXCEPT !.at = p, !.next = n, !.kept = S] \in Jobs
         /\ [j EXCEPT !.at = p, !.next = n, !.failed = b] \in Jobs
         /\ [j EXCEPT !.at = p, !.kept = S, !.next = n] \in Jobs
         /\ [j EXCEPT !.at = p, !.kept = S, !.section = b] \in Jobs
         /\ [j EXCEPT !.at = p, !.cut = b, !.kept = S] \in Jobs
  BY DEF Jobs

(* Every step keeps the types. *)
LEMMA NextType == TypeOK /\ [Next]_vars => TypeOK'
  <1> SUFFICES ASSUME TypeOK, [Next]_vars PROVE TypeOK'
    OBVIOUS
  <1>a. job \in [Thread -> Jobs] /\ \A t \in Thread : job[t] \in Jobs
    BY DEF TypeOK
  <1>b. \A t \in Thread :
          /\ job[t].source \in Source /\ job[t].loader \in Loader
          /\ job[t].next \in Nat /\ job[t].kept \subseteq Nat
          /\ Enums(job[t].source) \subseteq AllEnums
    BY <1>a DEF Jobs, AllEnums
  <1>d. \A p \in {"stray", "cut", "scan", "parse", "fault", "analyzed"} : p \in Places
    BY DEF Places
  <1>c. /\ << >> \in [DOMAIN << >> -> Source]
        /\ \A e : \A s \in Source : With(e, s) \in [DOMAIN With(e, s) -> Source]
    BY DEF With, TypeOK
  <1>1. ASSUME NEW t \in Thread, NEW s \in Source, NEW l \in Loader,
               Begin(t, s, l) \/ BeginInMemory(t, s, l)
        PROVE  TypeOK'
    <2>1. /\ errors' \in [Loader -> BOOLEAN]
          /\ UNCHANGED <<strategy, registry, guard>>
      BY <1>1 DEF Begin, BeginInMemory, TypeOK
    <2>2. \A alone \in BOOLEAN : Job(s, l, "scan", alone) \in Jobs
      BY DEF Job, Jobs, Places, TypeOK
    <2>3. \A u \in Thread : [job[u] EXCEPT !.alone = FALSE] \in Jobs
      BY ZenonT(60), <1>a DEF Jobs
    <2>4. \E cleared \in BOOLEAN : Started(t, s, l, cleared)
      BY <1>1 DEF Begin, BeginInMemory
    <2>5. job' \in [Thread -> Jobs]
      BY <1>a, <2>2, <2>3, <2>4, <2>1 DEF Started, TypeOK
    <2> QED BY <2>1, <2>5 DEF TypeOK
  <1>2. ASSUME NEW t \in Thread, RefuseSource(t) PROVE TypeOK'
    <2>1. [job[t] EXCEPT !.at = "idle"] \in Jobs
      BY <1>a, <1>b DEF Jobs, Places
    <2>2. job' \in [Thread -> Jobs]
      BY <1>a, <1>2, <2>1, Moved DEF RefuseSource
    <2> QED BY <1>b, <1>c, <1>2, <2>2, CompileAssumption DEF RefuseSource, Report, TypeOK
  <1>3. ASSUME NEW t \in Thread, MeetStray(t) PROVE TypeOK'
    <2>1. PICK i \in Nat : Becomes(t, [job[t] EXCEPT !.at = "stray", !.next = i])
      <3>1. Strays(t) \subseteq Nat
        BY <1>b DEF Strays
      <3> QED BY <1>3, <3>1 DEF MeetStray
    <2>2. [job[t] EXCEPT !.at = "stray", !.next = i] \in Jobs
      BY ZenonT(60), <1>a, <1>b DEF Jobs, Places
    <2>3. job' \in [Thread -> Jobs]
      BY <1>a, <2>1, <2>2, Moved
    <2> QED BY <1>3, <2>3 DEF MeetStray, Report, TypeOK
  <1>4. ASSUME NEW t \in Thread, PassStray(t) PROVE TypeOK'
    <2>1. [job[t] EXCEPT !.at = "cut", !.cut = TRUE, !.kept = 1..(job[t].next - 1)] \in Jobs
      <3>1. 1..(job[t].next - 1) \in SUBSET Nat
        OBVIOUS
      <3> QED BY <1>a, <1>d, <3>1, Fields
    <2>2. [job[t] EXCEPT !.at = "scan", !.next = @ + 1] \in Jobs
      <3>1. job[t].next + 1 \in Nat
        BY <1>b
      <3> QED BY <1>a, <1>d, <3>1, Fields
    <2>3. job' \in [Thread -> Jobs]
      BY <1>a, <1>4, <2>1, <2>2, Moved DEF PassStray
    <2> QED BY <1>4, <2>3 DEF PassStray, TypeOK
  <1>5. ASSUME NEW t \in Thread, Configure(t) PROVE TypeOK'
    <2>1. [job[t] EXCEPT !.at = "parse", !.next = 1] \in Jobs
      BY ZenonT(60), <1>a, <1>b, CompileAssumption DEF Jobs, Places, From
    <2>2. [job[t] EXCEPT !.at = "parse", !.next = 1, !.kept = DOMAIN From(t)] \in Jobs
      <3>1. DOMAIN From(t) \in SUBSET Nat
        BY <1>b, CompileAssumption DEF From
      <3> QED BY <1>a, <1>d, <3>1, Fields
    <2>3. job' \in [Thread -> Jobs]
      BY <1>a, <1>5, <2>1, <2>2, Moved DEF Configure
    <2> QED BY <1>5, <2>3, CompileAssumption, <1>b DEF Configure, TypeOK
  <1>6. ASSUME NEW t \in Thread, MeetFault(t) PROVE TypeOK'
    <2>1. PICK i \in Nat : Becomes(t, [job[t] EXCEPT !.at = "fault", !.next = i])
      <3>1. Len(From(t)) + 1 \in Nat
        BY <1>b, CompileAssumption DEF From
      <3>2. Faults(t) \subseteq Nat
        BY <1>b, <3>1 DEF Faults
      <3> QED BY <1>6, <3>2 DEF MeetFault
    <2>2. [job[t] EXCEPT !.at = "fault", !.next = i] \in Jobs
      BY ZenonT(60), <1>a, <1>b DEF Jobs, Places
    <2>3. job' \in [Thread -> Jobs]
      BY <1>a, <2>1, <2>2, Moved
    <2> QED BY <1>6, <2>3 DEF MeetFault, Report, TypeOK
  <1>7. ASSUME NEW t \in Thread, PassFault(t) PROVE TypeOK'
    <2>1. [job[t] EXCEPT !.at = "parsed", !.kept = {}, !.section = OwnStrategy(job[t].source) # "halt"] \in Jobs
      BY ZenonT(60), <1>a, <1>b DEF Jobs, Places
    <2>2. [job[t] EXCEPT !.at = "parse", !.kept = @ \ {job[t].next}, !.next = @ + 1] \in Jobs
      <3>1. job[t].next + 1 \in Nat /\ job[t].kept \ {job[t].next} \in SUBSET Nat
        BY <1>b
      <3> QED BY <1>a, <1>d, <3>1, Fields
    <2>3. job' \in [Thread -> Jobs]
      BY <1>a, <1>7, <2>1, <2>2, Moved DEF PassFault
    <2> QED BY <1>7, <2>3 DEF PassFault, TypeOK
  <1>8. ASSUME NEW t \in Thread, Acquire(t) PROVE TypeOK'
    <2>1. [job[t] EXCEPT !.at = "clear"] \in Jobs
      BY <1>a, <1>b DEF Jobs, Places
    <2>2. job' \in [Thread -> Jobs]
      BY <1>a, <1>8, <2>1, Moved DEF Acquire
    <2> QED BY <1>b, <1>c, <1>8, <2>2, CompileAssumption DEF Acquire, TypeOK
  <1>9. ASSUME NEW t \in Thread, ClearEnums(t) PROVE TypeOK'
    <2>1. [job[t] EXCEPT !.at = "analyze", !.next = 1, !.todo = Enums(job[t].source)] \in Jobs
      BY ZenonT(60), <1>a, <1>b DEF Jobs, Places
    <2>2. job' \in [Thread -> Jobs]
      BY <1>a, <1>9, <2>1, Moved DEF ClearEnums
    <2> QED BY <1>b, <1>c, <1>9, <2>2, CompileAssumption DEF ClearEnums, TypeOK
  <1>10. ASSUME NEW t \in Thread, NEW e \in job[t].todo, RegisterEnum(t, e) PROVE TypeOK'
    <2>1. [job[t] EXCEPT !.todo = @ \ {e}] \in Jobs
      BY <1>a, <1>b DEF Jobs, Places
    <2>2. job' \in [Thread -> Jobs]
      BY <1>a, <1>10, <2>1, Moved DEF RegisterEnum
    <2> QED BY <1>b, <1>c, <1>10, <2>2, CompileAssumption DEF RegisterEnum, TypeOK
  <1>11. ASSUME NEW t \in Thread, AnalyzeEntry(t) PROVE TypeOK'
    <2>1. PICK i \in Nat, b \in BOOLEAN : 
            Becomes(t, [job[t] EXCEPT !.at = "analyzed", !.next = i + 1, !.failed = b])
      BY <1>a, <1>b, <1>11 DEF AnalyzeEntry, Unseen, Jobs
    <2>2. [job[t] EXCEPT !.at = "analyzed", !.next = i + 1, !.failed = b] \in Jobs
      <3>1. i + 1 \in Nat
        OBVIOUS
      <3> QED BY <1>a, <1>d, <3>1, Fields
    <2>3. job' \in [Thread -> Jobs]
      BY <1>a, <2>1, <2>2, Moved
    <2> QED BY <1>11, <2>3 DEF AnalyzeEntry, Report, TypeOK
  <1>12. ASSUME NEW t \in Thread, PassEntry(t) PROVE TypeOK'
    <2>1. \A p \in {"judge", "analyze"} : [job[t] EXCEPT !.at = p] \in Jobs
      BY <1>a DEF Jobs, Places
    <2>2. job' \in [Thread -> Jobs]
      BY <1>a, <1>12, <2>1, Moved DEF PassEntry
    <2> QED BY <1>12, <2>2 DEF PassEntry, TypeOK
  <1>13. ASSUME NEW t \in Thread, NEW place \in Places, NEW ok \in BOOLEAN,
                Return(t, place, ok)
         PROVE  guard' \in Thread \cup {Nobody} /\ job' \in [Thread -> Jobs]
    <2>1. [job[t] EXCEPT !.at = place, !.ok = ok, !.kept = IF ok THEN @ ELSE {}, !.next = 1,
                         !.cut = FALSE, !.failed = FALSE, !.todo = {}] \in Jobs
      BY ZenonT(60), <1>a, <1>b DEF Jobs
    <2> QED BY <1>a, <1>13, <2>1, Moved DEF Return
  <1>14. ASSUME NEW t \in Thread, EndAnalysis(t) PROVE TypeOK'
    <2>1. [job[t] EXCEPT !.at = "resolve"] \in Jobs /\ "done" \in Places
      BY <1>a DEF Jobs, Places
    <2>2. CASE job[t].failed
      BY <1>13, <1>14, <2>1, <2>2 DEF EndAnalysis, TypeOK
    <2>3. CASE ~job[t].failed
      <3>1. job' \in [Thread -> Jobs]
        BY <1>a, <1>14, <2>1, <2>3, Moved DEF EndAnalysis
      <3> QED BY <1>14, <2>3, <3>1 DEF EndAnalysis, TypeOK
    <2> QED BY <2>2, <2>3
  <1>15. ASSUME NEW t \in Thread, Resolve(t) PROVE TypeOK'
    <2>1. "done" \in Places
      BY DEF Places
    <2> QED BY <1>13, <1>15, <2>1 DEF Resolve, Report, TypeOK
  <1>16. ASSUME NEW t \in Thread, Panic(t) PROVE TypeOK'
    <2>1. "idle" \in Places
      BY DEF Places
    <2> QED BY <1>13, <1>16, <2>1 DEF Panic, TypeOK
  <1>17. ASSUME AnalyzeOutside PROVE TypeOK'
    <2>1. job' \in [Thread -> Jobs]
      BY ZenonT(60), <1>a, <1>17 DEF AnalyzeOutside, Jobs
    <2>2. registry' \in [DOMAIN registry' -> Source]
      <3>1. CASE registry' = << >>
        BY <1>c, <3>1
      <3>2. CASE registry' # << >>
        <4>1. PICK s \in Source : \E e \in Enums(s) : registry' = With(e, s)
          BY <1>17, <3>2 DEF AnalyzeOutside
        <4> QED BY <1>c, <4>1
      <3> QED BY <3>1, <3>2
    <2> QED BY <1>17, <2>1, <2>2 DEF AnalyzeOutside, TypeOK
  <1>18. ASSUME UNCHANGED vars PROVE TypeOK'
    BY <1>18 DEF vars, TypeOK
  <1> QED
    BY <1>1, <1>2, <1>3, <1>4, <1>5, <1>6, <1>7, <1>8, <1>9, <1>10, <1>11, <1>12, <1>14, <1>15, <1>16, <1>17, <1>18
       DEF Next, Compile

(* Whatever the threads compile on whatever loaders, the managers, the      *)
(* table, the lock and the compilations keep their types.                   *)
THEOREM TypeCorrect == Spec => []TypeOK
  BY InitType, NextType, PTL DEF Spec

-----------------------------------------------------------------------------
(* Nobody has the lock at the start. *)
LEMMA InitEnums == Init => LockInv /\ EnumInv
  BY CompileAssumption DEF Init, LockInv, EnumInv, Tabled, Locked, At, Job

\* A step of t alone that leaves the table and the lock.
LEMMA EnumsLeft ==
  ASSUME TypeOK, LockInv, EnumInv, NEW t \in Thread, NEW j, Becomes(t, j),
         UNCHANGED <<registry, guard>>,
         \/ At(t) \notin Locked /\ j.at \notin Locked
         \/ /\ At(t) \in Locked \ {"clear"} /\ j.at \in Locked \ {"clear"}
            /\ j.source = job[t].source /\ j.undisturbed = job[t].undisturbed
            /\ j.todo = job[t].todo
            /\ At(t) = "analyze" /\ j.at # "analyze" => j.todo = {}
  PROVE  LockInv' /\ EnumInv'
  <1>1. job'[t] = j /\ \A u \in Thread \ {t} : job'[u] = job[u]
    BY Other DEF TypeOK
  <1>2. LockInv'
    BY <1>1 DEF LockInv, At
  <1>3. \A u \in Thread : Tabled(job'[u], registry')
    BY <1>1 DEF EnumInv, Tabled, At, Locked
  <1> QED BY <1>2, <1>3 DEF EnumInv

\* A step of t, under the lock, that changes the table, or leaves with the lock.
LEMMA EnumsMade ==
  ASSUME TypeOK, LockInv, EnumInv, NEW t \in Thread, NEW j, Becomes(t, j),
         \/ guard \in {t, Nobody} /\ guard' = t /\ j.at \in Locked
         \/ guard = t /\ guard' = Nobody /\ j.at \notin Locked,
         Tabled(j, registry')
  PROVE  LockInv' /\ EnumInv'
  <1>1. job'[t] = j /\ \A u \in Thread \ {t} : job'[u] = job[u]
    BY Other DEF TypeOK
  <1>2. \A u \in Thread \ {t} : At(u) \notin Locked /\ At(u)' \notin Locked
    BY <1>1, CompileAssumption DEF LockInv, At
  <1>3. LockInv'
    BY <1>1, <1>2, CompileAssumption DEF LockInv, At
  <1>4. \A u \in Thread : Tabled(job'[u], registry')
    BY <1>1, <1>2 DEF Tabled, At, Locked
  <1> QED BY <1>3, <1>4 DEF EnumInv

(* Every step keeps the lock with one compilation and the table with its enums. *)
LEMMA NextEnums ==
  ASSUME TypeOK, LockInv, EnumInv, [Next]_vars
  PROVE  LockInv' /\ EnumInv'
  <1>a. job \in [Thread -> Jobs] /\ \A t \in Thread : job[t] \in Jobs
    BY DEF TypeOK
  <1>1. ASSUME NEW t \in Thread, NEW s \in Source, NEW l \in Loader,
               Begin(t, s, l) \/ BeginInMemory(t, s, l)
        PROVE  LockInv' /\ EnumInv'
    <2>1. UNCHANGED <<registry, guard>> /\ At(t) \notin Locked
      BY <1>1 DEF Begin, BeginInMemory, Over, Locked
    <2>2. \E cleared \in BOOLEAN : Started(t, s, l, cleared)
      BY <1>1 DEF Begin, BeginInMemory
    <2>3. At(t)' = "scan"
      BY <2>2 DEF Started, Job, At
    <2>4. ASSUME NEW u \in Thread, u # t
          PROVE  job'[u] \in {job[u], [job[u] EXCEPT !.alone = FALSE]}
      BY <2>2, <2>4 DEF Started
    <2>5. ASSUME NEW u \in Thread, u # t
          PROVE  /\ At(u)' = At(u) /\ job'[u].source = job[u].source
                 /\ job'[u].todo = job[u].todo /\ job'[u].undisturbed = job[u].undisturbed
      BY <1>a, <2>4, <2>5 DEF Jobs, At
    <2>6. LockInv'
      BY <2>1, <2>3, <2>5 DEF LockInv, Locked
    <2>7. EnumInv'
      <3>1. Tabled(job'[t], registry')
        BY <2>3 DEF Tabled, Locked, At
      <3>2. ASSUME NEW u \in Thread, u # t PROVE Tabled(job'[u], registry')
        <4>1. Tabled(job[u], registry)
          BY DEF EnumInv
        <4> QED BY <2>1, <2>5, <3>2, <4>1 DEF Tabled, At
      <3> QED BY <3>1, <3>2 DEF EnumInv
    <2> QED BY <2>6, <2>7
  <1>2. ASSUME NEW t \in Thread, RefuseSource(t) PROVE LockInv' /\ EnumInv'
    BY <1>a, <1>2, EnumsLeft DEF RefuseSource, Jobs, Locked, At
  <1>3. ASSUME NEW t \in Thread, MeetStray(t) PROVE LockInv' /\ EnumInv'
    BY <1>a, <1>3, EnumsLeft DEF MeetStray, Jobs, Locked, At
  <1>4. ASSUME NEW t \in Thread, PassStray(t) PROVE LockInv' /\ EnumInv'
    BY <1>a, <1>4, EnumsLeft DEF PassStray, Jobs, Locked, At
  <1>5. ASSUME NEW t \in Thread, Configure(t) PROVE LockInv' /\ EnumInv'
    BY <1>a, <1>5, EnumsLeft DEF Configure, Jobs, Locked, At
  <1>6. ASSUME NEW t \in Thread, MeetFault(t) PROVE LockInv' /\ EnumInv'
    BY <1>a, <1>6, EnumsLeft DEF MeetFault, Jobs, Locked, At
  <1>7. ASSUME NEW t \in Thread, PassFault(t) PROVE LockInv' /\ EnumInv'
    BY <1>a, <1>7, EnumsLeft DEF PassFault, Jobs, Locked, At
  <1>8. ASSUME NEW t \in Thread, Acquire(t) PROVE LockInv' /\ EnumInv'
    BY <1>a, <1>8, EnumsMade DEF Acquire, Jobs, Tabled, Locked, At
  <1>9. ASSUME NEW t \in Thread, ClearEnums(t) PROVE LockInv' /\ EnumInv'
    <2> DEFINE s == job[t].source
               j == [job[t] EXCEPT !.at = "analyze", !.next = 1, !.todo = Enums(s)]
    <2>1. guard = t /\ UNCHANGED guard /\ Becomes(t, j)
      BY <1>9 DEF ClearEnums, LockInv, Locked
    <2>2. j.at = "analyze" /\ j.source = s /\ j.todo = Enums(s)
      BY <1>a DEF Jobs
    <2>3. registry' = [e \in Enums(s) \ Enums(s) |-> s]
      BY <1>9 DEF ClearEnums
    <2>4. Tabled(j, registry')
      BY <2>2, <2>3 DEF Tabled
    <2> HIDE DEF j
    <2> QED BY <2>1, <2>2, <2>4, EnumsMade DEF Locked
  <1>10. ASSUME NEW t \in Thread, NEW e \in job[t].todo, RegisterEnum(t, e)
         PROVE  LockInv' /\ EnumInv'
    <2> DEFINE s == job[t].source
               j == [job[t] EXCEPT !.todo = @ \ {e}]
    <2>1. guard = t /\ UNCHANGED guard /\ Becomes(t, j)
      BY <1>10 DEF RegisterEnum, LockInv, Locked
    <2>2. /\ j.at = "analyze" /\ j.source = s /\ j.todo = job[t].todo \ {e}
          /\ j.undisturbed = job[t].undisturbed
      BY <1>a, <1>10 DEF Jobs, RegisterEnum, At
    <2>3. Tabled(job[t], registry) /\ At(t) = "analyze"
      BY <1>10 DEF EnumInv, RegisterEnum
    <2>4. job[t].undisturbed => registry' = [d \in Enums(s) \ j.todo |-> s]
      BY <1>10, <2>2, <2>3 DEF RegisterEnum, With, Tabled, Locked, At
    <2>5. Tabled(j, registry')
      BY <2>2, <2>3, <2>4 DEF Tabled, Locked, At
    <2> HIDE DEF j
    <2> QED BY <2>1, <2>2, <2>5, EnumsMade DEF Locked
  <1>11. ASSUME NEW t \in Thread, AnalyzeEntry(t) PROVE LockInv' /\ EnumInv'
    <2>1. PICK i, b : Becomes(t, [job[t] EXCEPT !.at = "analyzed", !.next = i + 1, !.failed = b])
      BY <1>11 DEF AnalyzeEntry
    <2>2. At(t) = "analyze" /\ job[t].todo = {} /\ UNCHANGED <<registry, guard>>
      BY <1>11 DEF AnalyzeEntry
    <2> QED BY <1>a, <2>1, <2>2, EnumsLeft DEF Jobs, Locked, At
  <1>12. ASSUME NEW t \in Thread, PassEntry(t) PROVE LockInv' /\ EnumInv'
    <2>1. PICK p \in {"judge", "analyze"} : Becomes(t, [job[t] EXCEPT !.at = p])
      BY <1>12 DEF PassEntry
    <2>2. At(t) = "analyzed" /\ UNCHANGED <<registry, guard>>
      BY <1>12 DEF PassEntry
    <2> QED BY <1>a, <2>1, <2>2, EnumsLeft DEF Jobs, Locked, At
  <1>13. ASSUME NEW t \in Thread, NEW place \in {"done", "idle"}, NEW ok,
                Return(t, place, ok), guard = t
         PROVE  LockInv' /\ EnumInv'
    <2>1. PICK j : Becomes(t, j) /\ j.at = place /\ guard' = Nobody
      BY <1>a, <1>13 DEF Return, Jobs
    <2>2. Tabled(j, registry') /\ j.at \notin Locked
      BY <2>1 DEF Tabled, Locked
    <2> QED BY <1>13, <2>1, <2>2, EnumsMade
  <1>14. ASSUME NEW t \in Thread, EndAnalysis(t) PROVE LockInv' /\ EnumInv'
    <2>1. guard = t /\ At(t) \in {"analyze", "judge"} /\ job[t].todo = {}
      BY <1>14 DEF EndAnalysis, LockInv, Locked, EnumInv, Tabled, At
    <2>2. CASE job[t].failed
      BY <1>13, <1>14, <2>1, <2>2 DEF EndAnalysis
    <2>3. CASE ~job[t].failed
      BY <1>a, <1>14, <2>1, <2>3, EnumsLeft DEF EndAnalysis, Jobs, Locked, At
    <2> QED BY <2>2, <2>3
  <1>15. ASSUME NEW t \in Thread, Resolve(t) PROVE LockInv' /\ EnumInv'
    BY <1>13, <1>15 DEF Resolve, LockInv, Locked
  <1>16. ASSUME NEW t \in Thread, Panic(t) PROVE LockInv' /\ EnumInv'
    BY <1>13, <1>16 DEF Panic
  <1>17. ASSUME AnalyzeOutside PROVE LockInv' /\ EnumInv'
    <2>1. ASSUME NEW u \in Thread
          PROVE  /\ At(u)' = At(u) /\ job'[u].source = job[u].source
                 /\ job'[u].todo = job[u].todo
                 /\ guard = u => ~job'[u].undisturbed
      BY <1>a, <1>17 DEF AnalyzeOutside, Jobs, At
    <2>2. LockInv'
      BY <1>17, <2>1 DEF AnalyzeOutside, LockInv
    <2>3. EnumInv'
      BY <2>1 DEF EnumInv, Tabled, LockInv, At
    <2> QED BY <2>2, <2>3
  <1>18. ASSUME UNCHANGED vars PROVE LockInv' /\ EnumInv'
    BY <1>18 DEF vars, LockInv, EnumInv, At
  <1> QED
    BY <1>1, <1>2, <1>3, <1>4, <1>5, <1>6, <1>7, <1>8, <1>9, <1>10, <1>11, <1>12,
       <1>14, <1>15, <1>16, <1>17, <1>18 DEF Next, Compile

(* Nobody who was left alone by the analyses without the lock resolves with *)
(* the enums of another source.                                             *)
THEOREM OwnEnumsSeen == Spec => []SeesOwnEnums
  <1>1. TypeOK /\ LockInv /\ EnumInv /\ [Next]_vars => (TypeOK /\ LockInv /\ EnumInv)'
    BY NextType, NextEnums
  <1>2. EnumInv => SeesOwnEnums
    BY DEF EnumInv, Tabled, SeesOwnEnums, Locked, At
  <1> QED BY <1>1, <1>2, InitType, InitEnums, PTL DEF Spec

-----------------------------------------------------------------------------
(* Nothing is under way at the start. *)
LEMMA InitStage == Init => AloneInv /\ StageInv
  <1> SUFFICES ASSUME Init PROVE AloneInv /\ StageInv
    OBVIOUS
  <1>1. PICK s \in Source, l \in Loader : job = [t \in Thread |-> Job(s, l, "idle", FALSE)]
    BY DEF Init
  <1>2. \A t \in Thread : ~job[t].alone
    BY <1>1 DEF Job
  <1> QED BY <1>2 DEF AloneInv, StageInv

\* What is over does not depend on its manager any more.
LEMMA StageOver ==
  ASSUME NEW j, j.at \in {"idle", "done"}, NEW err, NEW strat, Stage(j, err, strat)
  PROVE  \A e, s : Stage(j, e, s)
  BY DEF Stage, Locked

(* A step of t that touches no manager but its own: the loads that are     *)
(* alone have another.                                                      *)
LEMMA StageMoved ==
  ASSUME TypeOK, AloneInv, StageInv, NEW t \in Thread, NEW j, Becomes(t, j), ~Over(t),
         j.alone = job[t].alone, j.loader = job[t].loader,
         \A l \in Loader \ {j.loader} : errors'[l] = errors[l] /\ strategy'[l] = strategy[l],
         j.alone => Stage(j, errors'[j.loader], strategy'[j.loader])
  PROVE  AloneInv' /\ StageInv'
  <1>1. job'[t] = j /\ \A u \in Thread \ {t} : job'[u] = job[u]
    BY Other DEF TypeOK
  <1>2. AloneInv'
    BY <1>1 DEF AloneInv, Over, At
  <1>3. ASSUME NEW u \in Thread, u # t, job[u].alone
        PROVE  Stage(job[u], errors'[job[u].loader], strategy'[job[u].loader])
    <2>1. Stage(job[u], errors[job[u].loader], strategy[job[u].loader])
      BY <1>3 DEF StageInv
    <2>2. CASE Over(u)
      BY <2>1, <2>2, StageOver DEF Over, At
    <2>3. CASE ~Over(u)
      <3>1. job[u].loader # j.loader /\ job[u].loader \in Loader
        BY <1>3, <2>3 DEF AloneInv, TypeOK, Jobs
      <3> QED BY <2>1, <3>1
    <2> QED BY <2>2, <2>3
  <1>4. StageInv'
    BY <1>1, <1>3 DEF StageInv
  <1> QED BY <1>2, <1>4

(* A load begins: it is alone if nobody else uses its loader. *)
LEMMA StageBegun ==
  ASSUME TypeOK, AloneInv, StageInv, NEW t \in Thread, NEW s \in Source, NEW l \in Loader,
         Begin(t, s, l) \/ BeginInMemory(t, s, l)
  PROVE  AloneInv' /\ StageInv'
  <1> DEFINE others == {u \in Thread \ {t} : ~Over(u) /\ job[u].loader = l}
  <1>1. PICK b \in BOOLEAN :
          /\ job'[t] = Job(s, l, "scan", b)
          /\ b => others = {} /\ ~errors'[l]
    BY DEF Begin, BeginInMemory, Started, TypeOK
  <1>2. /\ job'[t].at = "scan" /\ job'[t].loader = l /\ job'[t].alone = b
        /\ job'[t].source = s /\ job'[t].next = 1 /\ ~job'[t].cut /\ job'[t].section
        /\ ~job'[t].failed /\ job'[t].inherited = strategy[l]
    BY <1>1 DEF Job
  <1>3. /\ \A u \in others : job'[u] = [job[u] EXCEPT !.alone = FALSE]
        /\ \A u \in Thread \ ({t} \cup others) : job'[u] = job[u]
    BY DEF Begin, BeginInMemory, Started
  <1>4. \A u \in others : ~job'[u].alone
    BY <1>3 DEF TypeOK, Jobs
  <1>5. ASSUME NEW u \in Thread, u # t
        PROVE  /\ At(u)' = At(u) /\ job'[u].loader = job[u].loader
               /\ job'[u].alone => job[u].alone /\ job'[u] = job[u] /\ u \notin others
    <2>1. CASE u \in others
      <3>1. job[u] \in Jobs /\ job'[u] = [job[u] EXCEPT !.alone = FALSE]
        BY <1>3, <2>1 DEF TypeOK
      <3>2. job'[u].at = job[u].at /\ job'[u].loader = job[u].loader
        BY <3>1 DEF Jobs
      <3> QED BY <1>4, <2>1, <3>2 DEF At
    <2>2. CASE u \notin others
      BY <1>3, <1>5, <2>2 DEF At
    <2> QED BY <2>1, <2>2
  <1>6. AloneInv'
    <2>1. ASSUME NEW u \in Thread, NEW v \in Thread, u # v,
                 job'[u].alone, ~Over(u)', ~Over(v)'
          PROVE  job'[u].loader # job'[v].loader
      <3>1. CASE u = t
        BY <1>1, <1>2, <1>5, <2>1, <3>1 DEF Over
      <3>2. CASE u # t /\ v = t
        BY <1>2, <1>5, <2>1, <3>2 DEF Over
      <3>3. CASE u # t /\ v # t
        BY <1>5, <2>1, <3>3 DEF AloneInv, Over
      <3> QED BY <3>1, <3>2, <3>3
    <2> QED BY <2>1 DEF AloneInv
  <1>7. /\ UNCHANGED strategy
        /\ \A k \in Loader \ {l} : errors'[k] = errors[k]
    BY DEF Begin, BeginInMemory, TypeOK
  <1>8. ASSUME b PROVE Stage(job'[t], errors'[l], strategy'[l])
    <2>1. {i \in StraysOf(s) : i < 1} = {}
      BY CompileAssumption DEF StraysOf
    <2> DEFINE j == job'[t]
    <2>2. /\ j.at = "scan" /\ j.source = s /\ j.next = 1 /\ ~j.cut /\ j.section
          /\ ~j.failed /\ j.inherited = strategy'[l] /\ ~errors'[l]
      BY <1>1, <1>2, <1>7, <1>8
    <2> HIDE DEF j
    <2>3. Scanned(j, errors'[l], strategy'[l])
      BY <2>1, <2>2 DEF Scanned
    <2>4. Stage(j, errors'[l], strategy'[l])
      BY <2>2, <2>3 DEF Stage, Locked
    <2> QED BY <2>4 DEF j
  <1>9. ASSUME NEW u \in Thread, u # t, job'[u].alone
        PROVE  Stage(job'[u], errors'[job'[u].loader], strategy'[job'[u].loader])
    <2>1. job'[u] = job[u] /\ Stage(job[u], errors[job[u].loader], strategy[job[u].loader])
      BY <1>5, <1>9 DEF StageInv
    <2>2. CASE Over(u)
      BY <2>1, <2>2, StageOver DEF Over, At
    <2>3. CASE ~Over(u)
      <3>1. job[u].loader # l /\ job[u].loader \in Loader
        BY <1>5, <1>9, <2>3 DEF TypeOK, Jobs
      <3> QED BY <1>7, <2>1, <3>1
    <2> QED BY <2>2, <2>3
  <1> QED BY <1>2, <1>6, <1>8, <1>9 DEF StageInv

\* The entries of a source are numbered from 1.
LEMMA Numbered ==
  ASSUME NEW s \in Source
  PROVE  /\ Len(Entries(s)) \in Nat /\ DOMAIN Entries(s) = 1..Len(Entries(s))
         /\ StraysOf(s) = {i \in 1..Len(Entries(s)) : Entries(s)[i] = "stray"}
         /\ \A s0 : Read(s, s0) \subseteq 1..Len(Entries(s))
         /\ \A s0 : Kept(s, s0) \subseteq 1..Len(Entries(s))
  BY CompileAssumption DEF StraysOf, Read, Kept, WellFormed, Has

(* Stages 1 to 3, under the strategy of the source before. *)
LEMMA StageScan ==
  ASSUME TypeOK, AloneInv, StageInv, NEW t \in Thread,
         MeetStray(t) \/ PassStray(t) \/ Configure(t) \/ RefuseSource(t)
  PROVE  AloneInv' /\ StageInv'
  <1> DEFINE j == job[t]
             l == job[t].loader
             s == job[t].source
  <1>1. /\ j \in Jobs /\ s \in Source /\ l \in Loader /\ j.next \in Nat
        /\ errors[l] \in BOOLEAN /\ strategy[l] \in Strategies
        /\ j.inherited \in Strategies /\ j.cut \in BOOLEAN
    BY DEF TypeOK, Jobs
  <1>2. j.alone => Stage(j, errors[l], strategy[l])
    BY DEF StageInv
  <1>n. /\ Len(Entries(s)) \in Nat /\ DOMAIN Entries(s) = 1..Len(Entries(s))
        /\ StraysOf(s) = {i \in 1..Len(Entries(s)) : Entries(s)[i] = "stray"}
    BY <1>1, Numbered
  <1>3. CASE RefuseSource(t)
    <2> DEFINE k == [j EXCEPT !.at = "idle"]
    <2>1. k.at = "idle" /\ k.alone = j.alone /\ k.loader = l
      BY <1>1 DEF Jobs
    <2>2. Becomes(t, k) /\ ~Over(t) /\ UNCHANGED strategy
      BY <1>3 DEF RefuseSource, Over
    <2>3. \A m \in Loader \ {l} : errors'[m] = errors[m]
      BY <1>3 DEF RefuseSource, Report, TypeOK
    <2> HIDE DEF k
    <2>4. Stage(k, errors'[l], strategy'[l])
      BY <2>1 DEF Stage, Locked
    <2> QED BY <2>1, <2>2, <2>3, <2>4, StageMoved
  <1>4. CASE MeetStray(t)
    <2>1. PICK i : IsFirst(i, Strays(t)) /\ Becomes(t, [j EXCEPT !.at = "stray", !.next = i])
      BY <1>4 DEF MeetStray
    <2> DEFINE k == [j EXCEPT !.at = "stray", !.next = i]
    <2>2. /\ k.at = "stray" /\ k.next = i /\ k.alone = j.alone /\ k.loader = l
          /\ k.source = s /\ k.cut = j.cut /\ k.section = j.section
          /\ k.failed = j.failed /\ k.inherited = j.inherited
      BY <1>1 DEF Jobs
    <2>3. /\ Becomes(t, k) /\ j.at = "scan" /\ ~Over(t) /\ UNCHANGED strategy
          /\ errors' = [errors EXCEPT ![l] = TRUE]
      BY <1>4, <2>1 DEF MeetStray, Over, At, Report
    <2>4. \A m \in Loader \ {l} : errors'[m] = errors[m] /\ errors'[l] = TRUE
      BY <1>1, <2>3 DEF TypeOK
    <2>e. errors'[l] = TRUE
      BY <1>1, <2>3 DEF TypeOK
    <2>5. ASSUME j.alone PROVE Stage(k, TRUE, strategy[l])
      <3>1. Scanned(j, errors[l], strategy[l])
        BY <1>2, <2>3, <2>5 DEF Stage
      <3>2. i \in StraysOf(s) /\ i >= j.next /\ i \in Nat
        <4>1. i \in j.next..Len(Entries(s)) /\ Entries(s)[i] = "stray" /\ 1 <= j.next
          BY <2>1, <3>1 DEF IsFirst, Strays, From, Scanned
        <4> HIDE DEF j, s
        <4> QED BY <1>n, <1>1, <4>1
      <3>3. {m \in StraysOf(s) : m < i} = {m \in StraysOf(s) : m < j.next}
        BY <1>n, <1>1, <2>1, <3>2 DEF IsFirst, Strays, From
      <3> HIDE DEF k
      <3>4. Scanned(k, TRUE, strategy[l])
        BY <2>2, <3>1, <3>2, <3>3 DEF Scanned
      <3> QED BY <2>2, <3>4 DEF Stage, Locked
    <2> HIDE DEF k
    <2> QED BY <2>2, <2>3, <2>4, <2>5, <2>e, StageMoved
  <1>5. CASE PassStray(t) /\ Halting(l)
    <2> DEFINE k == [j EXCEPT !.at = "cut", !.cut = TRUE, !.kept = 1..(j.next - 1)]
    <2>1. /\ k.at = "cut" /\ k.cut /\ k.kept = 1..(j.next - 1)
          /\ k.alone = j.alone /\ k.loader = l /\ k.source = s /\ k.section = j.section
          /\ k.failed = j.failed /\ k.inherited = j.inherited
      BY <1>1 DEF Jobs
    <2>2. Becomes(t, k) /\ j.at = "stray" /\ ~Over(t) /\ UNCHANGED <<errors, strategy>>
      BY <1>5 DEF PassStray, Over, At
    <2> HIDE DEF k
    <2>3. ASSUME j.alone PROVE Stage(k, errors[l], strategy[l])
      <3>1. Scanned(j, errors[l], strategy[l])
        BY <1>2, <2>2, <2>3 DEF Stage
      <3>2. /\ j.inherited = "halt" /\ errors[l] /\ j.next \in StraysOf(s)
            /\ {m \in StraysOf(s) : m < j.next} = {}
        BY <1>5, <2>2, <3>1 DEF Scanned, Halting
      <3>3. Read(s, "halt") = 1..(j.next - 1)
        BY <1>n, <1>1, <3>2 DEF Read, Cuts
      <3>4. Cutting(k, errors[l])
        BY <2>1, <3>1, <3>2, <3>3 DEF Cutting, Cuts, Scanned
      <3> QED BY <2>1, <3>4 DEF Stage, Locked
    <2> QED BY <2>1, <2>2, <2>3, StageMoved
  <1>6. CASE PassStray(t) /\ ~Halting(l)
    <2> DEFINE k == [j EXCEPT !.at = "scan", !.next = j.next + 1]
    <2>1. /\ k.at = "scan" /\ k.next = j.next + 1 /\ k.cut = j.cut
          /\ k.alone = j.alone /\ k.loader = l /\ k.source = s /\ k.section = j.section
          /\ k.failed = j.failed /\ k.inherited = j.inherited
      BY <1>1 DEF Jobs
    <2>2. Becomes(t, k) /\ j.at = "stray" /\ ~Over(t) /\ UNCHANGED <<errors, strategy>>
      BY <1>6 DEF PassStray, Over, At
    <2> HIDE DEF k
    <2>3. ASSUME j.alone PROVE Stage(k, errors[l], strategy[l])
      <3>1. Scanned(j, errors[l], strategy[l])
        BY <1>2, <2>2, <2>3 DEF Stage
      <3>2. j.inherited # "halt" /\ errors[l] /\ j.next \in StraysOf(s)
        BY <1>6, <2>2, <3>1 DEF Scanned, Halting
      <3>3. j.next \in {m \in StraysOf(s) : m < j.next + 1}
        BY <1>1, <3>2
      <3>4. Scanned(k, errors[l], strategy[l])
        BY <1>1, <2>1, <3>1, <3>2, <3>3 DEF Scanned
      <3> QED BY <2>1, <3>4 DEF Stage, Locked
    <2> QED BY <2>1, <2>2, <2>3, StageMoved
  <1>7. CASE Configure(t)
    <2>1. PICK K : /\ Becomes(t, [j EXCEPT !.at = "parse", !.next = 1, !.kept = K])
                   /\ \/ j.at = "cut" /\ K = j.kept
                      \/ j.at = "scan" /\ Strays(t) = {} /\ K = DOMAIN Entries(s)
      <3>1. [j EXCEPT !.at = "parse", !.next = 1] =
              [j EXCEPT !.at = "parse", !.next = 1, !.kept = j.kept]
        BY <1>1 DEF Jobs
      <3> QED BY <1>7, <3>1 DEF Configure, At, From
    <2> DEFINE k == [j EXCEPT !.at = "parse", !.next = 1, !.kept = K]
    <2>2. /\ k.at = "parse" /\ k.next = 1 /\ k.kept = K /\ k.cut = j.cut
          /\ k.alone = j.alone /\ k.loader = l /\ k.source = s /\ k.section = j.section
          /\ k.failed = j.failed /\ k.inherited = j.inherited
      BY <1>1 DEF Jobs
    <2>3. /\ Becomes(t, k) /\ ~Over(t) /\ UNCHANGED errors
          /\ strategy' = [strategy EXCEPT ![l] = OwnStrategy(s)]
      BY <1>7, <2>1 DEF Configure, Over, At
    <2>4. strategy'[l] = OwnStrategy(s) /\ \A m \in Loader \ {l} : strategy'[m] = strategy[m]
      BY <1>1, <2>3 DEF TypeOK
    <2> HIDE DEF k
    <2>5. ASSUME j.alone PROVE Stage(k, errors[l], OwnStrategy(s))
      <3>1. /\ k.section /\ ~k.failed /\ (k.cut <=> Cuts(s, j.inherited))
            /\ K = Read(s, j.inherited) /\ (errors[l] <=> StraysOf(s) # {})
        <4>1. CASE j.at = "cut"
          <5>1. Cutting(j, errors[l])
            BY <1>2, <2>5, <4>1 DEF Stage
          <5> QED BY <2>1, <2>2, <4>1, <5>1 DEF Cutting, Cuts
        <4>2. CASE j.at = "scan"
          <5>1. Scanned(j, errors[l], strategy[l])
            BY <1>2, <2>5, <4>2 DEF Stage
          <5>2. Strays(t) = {} /\ K = DOMAIN Entries(s)
            BY <2>1, <4>2
          <5>3. {i \in StraysOf(s) : i < j.next} = StraysOf(s)
            BY <1>n, <1>1, <5>2 DEF Strays, From
          <5>4. ~Cuts(s, j.inherited) /\ (errors[l] <=> StraysOf(s) # {})
            BY <4>2, <5>1, <5>3 DEF Cuts, Scanned
          <5> QED BY <2>2, <5>1, <5>2, <5>4 DEF Scanned, Read
        <4> QED BY <2>1, <4>1, <4>2
      <3>2. {i \in K : i < 1 /\ Has(s, i, "malformed")} = {}
        BY <1>1, <3>1, Numbered
      <3>3. Parsing(k, errors[l])
        BY <1>n, <2>2, <3>1, <3>2 DEF Parsing
      <3> QED BY <2>2, <3>3 DEF Stage, Locked
    <2> QED BY <2>2, <2>3, <2>4, <2>5, StageMoved
  <1> QED BY <1>3, <1>4, <1>5, <1>6, <1>7

(* Stage 4, up to the lock. *)
LEMMA StageParse ==
  ASSUME TypeOK, AloneInv, StageInv, NEW t \in Thread,
         MeetFault(t) \/ PassFault(t) \/ Acquire(t)
  PROVE  AloneInv' /\ StageInv'
  <1> DEFINE j == job[t]
             l == job[t].loader
             s == job[t].source
  <1>1. /\ j \in Jobs /\ s \in Source /\ l \in Loader /\ j.next \in Nat
        /\ errors[l] \in BOOLEAN /\ strategy[l] \in Strategies
        /\ j.inherited \in Strategies /\ j.cut \in BOOLEAN /\ j.failed \in BOOLEAN
    BY DEF TypeOK, Jobs
  <1>2. j.alone => Stage(j, errors[l], strategy[l])
    BY DEF StageInv
  <1> DEFINE end   == Len(Entries(s)) + 1
             read  == Read(s, j.inherited)
             Passed(n) == {i \in read : i < n /\ Has(s, i, "malformed")}
  <1>n. end \in Nat /\ read \subseteq 1..(end - 1)
    BY <1>1, Numbered
  <1>3. CASE MeetFault(t)
    <2>1. PICK i : IsFirst(i, Faults(t)) /\ Becomes(t, [j EXCEPT !.at = "fault", !.next = i])
      BY <1>3 DEF MeetFault
    <2> DEFINE k == [j EXCEPT !.at = "fault", !.next = i]
    <2>2. /\ k.at = "fault" /\ k.next = i /\ k.kept = j.kept /\ k.cut = j.cut
          /\ k.alone = j.alone /\ k.loader = l /\ k.source = s /\ k.section = j.section
          /\ k.failed = j.failed /\ k.inherited = j.inherited
      BY <1>1 DEF Jobs
    <2>3. /\ Becomes(t, k) /\ j.at = "parse" /\ ~Over(t) /\ UNCHANGED strategy
          /\ errors' = [errors EXCEPT ![l] = TRUE]
      BY <1>3, <2>1 DEF MeetFault, Over, At, Report
    <2>4. errors'[l] = TRUE /\ \A m \in Loader \ {l} : errors'[m] = errors[m]
      BY <1>1, <2>3 DEF TypeOK
    <2>5. ASSUME j.alone PROVE Stage(k, TRUE, strategy[l])
      <3>1. Parsing(j, errors[l]) /\ strategy[l] = OwnStrategy(s)
        BY <1>2, <2>3, <2>5 DEF Stage, Places
      <3>2. j.kept = read \ Passed(j.next)
        BY <3>1 DEF Parsing
      <3>3. Faults(t) = {m \in j.kept : m >= j.next /\ Has(s, m, "malformed")}
                          \cup {m \in {end} : j.cut /\ j.next <= end}
        BY DEF Faults, From, Has
      <3>4. \/ i \in read /\ Has(s, i, "malformed") /\ i >= j.next
            \/ i = end /\ j.cut /\ j.next <= end
        BY <2>1, <3>2, <3>3 DEF IsFirst
      <3>5. Passed(i) = Passed(j.next)
        <4> HIDE DEF s, j
        <4>1. ASSUME NEW m \in read, Has(s, m, "malformed"), m < i PROVE m < j.next
          <5>1. CASE m \in j.kept
            <6>1. ~(m \in Faults(t))
              BY <1>n, <2>1, <3>4, <4>1 DEF IsFirst
            <6> QED BY <1>n, <1>1, <3>3, <4>1, <5>1, <6>1
          <5>2. CASE m \notin j.kept
            BY <3>2, <4>1, <5>2
          <5> QED BY <5>1, <5>2
        <4>2. ASSUME NEW m \in read, m < j.next PROVE m < i
          BY <1>n, <1>1, <3>4, <4>2
        <4> QED BY <4>1, <4>2
      <3>6. i \in Nat \ {0} /\ i <= end
        BY <1>n, <1>1, <3>4
      <3> HIDE DEF k
      <3>7. Parsing(k, TRUE)
        BY <2>2, <3>1, <3>4, <3>5, <3>6 DEF Parsing
      <3> QED BY <2>2, <3>1, <3>7 DEF Stage, Locked
    <2> HIDE DEF k
    <2> QED BY <2>2, <2>3, <2>4, <2>5, StageMoved
  <1>4. CASE PassFault(t) /\ Halting(l)
    <2> DEFINE k == [j EXCEPT !.at = "parsed", !.kept = {}, !.section = OwnStrategy(s) # "halt"]
    <2>1. /\ k.at = "parsed" /\ k.kept = {} /\ (k.section <=> ~Halts(s))
          /\ k.alone = j.alone /\ k.loader = l /\ k.source = s
          /\ k.failed = j.failed /\ k.inherited = j.inherited
      BY <1>1 DEF Jobs, Halts
    <2>2. Becomes(t, k) /\ j.at = "fault" /\ ~Over(t) /\ UNCHANGED <<errors, strategy>>
      BY <1>4 DEF PassFault, Over, At
    <2> HIDE DEF k
    <2>3. ASSUME j.alone PROVE Stage(k, errors[l], strategy[l])
      <3>1. Parsing(j, errors[l]) /\ strategy[l] = OwnStrategy(s)
        BY <1>2, <2>2, <2>3 DEF Stage, Places
      <3>2. Halts(s)
        BY <1>4, <3>1 DEF Halting, Halts
      <3>3. Broken(s, j.inherited)
        BY <2>2, <3>1, <3>2 DEF Parsing, Broken, WellFormed
      <3>4. Compiled(k) /\ ~k.section /\ ~k.failed
        BY <2>1, <3>1, <3>2, <3>3 DEF Compiled, Kept, Parsing
      <3> QED BY <2>1, <3>1, <3>4 DEF Stage, Locked
    <2> QED BY <2>1, <2>2, <2>3, StageMoved
  <1>5. CASE PassFault(t) /\ ~Halting(l)
    <2> DEFINE k == [j EXCEPT !.at = "parse", !.kept = @ \ {j.next}, !.next = @ + 1]
    <2>1. /\ k.at = "parse" /\ k.kept = j.kept \ {j.next} /\ k.next = j.next + 1
          /\ k.alone = j.alone /\ k.loader = l /\ k.source = s /\ k.section = j.section
          /\ k.failed = j.failed /\ k.inherited = j.inherited /\ k.cut = j.cut
      BY <1>1 DEF Jobs
    <2>2. Becomes(t, k) /\ j.at = "fault" /\ ~Over(t) /\ UNCHANGED <<errors, strategy>>
      BY <1>5 DEF PassFault, Over, At
    <2> HIDE DEF k
    <2>3. ASSUME j.alone PROVE Stage(k, errors[l], strategy[l])
      <3>1. Parsing(j, errors[l]) /\ strategy[l] = OwnStrategy(s)
        BY <1>2, <2>2, <2>3 DEF Stage, Places
      <3>2. ~Halts(s) /\ errors[l]
        BY <1>5, <2>2, <3>1 DEF Halting, Halts, Parsing
      <3>3. /\ j.kept = read \ Passed(j.next)
            /\ \/ j.next \in read /\ Has(s, j.next, "malformed")
               \/ j.next = end
        BY <2>2, <3>1 DEF Parsing
      <3>4. k.kept = read \ Passed(k.next)
        <4> HIDE DEF s, j
        <4>1. Passed(j.next + 1) = Passed(j.next) \cup {m \in {j.next} : m \in read}
          BY <1>n, <1>1, <3>3
        <4> QED BY <2>1, <3>3, <4>1
      <3>5. Parsing(k, errors[l])
        BY <1>1, <2>1, <3>1, <3>2, <3>4 DEF Parsing
      <3> QED BY <2>1, <3>1, <3>5 DEF Stage, Locked
    <2> QED BY <2>1, <2>2, <2>3, StageMoved
  <1>6. CASE Acquire(t)
    <2> DEFINE k == [j EXCEPT !.at = "clear"]
    <2>1. /\ k.at = "clear" /\ k.kept = j.kept /\ k.alone = j.alone /\ k.loader = l
          /\ k.source = s /\ k.section = j.section /\ k.failed = j.failed
          /\ k.inherited = j.inherited
      BY <1>1 DEF Jobs
    <2>2. /\ Becomes(t, k) /\ ~Over(t) /\ UNCHANGED <<errors, strategy>>
          /\ j.at = "parsed" \/ (j.at = "parse" /\ Faults(t) = {})
      BY <1>6 DEF Acquire, Parsed, Over, At
    <2> HIDE DEF k
    <2>3. ASSUME j.alone PROVE Stage(k, errors[l], strategy[l])
      <3>1. strategy[l] = OwnStrategy(s)
        BY <1>2, <2>2, <2>3 DEF Stage, Places
      <3>2. CASE j.at = "parsed"
        <4>1. Compiled(j) /\ ~j.section /\ ~j.failed
          BY <1>2, <2>3, <3>2 DEF Stage
        <4>2. Analyzing(k, errors[l])
          BY <2>1, <4>1 DEF Analyzing, Compiled
        <4> QED BY <2>1, <3>1, <4>2 DEF Stage
      <3>3. CASE j.at = "parse"
        <4>1. Parsing(j, errors[l]) /\ Faults(t) = {}
          BY <1>2, <2>2, <2>3, <3>3 DEF Stage
        <4>2. /\ j.kept = read \ Passed(j.next) /\ ~(j.cut /\ j.next <= end)
              /\ \A m \in j.kept : m < j.next \/ ~Has(s, m, "malformed")
          <5> HIDE DEF s, j
          <5>1. j.kept = read \ Passed(j.next) /\ j.kept \subseteq Nat
            BY <1>n, <4>1 DEF Parsing, s, j
          <5>2. \A m \in j.kept : ~(m >= j.next /\ Has(s, m, "malformed"))
            BY <4>1 DEF Faults, From, Has, s, j
          <5>3. ~(j.cut /\ j.next <= end)
            BY <4>1 DEF Faults, From, s, j
          <5> QED BY <1>1, <5>1, <5>2, <5>3
        <4>3. j.kept = WellFormed(s, j.inherited)
          <5>1. \A m \in read : m \in j.kept <=> ~Has(s, m, "malformed")
            BY <4>2
          <5> QED BY <4>2, <5>1 DEF WellFormed
        <4>4. ~Broken(s, j.inherited)
          BY <4>1, <4>2, <4>3 DEF Parsing, Broken
        <4>5. Analyzing(k, errors[l])
          BY <2>1, <3>3, <4>1, <4>3, <4>4 DEF Analyzing, Compiled, Kept, Parsing
        <4> QED BY <2>1, <3>1, <4>5 DEF Stage
      <3> QED BY <2>2, <3>2, <3>3
    <2> QED BY <2>1, <2>2, <2>3, StageMoved
  <1> QED BY <1>3, <1>4, <1>5, <1>6

\* What the analysis finds: the entries before "at" that are wrong.
LEMMA Judged ==
  ASSUME NEW j \in Jobs, NEW err \in BOOLEAN, Analyzing(j, err),
         \/ j.at = "analyze" /\ \A i \in j.kept : i < j.next
         \/ j.at = "analyzed" /\ err /\ Halts(j.source)
  PROVE  j.failed <=> ~Accepted(j.source, j.inherited)
  <1> DEFINE s     == j.source
             wrong == {i \in j.kept : i < j.next /\ Has(s, i, "invalid")}
             seen  == Seen(s, j.inherited)
  <1>1. /\ Compiled(j) /\ (j.failed <=> wrong # {}) /\ s \in Source
        /\ j.failed \in BOOLEAN /\ j.next \in Nat /\ j.kept \subseteq Nat
    BY DEF Analyzing, Jobs
  <1>2. CASE Broken(s, j.inherited)
    <2>1. j.kept = {}
      BY <1>1, <1>2 DEF Compiled, Kept
    <2> QED BY <1>1, <1>2, <2>1 DEF Accepted
  <1>3. CASE ~Broken(s, j.inherited)
    <2>1. j.kept = WellFormed(s, j.inherited) /\ j.section
      BY <1>1, <1>3 DEF Compiled, Kept
    <2>2. Accepted(s, j.inherited) <=> \A i \in seen : ~Has(s, i, "invalid")
      BY <1>3 DEF Accepted
    <2>3. seen = {i \in j.kept : Halts(s) /\ StraysOf(s) # {} => IsFirst(i, j.kept)}
      BY <2>1 DEF Seen
    <2>4. CASE j.at = "analyze"
      <3>1. \A i \in j.kept : i < j.next
        BY <2>4
      <3>2. wrong = {i \in j.kept : Has(s, i, "invalid")}
        BY <3>1
      <3>3. Halts(s) => wrong = {}
        BY <1>1, <2>4 DEF Analyzing
      <3> QED BY <1>1, <2>2, <2>3, <3>2, <3>3
    <2>5. CASE j.at = "analyzed"
      <3>1. Halts(s) /\ err /\ (StraysOf(s) # {} \/ j.failed)
        BY <2>1, <2>5 DEF Analyzing
      <3>2. CASE StraysOf(s) = {}
        BY <1>1, <2>2, <2>3, <3>1, <3>2
      <3>3. CASE StraysOf(s) # {}
        <4>1. PICK i \in j.kept : j.next = i + 1 /\ IsFirst(i, j.kept)
          BY <2>5, <3>1, <3>3 DEF Analyzing
        <4>2. seen = {i}
          BY <1>1, <2>3, <3>1, <3>3, <4>1 DEF IsFirst
        <4>3. \A m \in j.kept : m < j.next <=> m = i
          BY <1>1, <4>1 DEF IsFirst
        <4>4. wrong # {} <=> Has(s, i, "invalid")
          BY <4>1, <4>3
        <4> QED BY <1>1, <2>2, <4>2, <4>4
      <3> QED BY <3>2, <3>3
    <2> QED BY <2>4, <2>5
  <1> QED BY <1>2, <1>3

(* Stage 5: which entries are looked at. *)
LEMMA StageAnalyze ==
  ASSUME TypeOK, AloneInv, StageInv, NEW t \in Thread,
         \/ ClearEnums(t) \/ AnalyzeEntry(t) \/ PassEntry(t)
         \/ \E e \in job[t].todo : RegisterEnum(t, e)
  PROVE  AloneInv' /\ StageInv'
  <1> DEFINE j == job[t]
             l == job[t].loader
             s == job[t].source
  <1>1. /\ j \in Jobs /\ s \in Source /\ l \in Loader /\ j.next \in Nat
        /\ errors[l] \in BOOLEAN /\ strategy[l] \in Strategies
        /\ j.inherited \in Strategies /\ j.cut \in BOOLEAN /\ j.failed \in BOOLEAN
    BY DEF TypeOK, Jobs
  <1>2. j.alone => Stage(j, errors[l], strategy[l])
    BY DEF StageInv
  <1>k. /\ j.kept \subseteq Nat
        /\ j.alone /\ j.at \in Locked =>
             strategy[l] = OwnStrategy(s) /\ Analyzing(j, errors[l]) /\ Compiled(j)
    BY <1>1, <1>2 DEF Stage, Places, Locked, Analyzing, Jobs
  <1>3. CASE ClearEnums(t)
    <2> DEFINE k == [j EXCEPT !.at = "analyze", !.next = 1, !.todo = Enums(s)]
    <2>1. /\ k.at = "analyze" /\ k.next = 1 /\ k.kept = j.kept
          /\ k.alone = j.alone /\ k.loader = l /\ k.source = s /\ k.section = j.section
          /\ k.failed = j.failed /\ k.inherited = j.inherited
      BY <1>1 DEF Jobs
    <2>2. Becomes(t, k) /\ j.at = "clear" /\ ~Over(t) /\ UNCHANGED <<errors, strategy>>
      BY <1>3 DEF ClearEnums, Over, At
    <2> HIDE DEF k
    <2>3. ASSUME j.alone PROVE Stage(k, errors[l], strategy[l])
      <3>1. strategy[l] = OwnStrategy(s) /\ Analyzing(j, errors[l]) /\ Compiled(j)
        BY <1>k, <2>2, <2>3 DEF Locked
      <3>2. j.kept \subseteq 1..Len(Entries(s))
        BY <1>1, <3>1, Numbered DEF Compiled
      <3>3. {i \in k.kept : i < k.next /\ Has(s, i, "invalid")} = {}
        BY <2>1, <3>2
      <3>4. \A i \in k.kept : i >= k.next
        BY <2>1, <3>2
      <3>5. Analyzing(k, errors[l])
        BY <2>1, <2>2, <3>1, <3>3, <3>4 DEF Analyzing, Compiled
      <3> QED BY <2>1, <3>1, <3>5 DEF Stage
    <2> QED BY <2>1, <2>2, <2>3, StageMoved
  <1>4. ASSUME NEW e \in j.todo, RegisterEnum(t, e) PROVE AloneInv' /\ StageInv'
    <2> DEFINE k == [j EXCEPT !.todo = @ \ {e}]
    <2>1. /\ k.at = j.at /\ k.next = j.next /\ k.kept = j.kept
          /\ k.alone = j.alone /\ k.loader = l /\ k.source = s /\ k.section = j.section
          /\ k.failed = j.failed /\ k.inherited = j.inherited
      BY <1>1 DEF Jobs
    <2>2. Becomes(t, k) /\ j.at = "analyze" /\ ~Over(t) /\ UNCHANGED <<errors, strategy>>
      BY <1>4 DEF RegisterEnum, Over, At
    <2> HIDE DEF k
    <2>3. ASSUME j.alone PROVE Stage(k, errors[l], strategy[l])
      <3>1. strategy[l] = OwnStrategy(s) /\ Analyzing(j, errors[l])
        BY <1>k, <2>2, <2>3 DEF Locked
      <3>2. Analyzing(k, errors[l])
        BY <2>1, <2>2, <3>1 DEF Analyzing, Compiled
      <3> QED BY <2>1, <2>2, <3>1, <3>2 DEF Stage
    <2> QED BY <2>1, <2>2, <2>3, StageMoved
  <1>5. CASE AnalyzeEntry(t)
    <2>1. PICK i : /\ IsFirst(i, Unseen(t))
                   /\ Becomes(t, [j EXCEPT !.at = "analyzed", !.next = i + 1,
                                           !.failed = @ \/ Has(s, i, "invalid")])
                   /\ IF Has(s, i, "invalid") THEN Report(t) ELSE UNCHANGED errors
      BY <1>5 DEF AnalyzeEntry, From, Has
    <2> DEFINE bad == Has(s, i, "invalid")
               k == [j EXCEPT !.at = "analyzed", !.next = i + 1, !.failed = @ \/ bad]
    <2>2. /\ k.at = "analyzed" /\ k.next = i + 1 /\ k.kept = j.kept
          /\ k.alone = j.alone /\ k.loader = l /\ k.source = s /\ k.section = j.section
          /\ (k.failed <=> j.failed \/ bad) /\ k.inherited = j.inherited
      BY <1>1 DEF Jobs
    <2>3. Becomes(t, k) /\ j.at = "analyze" /\ ~Over(t) /\ UNCHANGED strategy
      BY <1>5, <2>1 DEF AnalyzeEntry, Over, At
    <2>4. /\ errors'[l] <=> errors[l] \/ bad
          /\ \A m \in Loader \ {l} : errors'[m] = errors[m]
      BY <1>1, <2>1 DEF TypeOK, Report
    <2>5. i \in j.kept /\ i >= j.next /\ \A m \in j.kept : m >= j.next => i <= m
      BY <2>1 DEF IsFirst, Unseen
    <2> HIDE DEF k
    <2>6. ASSUME j.alone PROVE Stage(k, errors'[l], strategy[l])
      <3>1. strategy[l] = OwnStrategy(s) /\ Analyzing(j, errors[l]) /\ Compiled(j)
        BY <1>k, <2>3, <2>6 DEF Locked
      <3>2. \A m \in j.kept : m < i + 1 <=> m < j.next \/ m = i
        BY <1>1, <1>k, <2>5
      <3>3. k.failed <=> {m \in k.kept : m < k.next /\ Has(s, m, "invalid")} # {}
        <4>1. j.failed <=> \E m \in j.kept : m < j.next /\ Has(s, m, "invalid")
          BY <2>3, <3>1 DEF Analyzing
        <4> QED BY <2>2, <2>5, <3>2, <4>1
      <3>4. Halts(s) /\ StraysOf(s) # {} => IsFirst(i, j.kept)
        BY <2>3, <2>5, <3>1 DEF Analyzing, IsFirst
      <3>5. Halts(s) /\ k.section => (errors'[l] <=> StraysOf(s) # {} \/ k.failed)
        BY <2>2, <2>4, <3>1 DEF Analyzing
      <3>6. Analyzing(k, errors'[l])
        BY <2>2, <2>5, <3>1, <3>3, <3>4, <3>5 DEF Analyzing, Compiled
      <3> QED BY <2>2, <3>1, <3>6 DEF Stage
    <2> QED BY <2>2, <2>3, <2>4, <2>6, StageMoved
  <1>6. CASE PassEntry(t)
    <2>1. PICK p : /\ Becomes(t, [j EXCEPT !.at = p])
                   /\ p = IF Halting(l) THEN "judge" ELSE "analyze"
      BY <1>6 DEF PassEntry
    <2> DEFINE k == [j EXCEPT !.at = p]
    <2>2. /\ k.at = p /\ k.next = j.next /\ k.kept = j.kept
          /\ k.alone = j.alone /\ k.loader = l /\ k.source = s /\ k.section = j.section
          /\ k.failed = j.failed /\ k.inherited = j.inherited
      BY <1>1 DEF Jobs
    <2>3. Becomes(t, k) /\ j.at = "analyzed" /\ ~Over(t) /\ UNCHANGED <<errors, strategy>>
      BY <1>6, <2>1 DEF PassEntry, Over, At
    <2> HIDE DEF k
    <2>4. ASSUME j.alone PROVE Stage(k, errors[l], strategy[l])
      <3>1. strategy[l] = OwnStrategy(s) /\ Analyzing(j, errors[l]) /\ Compiled(j)
        BY <1>k, <2>3, <2>4 DEF Locked
      <3>2. Halting(l) <=> errors[l] /\ Halts(s)
        BY <3>1 DEF Halting, Halts
      <3>3. CASE Halting(l)
        <4>1. j.failed <=> ~Accepted(s, j.inherited)
          BY <1>1, <2>3, <3>1, <3>2, <3>3, Judged
        <4>2. Analyzing(k, errors[l])
          BY <2>1, <2>2, <3>1, <3>3, <4>1 DEF Analyzing, Compiled
        <4> QED BY <2>1, <2>2, <3>1, <3>3, <4>2 DEF Stage
      <3>4. CASE ~Halting(l)
        <4>1. Halts(s) /\ j.section => ~j.failed /\ StraysOf(s) = {}
          BY <3>1, <3>2, <3>4 DEF Analyzing
        <4>2. Halts(s) /\ ~j.section => j.kept = {}
          BY <3>1 DEF Compiled, Kept
        <4>3. j.failed <=> {m \in j.kept : m < j.next /\ Has(s, m, "invalid")} # {}
          BY <2>3, <3>1 DEF Analyzing
        <4>4. Halts(s) => ~j.failed /\ (StraysOf(s) # {} => j.kept = {})
          BY <1>1, <4>1, <4>2, <4>3
        <4>5. Analyzing(k, errors[l])
          BY <2>1, <2>2, <3>1, <3>4, <4>3, <4>4 DEF Analyzing, Compiled
        <4> QED BY <2>1, <2>2, <3>1, <3>4, <4>5 DEF Stage
      <3> QED BY <3>3, <3>4
    <2> QED BY <2>2, <2>3, <2>4, StageMoved
  <1> QED BY <1>3, <1>4, <1>5, <1>6

(* The compilation returns, and its answer is its own. *)
LEMMA StageEnd ==
  ASSUME TypeOK, LockInv, EnumInv, AloneInv, StageInv, NEW t \in Thread,
         EndAnalysis(t) \/ Resolve(t) \/ Panic(t)
  PROVE  AloneInv' /\ StageInv'
  <1> DEFINE j == job[t]
             l == job[t].loader
             s == job[t].source
  <1>1. /\ j \in Jobs /\ s \in Source /\ l \in Loader /\ j.next \in Nat
        /\ errors[l] \in BOOLEAN /\ strategy[l] \in Strategies
        /\ j.inherited \in Strategies /\ j.cut \in BOOLEAN /\ j.failed \in BOOLEAN
    BY DEF TypeOK, Jobs
  <1>2. j.alone => Stage(j, errors[l], strategy[l])
    BY DEF StageInv
  <1>k. /\ j.kept \subseteq Nat
        /\ j.alone /\ j.at \in Locked =>
             strategy[l] = OwnStrategy(s) /\ Analyzing(j, errors[l]) /\ Compiled(j)
    BY <1>1, <1>2 DEF Stage, Places, Locked, Analyzing, Jobs
  <1>3. ASSUME NEW place \in {"idle", "done"}, NEW ok \in BOOLEAN, Return(t, place, ok),
               j.at \in Locked, UNCHANGED strategy,
               \A m \in Loader \ {l} : errors'[m] = errors[m],
               j.alone /\ place = "done" /\ j.undisturbed =>
                 (ok <=> Accepted(s, j.inherited))
        PROVE  AloneInv' /\ StageInv'
    <2> DEFINE k == [j EXCEPT !.at = place, !.ok = ok, !.kept = IF ok THEN @ ELSE {},
                              !.next = 1, !.cut = FALSE, !.failed = FALSE, !.todo = {}]
    <2>1. /\ k.at = place /\ k.ok = ok /\ (ok => k.kept = j.kept)
          /\ k.alone = j.alone /\ k.loader = l /\ k.source = s /\ k.section = j.section
          /\ k.inherited = j.inherited /\ k.undisturbed = j.undisturbed
      BY <1>1 DEF Jobs
    <2>2. Becomes(t, k) /\ ~Over(t)
      BY <1>3 DEF Return, Over, At, Locked
    <2> HIDE DEF k
    <2>3. ASSUME j.alone PROVE Stage(k, errors'[l], strategy'[l])
      <3>1. k.at = "done" /\ k.undisturbed => Answered(k)
        BY <1>3, <1>k, <2>1, <2>3 DEF Answered, Compiled
      <3> QED BY <1>3, <2>1, <3>1 DEF Stage, Locked
    <2> QED BY <1>3, <2>1, <2>2, <2>3, StageMoved
  <1>4. CASE EndAnalysis(t)
    <2>1. /\ j.at = "judge" \/ (j.at = "analyze" /\ Unseen(t) = {})
          /\ UNCHANGED <<errors, strategy>>
      BY <1>4 DEF EndAnalysis, At
    <2>2. j.alone => (j.failed <=> ~Accepted(s, j.inherited))
      <3>1. CASE j.at = "judge"
        BY <1>k, <3>1 DEF Analyzing, Locked
      <3>2. CASE j.at = "analyze" /\ Unseen(t) = {}
        <4>1. \A i \in j.kept : i < j.next
          BY <1>1, <1>k, <3>2 DEF Unseen
        <4> QED BY <1>1, <1>k, <3>2, <4>1, Judged DEF Locked
      <3> QED BY <2>1, <3>1, <3>2
    <2>3. CASE j.failed
      <3>1. Return(t, "done", FALSE)
        BY <1>4, <2>3 DEF EndAnalysis
      <3> QED BY <1>3, <2>1, <2>2, <2>3, <3>1 DEF Locked
    <2>4. CASE ~j.failed
      <3> DEFINE k == [j EXCEPT !.at = "resolve"]
      <3>1. /\ k.at = "resolve" /\ k.kept = j.kept
            /\ k.alone = j.alone /\ k.loader = l /\ k.source = s /\ k.section = j.section
            /\ k.failed = j.failed /\ k.inherited = j.inherited
        BY <1>1 DEF Jobs
      <3>2. Becomes(t, k) /\ ~Over(t)
        BY <1>4, <2>1, <2>4 DEF EndAnalysis, Over, At
      <3> HIDE DEF k
      <3>3. ASSUME j.alone PROVE Stage(k, errors[l], strategy[l])
        <4>1. strategy[l] = OwnStrategy(s) /\ Analyzing(j, errors[l]) /\ Compiled(j)
          BY <1>k, <2>1, <3>3 DEF Locked
        <4>2. Analyzing(k, errors[l])
          BY <2>2, <2>4, <3>1, <3>3, <4>1 DEF Analyzing, Compiled
        <4> QED BY <3>1, <4>1, <4>2 DEF Stage
      <3> QED BY <2>1, <3>1, <3>2, <3>3, StageMoved
    <2> QED BY <2>3, <2>4
  <1>5. CASE Resolve(t)
    <2>1. j.at = "resolve" /\ UNCHANGED strategy
      BY <1>5 DEF Resolve, At
    <2> DEFINE found == j.section => Enums(s) \subseteq DOMAIN registry
    <2>2. found \in BOOLEAN /\ Return(t, "done", found)
      BY <1>5 DEF Resolve
    <2>3. \A m \in Loader \ {l} : errors'[m] = errors[m]
      BY <1>1, <1>5 DEF Resolve, Report, TypeOK
    <2>4. j.undisturbed => found
      <3>1. j.undisturbed => registry = [e \in Enums(s) \ {} |-> s]
        BY <2>1 DEF EnumInv, Tabled, Locked
      <3> QED BY <3>1
    <2>5. j.alone => Accepted(s, j.inherited)
      BY <1>k, <2>1 DEF Analyzing, Locked
    <2> HIDE DEF found
    <2> QED BY <1>3, <2>1, <2>2, <2>3, <2>4, <2>5 DEF Locked
  <1>6. CASE Panic(t)
    <2>1. Return(t, "idle", FALSE) /\ UNCHANGED <<errors, strategy>> /\ j.at \in Locked
      BY <1>6 DEF Panic, LockInv, At
    <2> QED BY <1>3, <2>1
  <1> QED BY <1>4, <1>5, <1>6

(* An analysis without the lock touches no manager. *)
LEMMA StageOutside ==
  ASSUME TypeOK, LockInv, AloneInv, StageInv, AnalyzeOutside
  PROVE  AloneInv' /\ StageInv'
  <1>1. UNCHANGED <<errors, strategy>>
    BY DEF AnalyzeOutside
  <1>2. ASSUME NEW u \in Thread
        PROVE  \/ job'[u] = job[u]
               \/ At(u) \in Locked /\ job'[u] = [job[u] EXCEPT !.undisturbed = FALSE]
    BY DEF AnalyzeOutside, LockInv
  <1>3. ASSUME NEW u \in Thread
        PROVE  At(u)' = At(u) /\ job'[u].loader = job[u].loader /\ job'[u].alone = job[u].alone
    <2> DEFINE j == job[u]
    <2>1. j \in Jobs
      BY DEF TypeOK
    <2> HIDE DEF j
    <2>2. LET k == [j EXCEPT !.undisturbed = FALSE]
          IN  k.at = j.at /\ k.loader = j.loader /\ k.alone = j.alone
      BY <2>1 DEF Jobs
    <2> QED BY <1>2, <2>2 DEF At, j
  <1>4. AloneInv'
    BY <1>3 DEF AloneInv, Over
  <1>5. ASSUME NEW u \in Thread, job[u].alone
        PROVE  Stage(job'[u], errors[job[u].loader], strategy[job[u].loader])
    <2> DEFINE j == job[u]
               k == [j EXCEPT !.undisturbed = FALSE]
    <2>1. Stage(j, errors[j.loader], strategy[j.loader])
      BY <1>5 DEF StageInv
    <2>2. /\ k.at = j.at /\ k.next = j.next /\ k.kept = j.kept /\ k.source = j.source
          /\ k.section = j.section /\ k.failed = j.failed /\ k.inherited = j.inherited
      BY DEF TypeOK, Jobs
    <2> HIDE DEF k
    <2>3. CASE job'[u] = k /\ j.at \in Locked
      <3>1. Analyzing(k, errors[j.loader])
        BY <2>1, <2>2, <2>3 DEF Stage, Analyzing, Compiled
      <3> QED BY <2>1, <2>2, <2>3, <3>1 DEF Stage, Locked
    <2> QED BY <1>2, <2>1, <2>3 DEF k, At
  <1>6. StageInv'
    BY <1>1, <1>3, <1>5 DEF StageInv
  <1> QED BY <1>4, <1>6

(* Every step keeps the loads that are alone in their stages. *)
LEMMA NextStage ==
  ASSUME TypeOK, LockInv, EnumInv, AloneInv, StageInv, [Next]_vars
  PROVE  AloneInv' /\ StageInv'
  <1>1. CASE UNCHANGED vars
    BY <1>1 DEF vars, AloneInv, StageInv, Over, At
  <1> QED
    BY <1>1, StageBegun, StageScan, StageParse, StageAnalyze, StageEnd, StageOutside
       DEF Next, Compile

(* A load that is alone with its loader returns what its source comes to,   *)
(* scanned with the strategy that the loader had before.                    *)
THEOREM VerdictsAreOwn == Spec => []VerdictIsOwn
  <1>1. Init => IInv
    BY InitType, InitEnums, InitStage DEF IInv
  <1>2. IInv /\ [Next]_vars => IInv'
    BY NextType, NextEnums, NextStage DEF IInv
  <1>3. IInv => VerdictIsOwn
    BY DEF IInv, StageInv, Stage, Answered, Compiled, VerdictIsOwn, At
  <1> QED BY <1>1, <1>2, <1>3, PTL DEF Spec
=============================================================================
