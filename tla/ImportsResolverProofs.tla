------------------------- MODULE ImportsResolverProofs -------------------------
(***************************************************************************)
(* Proofs about ImportsResolver for every set of files, aliases and        *)
(* sections: the cycles reported are real, dependencies come first, aliases *)
(* mean what the files say, the sound imports survive the others' failures, *)
(* and the resolver implements ImportCheck.                                *)
(***************************************************************************)
EXTENDS ImportsResolver, SequenceTheorems, TLAPS

(***************************************************************************)
(* The loops under way: loop 0 is Main's, loop i that of the i-th call.    *)
(***************************************************************************)
FileAt(i) == IF i = 0 THEN Main ELSE frames[i].file
PosAt(i)  == IF i = 0 THEN next ELSE frames[i].next

\* The import at which a loop stands.
Up(i) == program[FileAt(i)][PosAt(i)]

\* What a loop has been through already.
PassedBy(i) == {program[FileAt(i)][j] : j \in 1..(PosAt(i) - 1)}

Closed(S) == \A f \in S : Check!Targets(f) \subseteq S

Knows(table, imp) == Known(table, imp.alias) /\ table[imp.alias] = imp.file

(***************************************************************************)
(* The inductive invariant, in parts.                                      *)
(***************************************************************************)

\* The active calls are a chain of imports; import_stack is their files.
StackInv ==
  /\ verdict # "pending" => AtTop
  /\ visiting = {frames[i].file : i \in 1..Len(frames)}
  /\ visiting \cap visited = {}
  /\ \A i, j \in 1..Len(frames) : frames[i].file = frames[j].file => i = j
  /\ \A i \in 0..Len(frames) : PosAt(i) <= Len(program[FileAt(i)]) + 1
  /\ \A i \in 1..Len(frames) :
       /\ PosAt(i - 1) <= Len(program[FileAt(i - 1)])
       /\ Up(i - 1).file = frames[i].file
       /\ Up(i - 1).alias = frames[i].alias

\* The inner calls are within reach of the outer ones.
ReachInv ==
  \A S \in SUBSET File : Closed(S) =>
    \A i, j \in 1..Len(frames) : i <= j /\ frames[i].file \in S => frames[j].file \in S

\* An import that has been passed is done; in Main's loop it may have failed.
PassedInv ==
  /\ \A i \in 1..Len(frames) : \A imp \in PassedBy(i) : imp.file \in visited
  /\ \A imp \in PassedBy(0) :
       imp.file \in visited \/ (~success /\ ~SoundFrom(imp.file))

\* As long as nothing has failed, what is done is sound, closed and acyclic.
CleanInv ==
  /\ success <=> (errors = << >>)
  /\ success => Closed(visited) /\ Check!Clean(visited)

\* Without a fault in what Main depends on, nothing fails.
FailureInv ==
  \A S \in SUBSET File :
    Check!Covers(S) /\ Check!Clean(S) /\ Check!Consistent(S) => success

\* Where the aliases agree, the namespaces are what the imports say, the sound
\* files done are among them, and the local imports are complete.
NamedRight(S) ==
  /\ visiting \cup visited \subseteq S
  /\ \A a \in DOMAIN namespaces :
       [alias |-> a, file |-> namespaces[a].file] \in Check!ImportsOf(S \cup {Main})
  /\ \A f \in visited : SoundFrom(f) => \E a \in DOMAIN namespaces : namespaces[a].file = f
  /\ success =>
       /\ \A i \in 1..Len(frames) : \A imp \in PassedBy(i) : Knows(frames[i].locals, imp)
       /\ \A a \in DOMAIN namespaces : \A imp \in Check!ImportsOf({namespaces[a].file}) :
            Knows(namespaces[a].locals, imp)

NameInv ==
  \A S \in SUBSET File : Check!Covers(S) /\ Check!Consistent(S) => NamedRight(S)

IInv ==
  /\ TypeOK
  /\ StackInv /\ ReachInv /\ PassedInv /\ CleanInv /\ FailureInv /\ NameInv
  /\ CycleIsReal /\ DependenciesFirst

-----------------------------------------------------------------------------
(***************************************************************************)
(* Sections, frames and tables.                                            *)
(***************************************************************************)
Locals == UNION {[D -> File] : D \in SUBSET Alias}

Frame == [file : File, alias : Alias, next : Nat \ {0}, locals : Locals]

(* What a section is made of. *)
LEMMA SectionFacts ==
  ASSUME TypeOK, NEW f \in File
  PROVE  /\ program[f] \in Seq(Import)
         /\ Len(program[f]) \in Nat
         /\ DOMAIN program[f] = 1..Len(program[f])
         /\ \A j \in 1..Len(program[f]) :
              /\ program[f][j] \in Import
              /\ program[f][j].file \in Check!Targets(f)
         /\ \A g \in Check!Targets(f) : \E j \in 1..Len(program[f]) : g = program[f][j].file
         /\ \A i, j \in 1..Len(program[f]) : program[f][i].alias = program[f][j].alias => i = j
<1>1. program[f] \in Sections
  BY DEF TypeOK
<1>2. program[f] \in Seq(Import)
  BY <1>1, ImportsAssumption
<1>3. Len(program[f]) \in Nat /\ DOMAIN program[f] = 1..Len(program[f])
  BY <1>2, LenProperties
<1>4. \A j \in 1..Len(program[f]) : program[f][j] \in Import
  BY <1>2, ElementOfSeq
<1>5. \A i, j \in 1..Len(program[f]) : program[f][i].alias = program[f][j].alias => i = j
  BY <1>1, <1>3, ImportsAssumption
<1>6. Check!Targets(f) = {program[f][j].file : j \in 1..Len(program[f])}
  BY <1>3 DEF Check!Targets
<1> QED
  BY <1>2, <1>3, <1>4, <1>5, <1>6

(* The imports of a set of files are those of its members. *)
LEMMA ImportsOfFacts ==
  ASSUME TypeOK, NEW S \in SUBSET File
  PROVE  /\ Check!ImportsOf(S) \subseteq Import
         /\ \A f \in S : \A j \in 1..Len(program[f]) : program[f][j] \in Check!ImportsOf(S)
         /\ \A imp \in Check!ImportsOf(S) :
              \E f \in S : \E j \in 1..Len(program[f]) : imp = program[f][j]
<1>1. \A f \in S : DOMAIN program[f] = 1..Len(program[f])
  BY SectionFacts
<1>2. \A f \in S : \A j \in 1..Len(program[f]) : program[f][j] \in Check!ImportsOf(S)
  BY <1>1 DEF Check!ImportsOf
<1>3. \A imp \in Check!ImportsOf(S) : \E f \in S : \E j \in 1..Len(program[f]) : imp = program[f][j]
  BY <1>1 DEF Check!ImportsOf
<1>4. Check!ImportsOf(S) \subseteq Import
  BY <1>3, SectionFacts
<1> QED
  BY <1>2, <1>3, <1>4

(* The active calls. *)
LEMMA FrameFacts ==
  ASSUME TypeOK
  PROVE  /\ frames \in Seq(Frame)
         /\ Len(frames) \in Nat
         /\ \A i \in 1..Len(frames) : frames[i] \in Frame
         /\ AtTop <=> Len(frames) = 0
         /\ \A i \in 0..Len(frames) : FileAt(i) \in File /\ PosAt(i) \in Nat \ {0}
<1>1. frames \in Seq(Frame)
  BY DEF TypeOK, Frame, Locals
<1>2. Len(frames) \in Nat /\ \A i \in 1..Len(frames) : frames[i] \in Frame
  BY <1>1, LenProperties, ElementOfSeq
<1>3. AtTop <=> Len(frames) = 0
  BY <1>1, EmptySeq DEF AtTop
<1>4. Main \in File /\ next \in Nat \ {0}
  BY ImportsAssumption DEF TypeOK
<1>5. \A i \in 0..Len(frames) : FileAt(i) \in File /\ PosAt(i) \in Nat \ {0}
  BY <1>2, <1>4 DEF FileAt, PosAt, Frame
<1> QED
  BY <1>1, <1>2, <1>3, <1>5

(* The innermost call and the ones below it. *)
LEMMA TopFacts ==
  ASSUME TypeOK, ~AtTop
  PROVE  /\ Len(frames) \in Nat \ {0}
         /\ Top \in Frame
         /\ Below \in Seq(Frame)
         /\ Len(Below) = Len(frames) - 1
         /\ \A i \in 1..(Len(frames) - 1) : Below[i] = frames[i]
<1> DEFINE m == Len(frames) - 1
<1>1. Len(frames) \in Nat \ {0} /\ frames \in Seq(Frame) /\ \A i \in 1..Len(frames) : frames[i] \in Frame
  BY FrameFacts
<1>2. Top \in Frame
  BY <1>1 DEF Top
<1>3. m \in Nat /\ 1 \in Int /\ m \in Int /\ \A i \in 1..m : frames[i] \in Frame
  BY <1>1
<1>4. Below = SubSeq(frames, 1, m)
  BY DEF Below
<1> HIDE DEF m
<1>5. /\ Below \in Seq(Frame)
      /\ Len(Below) = IF 1 <= m THEN m - 1 + 1 ELSE 0
      /\ \A i \in 1..(m - 1 + 1) : Below[i] = frames[1 + i - 1]
  BY <1>3, <1>4, SubSeqProperties
<1>6. Len(Below) = m
  BY <1>3, <1>5
<1>7. ASSUME NEW i \in 1..m PROVE Below[i] = frames[i]
  <2>1. i \in 1..(m - 1 + 1) /\ 1 + i - 1 = i
    BY <1>3
  <2> QED
    BY <1>5, <2>1
<1> QED
  BY <1>1, <1>2, <1>5, <1>6, <1>7 DEF m

(* A step inside a loop is at the import where the innermost loop stands. *)
LEMMA ImportAt ==
  ASSUME TypeOK, NEW imp, At(imp)
  PROVE  /\ verdict = "pending"
         /\ FileAt(Len(frames)) = Importer /\ Importer \in File
         /\ PosAt(Len(frames)) = Position
         /\ Position \in 1..Len(program[Importer])
         /\ imp = Up(Len(frames))
         /\ imp \in Import
         /\ imp.file \in Check!Targets(Importer)
<1>1. FileAt(Len(frames)) = Importer /\ PosAt(Len(frames)) = Position
  BY FrameFacts DEF FileAt, PosAt, Importer, Position, Top
<1>2. Importer \in File /\ Position \in Nat \ {0}
  BY <1>1, FrameFacts
<1>3. Position \in 1..Len(program[Importer])
  BY <1>2, SectionFacts DEF At
<1>4. imp = program[Importer][Position] /\ verdict = "pending"
  BY DEF At
<1> QED
  BY <1>1, <1>2, <1>3, <1>4, SectionFacts DEF Up

(* A table with one more alias. *)
LEMMA ExtendedFacts ==
  ASSUME NEW table, NEW key, NEW value
  PROVE  /\ DOMAIN Extended(table, key, value) = DOMAIN table \cup {key}
         /\ Extended(table, key, value)[key] = value
         /\ \A k \in DOMAIN table : k # key => Extended(table, key, value)[k] = table[k]
BY DEF Extended

(* Local imports stay local imports. *)
LEMMA ExtendedLocals ==
  ASSUME NEW l \in Locals, NEW a \in Alias, NEW f \in File
  PROVE  Extended(l, a, f) \in Locals
<1>1. PICK D \in SUBSET Alias : l \in [D -> File]
  BY DEF Locals
<1>2. DOMAIN l = D /\ \A k \in D : l[k] \in File
  BY <1>1
<1>3. Extended(l, a, f) \in [D \cup {a} -> File]
  BY <1>2 DEF Extended
<1>4. D \cup {a} \in SUBSET Alias
  BY <1>1
<1> QED
  BY <1>3, <1>4 DEF Locals

(***************************************************************************)
(* Soundness of what a file depends on.                                    *)
(***************************************************************************)

(* A file all of whose dependencies are sound is sound, and so are all the *)
(* dependencies of what it imports.                                        *)
LEMMA SoundFromFacts ==
  ASSUME NEW f, SoundFrom(f)
  PROVE  /\ health[f] = "sound"
         /\ \A g \in Check!Targets(f) : SoundFrom(g)
<1>1. PICK S \in SUBSET File :
        f \in S /\ (\A g \in S : Check!Targets(g) \subseteq S) /\ Check!Clean(S)
  BY DEF SoundFrom
<1>2. health[f] = "sound"
  BY <1>1 DEF Check!Clean
<1>3. \A g \in Check!Targets(f) : SoundFrom(g)
  BY <1>1 DEF SoundFrom
<1> QED
  BY <1>2, <1>3

(* Every member of a closed and clean set is sound. *)
LEMMA SoundWithin ==
  ASSUME NEW S \in SUBSET File, Closed(S), Check!Clean(S)
  PROVE  \A f \in S : SoundFrom(f)
BY DEF SoundFrom, Closed

(* What Main imports is sound when a clean set covers it. *)
LEMMA CoveredIsClosed ==
  ASSUME NEW S \in SUBSET File, Check!Covers(S)
  PROVE  Closed(S) /\ Check!Targets(Main) \subseteq S
BY DEF Check!Covers, Closed

(* The inputs never change, nor what follows from them alone. *)
LEMMA InputsStay ==
  ASSUME UNCHANGED inputs
  PROVE  /\ program' = program /\ health' = health /\ strategy' = strategy
         /\ \A f : Check!Targets(f)' = Check!Targets(f)
         /\ \A f : SoundFrom(f)' <=> SoundFrom(f)
         /\ \A S : Closed(S)' <=> Closed(S)
         /\ \A S : Check!Covers(S)' <=> Check!Covers(S)
         /\ \A S : Check!Clean(S)' <=> Check!Clean(S)
         /\ \A S : Check!Consistent(S)' <=> Check!Consistent(S)
         /\ \A S : Check!ImportsOf(S)' = Check!ImportsOf(S)
<1>1. program' = program /\ health' = health /\ strategy' = strategy
  BY DEF inputs
<1>2. \A f : Check!Targets(f)' = Check!Targets(f)
  BY <1>1 DEF Check!Targets
<1>3. \A S : Closed(S)' <=> Closed(S)
  BY <1>2 DEF Closed
<1>4. \A S : Check!Covers(S)' <=> Check!Covers(S)
  BY <1>2 DEF Check!Covers
<1>5. \A S : Check!Clean(S)' <=> Check!Clean(S)
  BY <1>1, <1>2 DEF Check!Clean, Check!SelfFeeding
<1>6. \A f : SoundFrom(f)' <=> SoundFrom(f)
  BY <1>2, <1>5 DEF SoundFrom
<1>7. \A S : Check!ImportsOf(S)' = Check!ImportsOf(S)
  BY <1>1 DEF Check!ImportsOf
<1>8. \A S : Check!Consistent(S)' <=> Check!Consistent(S)
  BY <1>7 DEF Check!Consistent
<1> QED
  BY <1>1, <1>2, <1>3, <1>4, <1>5, <1>6, <1>7, <1>8

(***************************************************************************)
(* A loop turns.                                                           *)
(***************************************************************************)

(* What Resumed does to the caller's frames. *)
LEMMA ResumedFacts ==
  ASSUME NEW fs \in Seq(Frame), NEW alias \in Alias, NEW table,
         Known(table, alias) => table[alias].file \in File
  PROVE  LET r    == Resumed(fs, alias, table)
             n    == Len(fs)
         IN
         /\ r \in Seq(Frame) /\ Len(r) = n /\ n \in Nat
         /\ \A i \in 1..n : r[i] \in Frame /\ fs[i] \in Frame /\ (i # n => r[i] = fs[i])
         /\ n # 0 =>
              /\ r[n].file = fs[n].file /\ r[n].alias = fs[n].alias
              /\ r[n].next = fs[n].next + 1
              /\ r[n].locals = IF Known(table, alias)
                               THEN Extended(fs[n].locals, alias, table[alias].file)
                               ELSE fs[n].locals
<1> DEFINE r == Resumed(fs, alias, table)
           n == Len(fs)
           last == fs[n]
           locals == IF Known(table, alias)
                     THEN Extended(last.locals, alias, table[alias].file) ELSE last.locals
           turned == [last EXCEPT !.next = last.next + 1, !.locals = locals]
<1>1. n \in Nat /\ \A i \in 1..n : fs[i] \in Frame
  BY LenProperties, ElementOfSeq
<1>2. CASE n = 0
  <2>1. fs = << >>
    BY <1>2, EmptySeq
  <2>2. r = fs
    BY <2>1 DEF Resumed
  <2> QED
    BY <1>1, <1>2, <2>2
<1>3. CASE n # 0
  <2>1. fs # << >>
    BY <1>3, EmptySeq
  <2>2. last \in Frame
    BY <1>1, <1>3
  <2>3. locals \in Locals
    <3>1. last.locals \in Locals
      BY <2>2 DEF Frame
    <3> HIDE DEF last
    <3> QED
      BY <3>1, ExtendedLocals
  <2>4. /\ turned \in Frame
        /\ turned.file = last.file /\ turned.alias = last.alias
        /\ turned.next = last.next + 1 /\ turned.locals = locals
    <3> DEFINE up == last.next + 1
    <3>1. up \in Nat \ {0}
      BY <2>2 DEF Frame
    <3> HIDE DEF last, locals, up
    <3>2. [last EXCEPT !.next = up, !.locals = locals] \in Frame
      BY <2>2, <2>3, <3>1 DEF Frame
    <3>3. LET t == [last EXCEPT !.next = up, !.locals = locals] IN
          t.file = last.file /\ t.alias = last.alias /\ t.next = up /\ t.locals = locals
      BY <2>2 DEF Frame
    <3> QED
      BY <3>2, <3>3 DEF up
  <2>5. r = [fs EXCEPT ![n] = turned]
    BY <2>1 DEF Resumed
  <2>6. n \in 1..Len(fs)
    BY <1>1, <1>3
  <2> HIDE DEF turned, last, locals
  <2>7. /\ r \in Seq(Frame) /\ Len(r) = Len(fs)
        /\ \A i \in 1..Len(fs) : r[i] = IF i = n THEN turned ELSE fs[i]
    BY <2>4, <2>5, <2>6, ExceptSeq
  <2>8. r[n] = turned /\ \A i \in 1..n : r[i] \in Frame /\ (i # n => r[i] = fs[i])
    BY <1>1, <2>4, <2>6, <2>7
  <2> QED
    BY <1>1, <2>4, <2>7, <2>8 DEF last, locals
<1> QED
  BY <1>2, <1>3

(* A loop that turns has been through one more import. *)
LEMMA PassedGrows ==
  ASSUME NEW n, program' = program, FileAt(n)' = FileAt(n),
         PosAt(n) \in Nat \ {0}, PosAt(n)' = PosAt(n) + 1
  PROVE  PassedBy(n)' = PassedBy(n) \cup {Up(n)}
<1> DEFINE p == PosAt(n)
           s == program[FileAt(n)]
<1>1. PassedBy(n)' = {s[j] : j \in 1..p}
  <2>1. PosAt(n)' - 1 = p
    OBVIOUS
  <2> QED
    BY <2>1 DEF PassedBy
<1>2. PassedBy(n) = {s[j] : j \in 1..(p - 1)} /\ Up(n) = s[p] /\ p \in Nat \ {0}
  BY DEF PassedBy, Up
<1> HIDE DEF p, s
<1>3. 1..p = (1..(p - 1)) \cup {p}
  BY <1>2
<1> QED
  BY <1>1, <1>2, <1>3

\* The calls above the n-th are over, and its loop (Main's when n is 0) turned.
LoopTurned(n, alias, table) ==
  /\ frames' \in Seq(Frame) /\ Len(frames') = n /\ next' \in Nat \ {0}
  /\ \A i \in 1..n :
       /\ frames'[i].file = frames[i].file /\ frames'[i].alias = frames[i].alias
       /\ i # n => frames'[i] = frames[i]
  /\ n # 0 => frames'[n].locals = IF Known(table, alias)
                                  THEN Extended(frames[n].locals, alias, table[alias].file)
                                  ELSE frames[n].locals
  /\ \A i \in 0..n :
       /\ FileAt(i)' = FileAt(i)
       /\ i # n => PosAt(i)' = PosAt(i) /\ Up(i)' = Up(i) /\ PassedBy(i)' = PassedBy(i)
  /\ PosAt(n)' = PosAt(n) + 1
  /\ PassedBy(n)' = PassedBy(n) \cup {Up(n)}

(* Resumed and NextOfMain turn one loop. *)
LEMMA LoopTurns ==
  ASSUME TypeOK, NEW n \in 0..Len(frames),
         NEW fs \in Seq(Frame), Len(fs) = n, \A i \in 1..n : fs[i] = frames[i],
         NEW alias \in Alias, NEW table, Known(table, alias) => table[alias].file \in File,
         UNCHANGED inputs, frames' = Resumed(fs, alias, table), next' = NextOfMain(fs)
  PROVE  LoopTurned(n, alias, table)
<1>1. n \in Nat /\ next \in Nat \ {0} /\ \A i \in 0..n : FileAt(i) \in File /\ PosAt(i) \in Nat \ {0}
  BY FrameFacts DEF TypeOK
<1>2. /\ frames' \in Seq(Frame) /\ Len(frames') = n
      /\ \A i \in 1..n : i # n => frames'[i] = frames[i]
      /\ n # 0 => /\ frames'[n].file = frames[n].file /\ frames'[n].alias = frames[n].alias
                  /\ frames'[n].next = frames[n].next + 1
                  /\ frames'[n].locals = IF Known(table, alias)
                                         THEN Extended(frames[n].locals, alias, table[alias].file)
                                         ELSE frames[n].locals
  BY <1>1, ResumedFacts
<1>3. next' = IF n = 0 THEN next + 1 ELSE next
  BY EmptySeq DEF NextOfMain
<1>4. next' \in Nat \ {0}
  BY <1>1, <1>3
<1>5. \A i \in 1..n : frames'[i].file = frames[i].file /\ frames'[i].alias = frames[i].alias
  BY <1>1, <1>2
<1>6. \A i \in 0..n : FileAt(i)' = FileAt(i)
  BY <1>1, <1>5 DEF FileAt
<1>7. \A i \in 0..n : i # n => PosAt(i)' = PosAt(i)
  BY <1>1, <1>2, <1>3 DEF PosAt
<1>8. PosAt(n)' = PosAt(n) + 1
  BY <1>1, <1>2, <1>3 DEF PosAt
<1>9. program' = program
  BY InputsStay
<1>10. \A i \in 0..n : i # n => Up(i)' = Up(i) /\ PassedBy(i)' = PassedBy(i)
  BY <1>6, <1>7, <1>9 DEF Up, PassedBy
<1>11. PassedBy(n)' = PassedBy(n) \cup {Up(n)}
  BY <1>1, <1>6, <1>8, <1>9, PassedGrows
<1> QED
  BY <1>2, <1>4, <1>5, <1>6, <1>7, <1>8, <1>10, <1>11 DEF LoopTurned

(* The calls stay a chain of imports when a loop turns past what is done. *)
LEMMA TurnKeepsTheStack ==
  ASSUME TypeOK, StackInv, ReachInv, PassedInv,
         NEW n \in 0..Len(frames), NEW alias, NEW table, LoopTurned(n, alias, table),
         PosAt(n) <= Len(program[FileAt(n)]), Up(n).file \in visited',
         UNCHANGED <<inputs, success, verdict>>, verdict = "pending",
         visited \subseteq visited', visiting' \cap visited' = {},
         visiting' = {frames[i].file : i \in 1..n}
  PROVE  StackInv' /\ ReachInv' /\ PassedInv'
<1>1. /\ n \in Nat /\ Len(frames) \in Nat /\ 1..n \subseteq 1..Len(frames)
      /\ \A i \in 0..Len(frames) : FileAt(i) \in File /\ PosAt(i) \in Nat \ {0}
  BY FrameFacts
<1>2. program' = program /\ verdict' = "pending" /\ success' = success
  BY InputsStay
<1>3. /\ Len(frames') = n
      /\ \A i \in 1..n : frames'[i].file = frames[i].file /\ frames'[i].alias = frames[i].alias
      /\ \A i \in 0..n : FileAt(i)' = FileAt(i)
      /\ \A i \in 0..n : i # n => PosAt(i)' = PosAt(i) /\ Up(i)' = Up(i) /\ PassedBy(i)' = PassedBy(i)
      /\ PosAt(n)' = PosAt(n) + 1
      /\ PassedBy(n)' = PassedBy(n) \cup {Up(n)}
  BY DEF LoopTurned
<1>4. StackInv'
  <2>1. visiting' = {frames'[i].file : i \in 1..Len(frames')}
    BY <1>3
  <2>2. \A i, j \in 1..Len(frames') : frames'[i].file = frames'[j].file => i = j
    BY <1>1, <1>3 DEF StackInv
  <2>3. ASSUME NEW i \in 0..Len(frames') PROVE PosAt(i)' <= Len(program'[FileAt(i)']) + 1
    <3>1. i \in 0..n /\ i \in 0..Len(frames) /\ FileAt(i)' = FileAt(i)
      BY <1>1, <1>3
    <3>2. Len(program[FileAt(i)]) \in Nat /\ PosAt(i) \in Nat
      BY <3>1, <1>1, SectionFacts
    <3>3. CASE i = n
      BY <3>1, <3>2, <3>3, <1>2, <1>3
    <3>4. CASE i # n
      <4>1. PosAt(i)' = PosAt(i) /\ PosAt(i) <= Len(program[FileAt(i)]) + 1
        BY <3>1, <3>4, <1>3 DEF StackInv
      <4> QED
        BY <3>1, <4>1, <1>2
    <3> QED
      BY <3>3, <3>4
  <2>4. ASSUME NEW i \in 1..Len(frames')
        PROVE  /\ PosAt(i - 1)' <= Len(program'[FileAt(i - 1)'])
               /\ Up(i - 1)'.file = frames'[i].file
               /\ Up(i - 1)'.alias = frames'[i].alias
    <3>1. i \in 1..Len(frames) /\ i \in 1..n /\ i - 1 \in 0..n /\ i - 1 # n
      BY <1>1, <1>3
    <3> QED
      BY <3>1, <1>2, <1>3 DEF StackInv
  <2> QED
    BY <1>2, <2>1, <2>2, <2>3, <2>4 DEF StackInv
<1>5. ReachInv'
  <2> SUFFICES ASSUME NEW S \in SUBSET File, Closed(S)',
                      NEW i \in 1..Len(frames'), NEW j \in 1..Len(frames'),
                      i <= j, frames'[i].file \in S
               PROVE  frames'[j].file \in S
    BY DEF ReachInv
  <2>1. Closed(S)
    BY InputsStay
  <2>2. i \in 1..Len(frames) /\ j \in 1..Len(frames) /\ frames[i].file \in S
    BY <1>1, <1>3
  <2> QED
    BY <2>1, <2>2, <1>1, <1>3 DEF ReachInv
<1>6. PassedInv'
  <2>1. ASSUME NEW i \in 1..Len(frames'), NEW imp \in PassedBy(i)'
        PROVE  imp.file \in visited'
    <3>1. i \in 1..n /\ i \in 0..n /\ i \in 1..Len(frames)
      BY <1>1, <1>3
    <3>2. imp \in PassedBy(i) \/ imp = Up(n)
      BY <3>1, <1>3
    <3> QED
      BY <3>1, <3>2 DEF PassedInv
  <2>2. ASSUME NEW imp \in PassedBy(0)'
        PROVE  imp.file \in visited' \/ (~success' /\ ~SoundFrom(imp.file)')
    <3>1. imp \in PassedBy(0) \/ imp = Up(n)
      BY <1>1, <1>3
    <3> QED
      BY <3>1, <1>2, InputsStay DEF PassedInv
  <2> QED
    BY <2>1, <2>2 DEF PassedInv
<1> QED
  BY <1>4, <1>5, <1>6

(* What a loop has been through is part of what its file imports, and all of *)
(* it when the loop is over.                                                 *)
LEMMA PassedIsImported ==
  ASSUME TypeOK, StackInv, NEW i \in 0..Len(frames)
  PROVE  /\ PassedBy(i) \subseteq Check!ImportsOf({FileAt(i)})
         /\ PosAt(i) <= Len(program[FileAt(i)]) =>
              /\ Up(i) \in Check!ImportsOf({FileAt(i)})
              /\ Up(i).file \in Check!Targets(FileAt(i))
         /\ PosAt(i) > Len(program[FileAt(i)]) => Check!ImportsOf({FileAt(i)}) \subseteq PassedBy(i)
<1> DEFINE f == FileAt(i)
           p == PosAt(i)
<1>1. f \in File /\ p \in Nat \ {0} /\ p <= Len(program[f]) + 1
  BY FrameFacts DEF StackInv
<1>2. PassedBy(i) = {program[f][j] : j \in 1..(p - 1)} /\ Up(i) = program[f][p]
  BY DEF PassedBy, Up
<1> HIDE DEF f, p
<1>3. Len(program[f]) \in Nat /\ \A j \in 1..Len(program[f]) : program[f][j].file \in Check!Targets(f)
  BY <1>1, SectionFacts
<1>4. /\ \A j \in 1..Len(program[f]) : program[f][j] \in Check!ImportsOf({f})
      /\ \A imp \in Check!ImportsOf({f}) : \E j \in 1..Len(program[f]) : imp = program[f][j]
  <2>1. {f} \in SUBSET File /\ f \in {f} /\ \A g \in {f} : g = f
    BY <1>1
  <2> QED
    BY <2>1, ImportsOfFacts
<1>5. ASSUME NEW imp \in PassedBy(i) PROVE imp \in Check!ImportsOf({f})
  <2>1. PICK j \in 1..(p - 1) : imp = program[f][j]
    BY <1>2
  <2>2. j \in 1..Len(program[f])
    BY <1>1, <1>3
  <2> QED
    BY <2>1, <2>2, <1>4
<1>6. ASSUME p <= Len(program[f])
      PROVE  Up(i) \in Check!ImportsOf({f}) /\ Up(i).file \in Check!Targets(f)
  <2>1. p \in 1..Len(program[f])
    BY <1>1, <1>3, <1>6
  <2> QED
    BY <2>1, <1>2, <1>3, <1>4
<1>7. ASSUME p > Len(program[f]), NEW imp \in Check!ImportsOf({f})
      PROVE  imp \in PassedBy(i)
  <2>1. PICK j \in 1..Len(program[f]) : imp = program[f][j]
    BY <1>4
  <2>2. j \in 1..(p - 1)
    BY <1>1, <1>3, <1>7
  <2> QED
    BY <2>1, <2>2, <1>2
<1> QED
  BY <1>5, <1>6, <1>7 DEF f, p

(* The loops under way are those of Main and of files that a covering set has. *)
LEMMA LoopsWithin ==
  ASSUME TypeOK, StackInv, NEW S \in SUBSET File, Check!Covers(S), NamedRight(S),
         NEW i \in 0..Len(frames)
  PROVE  /\ FileAt(i) \in S \cup {Main}
         /\ Check!ImportsOf({FileAt(i)}) \subseteq Check!ImportsOf(S \cup {Main})
         /\ Check!Targets(FileAt(i)) \subseteq S
<1>1. FileAt(i) \in S \cup {Main}
  <2>1. CASE i = 0
    BY <2>1 DEF FileAt
  <2>2. CASE i # 0
    BY <2>2, FrameFacts DEF FileAt, StackInv, NamedRight
  <2> QED
    BY <2>1, <2>2
<1>2. Check!ImportsOf({FileAt(i)}) \subseteq Check!ImportsOf(S \cup {Main})
  BY <1>1 DEF Check!ImportsOf
<1>3. Check!Targets(FileAt(i)) \subseteq S
  BY <1>1 DEF Check!Covers
<1> QED
  BY <1>1, <1>2, <1>3

(* A sound file that is done is registered under the alias by which any     *)
(* import asks for it, when the aliases agree.                              *)
LEMMA RegisteredRight ==
  ASSUME NEW S, NamedRight(S), Check!Consistent(S),
         NEW imp \in Check!ImportsOf(S \cup {Main}), imp.file \in visited, SoundFrom(imp.file)
  PROVE  Known(namespaces, imp.alias) /\ namespaces[imp.alias].file = imp.file
<1>1. PICK a \in DOMAIN namespaces : namespaces[a].file = imp.file
  BY DEF NamedRight
<1> DEFINE there == [alias |-> a, file |-> namespaces[a].file]
<1>2. there \in Check!ImportsOf(S \cup {Main}) /\ there.alias = a /\ there.file = imp.file
  BY <1>1 DEF NamedRight
<1> HIDE DEF there
<1>3. a = imp.alias
  BY <1>2 DEF Check!Consistent
<1> QED
  BY <1>1, <1>3 DEF Known

(* Local imports that learn of one more import keep what they knew. *)
LEMMA LocalsLearn ==
  ASSUME NEW S, Check!Consistent(S), NEW l,
         NEW X, X \subseteq Check!ImportsOf(S \cup {Main}), \A x \in X : Knows(l, x),
         NEW imp \in Check!ImportsOf(S \cup {Main})
  PROVE  \A x \in X \cup {imp} : Knows(Extended(l, imp.alias, imp.file), x)
<1> DEFINE e == Extended(l, imp.alias, imp.file)
<1>1. /\ DOMAIN e = DOMAIN l \cup {imp.alias} /\ e[imp.alias] = imp.file
      /\ \A k \in DOMAIN l : k # imp.alias => e[k] = l[k]
  BY DEF Extended
<1> HIDE DEF e
<1>2. Knows(e, imp)
  BY <1>1 DEF Knows, Known
<1>3. ASSUME NEW x \in X PROVE Knows(e, x)
  <2>1. x.alias \in DOMAIN l /\ l[x.alias] = x.file
    BY DEF Knows, Known
  <2>2. x.alias = imp.alias => x.file = imp.file
    BY DEF Check!Consistent
  <2> QED
    BY <1>1, <2>1, <2>2 DEF Knows, Known
<1> QED
  BY <1>2, <1>3 DEF e

(* NamedRight after a step, said of what is under the step's control. *)
LEMMA NamedRightNext ==
  ASSUME NEW S, UNCHANGED inputs,
         visiting' \cup visited' \subseteq S,
         \A a \in DOMAIN namespaces' :
           [alias |-> a, file |-> namespaces'[a].file] \in Check!ImportsOf(S \cup {Main}),
         \A f \in visited' : SoundFrom(f) => \E a \in DOMAIN namespaces' : namespaces'[a].file = f,
         success' => \A i \in 1..Len(frames') : \A imp \in PassedBy(i)' : Knows(frames'[i].locals, imp),
         success' => \A a \in DOMAIN namespaces' : \A imp \in Check!ImportsOf({namespaces'[a].file}) :
                       Knows(namespaces'[a].locals, imp)
  PROVE  NamedRight(S)'
<1>1. \A X : Check!ImportsOf(X)' = Check!ImportsOf(X)
  BY InputsStay
<1>2. \A f : SoundFrom(f)' <=> SoundFrom(f)
  BY InputsStay
<1>3. \A a \in DOMAIN namespaces' :
        [alias |-> a, file |-> namespaces'[a].file] \in Check!ImportsOf(S \cup {Main})'
  BY <1>1
<1>4. \A f \in visited' : SoundFrom(f)' => \E a \in DOMAIN namespaces' : namespaces'[a].file = f
  BY <1>2
<1>5. ASSUME success', NEW a \in DOMAIN namespaces', NEW imp \in Check!ImportsOf({namespaces[a].file})'
      PROVE  Knows(namespaces'[a].locals, imp)
  <2>1. imp \in Check!ImportsOf({namespaces'[a].file})
    BY InputsStay DEF Check!ImportsOf
  <2> QED
    BY <1>5, <2>1
<1> QED
  BY <1>3, <1>4, <1>5 DEF NamedRight

-----------------------------------------------------------------------------
(***************************************************************************)
(* The steps.                                                              *)
(***************************************************************************)

(* What a step that neither fails nor registers anything leaves as it was. *)
LEMMA QuietStep ==
  ASSUME IInv, UNCHANGED <<inputs, visited, namespaces, errors, success, verdict>>
  PROVE  CleanInv' /\ FailureInv' /\ CycleIsReal' /\ DependenciesFirst'
<1>1. CleanInv'
  BY InputsStay DEF IInv, CleanInv
<1>2. FailureInv'
  BY InputsStay DEF IInv, FailureInv
<1>3. CycleIsReal'
  BY InputsStay DEF IInv, CycleIsReal
<1>4. DependenciesFirst'
  BY InputsStay DEF IInv, DependenciesFirst
<1> QED
  BY <1>1, <1>2, <1>3, <1>4

(* ReuseNamespace and SkipResolved: the import is done, its loop turns. *)
LEMMA PassOverPreserves ==
  ASSUME IInv, NEW imp, At(imp), imp.file \in visited, PassOver(imp)
  PROVE  IInv'
<1>0. PICK n \in Nat : n = Len(frames)
  BY FrameFacts DEF IInv
<1>1. /\ TypeOK /\ StackInv /\ ReachInv /\ PassedInv /\ CleanInv /\ NameInv
      /\ UNCHANGED <<inputs, visiting, visited, namespaces, errors, success, verdict>>
      /\ frames' = Resumed(frames, imp.alias, namespaces) /\ next' = NextOfMain(frames)
  BY DEF IInv, PassOver
<1>2. /\ verdict = "pending" /\ imp = Up(n) /\ imp \in Import
      /\ PosAt(n) <= Len(program[FileAt(n)]) /\ n \in 0..Len(frames)
  <2>1. PosAt(n) \in 1..Len(program[FileAt(n)])
    BY <1>1, ImportAt, <1>0
  <2> QED
    BY <1>1, <2>1, ImportAt, FrameFacts, <1>0
<1>3. imp.alias \in Alias /\ (Known(namespaces, imp.alias) => namespaces[imp.alias].file \in File)
  BY <1>1, <1>2 DEF TypeOK, Known, Import
<1>4. LoopTurned(n, imp.alias, namespaces)
  BY <1>1, <1>2, <1>3, FrameFacts, LoopTurns, <1>0
<1>5. StackInv' /\ ReachInv' /\ PassedInv'
  BY <1>1, <1>2, <1>4, TurnKeepsTheStack, <1>0 DEF StackInv
<1>6. TypeOK'
  BY <1>1, <1>4, InputsStay, <1>0 DEF TypeOK, LoopTurned, Frame, Locals
<1>7. NameInv'
  <2> SUFFICES ASSUME NEW S \in SUBSET File, Check!Covers(S)', Check!Consistent(S)'
               PROVE  NamedRight(S)'
    BY DEF NameInv
  <2>1. Check!Covers(S) /\ Check!Consistent(S) /\ NamedRight(S)
    BY <1>1, InputsStay DEF NameInv
  <2>2. ASSUME success, NEW i \in 1..Len(frames'), NEW x \in PassedBy(i)'
        PROVE  Knows(frames'[i].locals, x)
    <3>1. n \in Nat /\ i \in 1..n /\ i \in 0..n
      BY <1>1, <1>4, FrameFacts, <1>0 DEF LoopTurned
    <3>2. CASE i # n
      BY <2>1, <2>2, <3>1, <3>2, <1>4, <1>0 DEF LoopTurned, NamedRight
    <3>3. CASE i = n
      <4>1. SoundFrom(imp.file)
        BY <1>1, <2>2, SoundWithin DEF CleanInv, TypeOK
      <4>2. imp \in Check!ImportsOf(S \cup {Main}) /\ PassedBy(n) \subseteq Check!ImportsOf(S \cup {Main})
        BY <1>1, <1>2, <2>1, PassedIsImported, LoopsWithin, <1>0
      <4>3. Known(namespaces, imp.alias) /\ namespaces[imp.alias].file = imp.file
        BY <2>1, <4>1, <4>2, RegisteredRight
      <4>4. frames'[n].locals = Extended(frames[n].locals, imp.alias, imp.file)
        BY <1>4, <3>1, <4>3, <1>0 DEF LoopTurned
      <4>5. \A y \in PassedBy(n) : Knows(frames[n].locals, y)
        BY <2>1, <2>2, <3>1, <3>3, <1>0 DEF NamedRight
      <4>6. x \in PassedBy(n) \cup {imp}
        BY <1>2, <1>4, <3>3, <3>1, <1>0 DEF LoopTurned
      <4>7. \A y \in PassedBy(n) \cup {imp} : Knows(Extended(frames[n].locals, imp.alias, imp.file), y)
        <5> DEFINE X == PassedBy(n)
                   l == frames[n].locals
        <5>1. X \subseteq Check!ImportsOf(S \cup {Main}) /\ \A y \in X : Knows(l, y)
          BY <4>2, <4>5
        <5> HIDE DEF X, l
        <5>2. \A y \in X \cup {imp} : Knows(Extended(l, imp.alias, imp.file), y)
          BY <2>1, <4>2, <5>1, LocalsLearn
        <5> QED
          BY <5>2 DEF X, l
      <4> QED
        BY <3>3, <4>4, <4>6, <4>7
    <3> QED
      BY <3>2, <3>3
  <2>3. ASSUME success, NEW a \in DOMAIN namespaces,
               NEW x \in Check!ImportsOf({namespaces[a].file})
        PROVE  Knows(namespaces[a].locals, x)
    BY <2>1, <2>3, <1>0 DEF NamedRight
  <2> QED
    BY <1>1, <2>1, <2>2, <2>3, InputsStay, <1>0 DEF NamedRight
<1> QED
  BY <1>1, <1>5, <1>6, <1>7, QuietStep DEF IInv

(* EnterFile: one more call, at the first import of its file. *)
LEMMA EnterFilePreserves ==
  ASSUME IInv, NEW imp, EnterFile(imp)
  PROVE  IInv'
<1>0. PICK n \in Nat : n = Len(frames)
  BY FrameFacts DEF IInv
<1> DEFINE new == [file |-> imp.file, alias |-> imp.alias, next |-> 1, locals |-> << >>]
<1>1. /\ TypeOK /\ StackInv /\ ReachInv /\ PassedInv /\ CleanInv /\ NameInv /\ At(imp)
      /\ UNCHANGED <<inputs, next, visited, namespaces, errors, success, verdict>>
      /\ frames' = Append(frames, new) /\ visiting' = visiting \cup {imp.file}
      /\ imp.file \notin visiting \cup visited
  BY DEF IInv, EnterFile
<1>2. /\ verdict = "pending" /\ imp = Up(n) /\ imp.file \in File /\ imp.alias \in Alias
      /\ FileAt(n) = Importer
      /\ PosAt(n) <= Len(program[FileAt(n)]) /\ imp.file \in Check!Targets(FileAt(n))
  <2>1. PosAt(n) \in 1..Len(program[FileAt(n)]) /\ imp \in Import
    BY <1>1, ImportAt, <1>0
  <2> QED
    BY <1>1, <2>1, ImportAt, FrameFacts, <1>0 DEF Import
<1>3. new \in Frame
  <2>1. << >> \in Locals
    <3>1. << >> \in [{} -> File] /\ {} \in SUBSET Alias
      OBVIOUS
    <3> QED
      BY <3>1 DEF Locals
  <2> QED
    BY <1>2, <2>1 DEF Frame
<1>4. /\ frames \in Seq(Frame) /\ n \in Nat /\ Len(program[imp.file]) \in Nat
      /\ \A i \in 0..n : FileAt(i) \in File /\ PosAt(i) \in Nat \ {0}
  BY <1>1, <1>2, FrameFacts, SectionFacts, <1>0
<1>5. /\ frames' \in Seq(Frame) /\ Len(frames') = n + 1
      /\ \A i \in 1..n : frames'[i] = frames[i]
      /\ frames'[n + 1] = new
  BY <1>1, <1>3, <1>4, AppendProperties, <1>0
<1>6. program' = program /\ next' = next /\ verdict' = verdict /\ visited' = visited /\ success' = success
      /\ namespaces' = namespaces
  BY <1>1, InputsStay
<1>7. /\ \A i \in 0..n : FileAt(i)' = FileAt(i) /\ PosAt(i)' = PosAt(i)
      /\ FileAt(n + 1)' = imp.file /\ PosAt(n + 1)' = 1
  BY <1>4, <1>5, <1>6 DEF FileAt, PosAt
<1>8. /\ \A i \in 0..n : Up(i)' = Up(i) /\ PassedBy(i)' = PassedBy(i)
      /\ PassedBy(n + 1)' = {}
  <2>1. \A i \in 0..n : Up(i)' = Up(i) /\ PassedBy(i)' = PassedBy(i)
    BY <1>6, <1>7 DEF Up, PassedBy
  <2>2. PassedBy(n + 1)' = {}
    BY <1>7 DEF PassedBy
  <2> QED
    BY <2>1, <2>2
<1> HIDE DEF new
<1>9. new.file = imp.file /\ new.alias = imp.alias
  BY DEF new
<1>10. TypeOK'
  <2>1. visiting' \in SUBSET File
    BY <1>1, <1>2 DEF TypeOK
  <2> QED
    BY <1>1, <1>5, <2>1, InputsStay DEF TypeOK, Frame, Locals
<1>11. StackInv'
  <2>1. \A i \in 1..n : i \in 1..Len(frames) /\ i \in 0..n
    BY <1>0
  <2>2. visiting = {frames[i].file : i \in 1..n}
    BY <1>1, <1>0 DEF StackInv
  <2>3. visiting' = {frames'[i].file : i \in 1..Len(frames')}
    BY <1>1, <1>4, <1>5, <1>9, <2>2
  <2>4. visiting' \cap visited' = {}
    BY <1>1, <1>6 DEF StackInv
  <2>5. \A i, j \in 1..Len(frames') : frames'[i].file = frames'[j].file => i = j
    <3>1. \A i \in 1..n : frames[i].file # imp.file
      BY <1>1, <2>2
    <3>2. \A i, j \in 1..n : frames[i].file = frames[j].file => i = j
      BY <1>1, <1>0 DEF StackInv
    <3>3. \A i \in 1..(n + 1) : i \in 1..n \/ i = n + 1
      BY <1>4
    <3> QED
      BY <1>4, <1>5, <1>9, <3>1, <3>2, <3>3
  <2>6. ASSUME NEW i \in 0..Len(frames') PROVE PosAt(i)' <= Len(program'[FileAt(i)']) + 1
    <3>1. CASE i \in 0..n
      BY <3>1, <1>1, <1>6, <1>7, <1>0 DEF StackInv
    <3>2. CASE i = n + 1
      BY <3>2, <1>4, <1>6, <1>7
    <3> QED
      BY <3>1, <3>2, <1>4, <1>5
  <2>7. ASSUME NEW i \in 1..Len(frames')
        PROVE  /\ PosAt(i - 1)' <= Len(program'[FileAt(i - 1)'])
               /\ Up(i - 1)'.file = frames'[i].file
               /\ Up(i - 1)'.alias = frames'[i].alias
    <3>0. i - 1 \in 0..n
      BY <1>4, <1>5
    <3>1. CASE i \in 1..n
      BY <3>0, <3>1, <1>1, <1>5, <1>6, <1>7, <1>8, <2>1 DEF StackInv
    <3>2. CASE i = n + 1
      <4>1. i - 1 = n
        BY <3>2, <1>4
      <4> QED
        BY <3>0, <3>2, <4>1, <1>2, <1>5, <1>6, <1>7, <1>8, <1>9
    <3> QED
      BY <3>1, <3>2, <1>4, <1>5
  <2> QED
    BY <1>2, <1>6, <2>3, <2>4, <2>5, <2>6, <2>7 DEF StackInv
<1>12. ReachInv'
  <2> SUFFICES ASSUME NEW S \in SUBSET File, Closed(S)',
                      NEW i \in 1..Len(frames'), NEW j \in 1..Len(frames'),
                      i <= j, frames'[i].file \in S
               PROVE  frames'[j].file \in S
    BY DEF ReachInv
  <2>1. Closed(S)
    BY <1>1, InputsStay
  <2>2. CASE j \in 1..n
    <3>1. i \in 1..n
      BY <2>2, <1>4
    <3> QED
      BY <2>1, <2>2, <3>1, <1>1, <1>5, <1>0 DEF ReachInv
  <2>3. CASE j = n + 1 /\ i = n + 1
    BY <2>3
  <2>4. CASE j = n + 1 /\ i \in 1..n
    <3>1. n \in 1..n /\ i <= n /\ n # 0
      BY <2>4, <1>4
    <3>2. frames[n].file \in S
      BY <2>1, <2>4, <3>1, <1>1, <1>5, <1>0 DEF ReachInv
    <3>3. FileAt(n) = frames[n].file
      BY <3>1 DEF FileAt
    <3>4. imp.file \in S
      BY <2>1, <3>2, <3>3, <1>2 DEF Closed
    <3> QED
      BY <2>4, <3>4, <1>5, <1>9
  <2> QED
    BY <2>2, <2>3, <2>4, <1>4, <1>5
<1>13. PassedInv'
  <2>1. ASSUME NEW i \in 1..Len(frames'), NEW x \in PassedBy(i)'
        PROVE  x.file \in visited'
    <3>1. CASE i \in 1..n
      BY <3>1, <1>1, <1>4, <1>6, <1>8, <1>0 DEF PassedInv
    <3>2. CASE i = n + 1
      BY <3>2, <1>8
    <3> QED
      BY <3>1, <3>2, <1>4, <1>5
  <2>2. ASSUME NEW x \in PassedBy(0)'
        PROVE  x.file \in visited' \/ (~success' /\ ~SoundFrom(x.file)')
    BY <1>1, <1>4, <1>6, <1>8, InputsStay DEF PassedInv
  <2> QED
    BY <2>1, <2>2 DEF PassedInv
<1>14. NameInv'
  <2> SUFFICES ASSUME NEW S \in SUBSET File, Check!Covers(S)', Check!Consistent(S)'
               PROVE  NamedRight(S)'
    BY DEF NameInv
  <2>1. Check!Covers(S) /\ Check!Consistent(S) /\ NamedRight(S)
    BY <1>1, InputsStay DEF NameInv
  <2>2. imp.file \in S
    <3>1. n \in 0..Len(frames)
      BY <1>0
    <3>2. Check!Targets(FileAt(n)) \subseteq S
      BY <3>1, <1>1, <2>1, LoopsWithin
    <3> QED
      BY <3>2, <1>2
  <2>3. visiting' \cup visited' \subseteq S
    BY <1>1, <1>6, <2>1, <2>2, <1>0 DEF NamedRight
  <2>4. ASSUME success, NEW i \in 1..Len(frames'), NEW x \in PassedBy(i)'
        PROVE  Knows(frames'[i].locals, x)
    <3>1. CASE i \in 1..n
      BY <2>1, <2>4, <3>1, <1>4, <1>5, <1>8, <1>0 DEF NamedRight
    <3>2. CASE i = n + 1
      BY <2>4, <3>2, <1>8
    <3> QED
      BY <3>1, <3>2, <1>4, <1>5
  <2>5. ASSUME success, NEW a \in DOMAIN namespaces,
               NEW x \in Check!ImportsOf({namespaces[a].file})
        PROVE  Knows(namespaces[a].locals, x)
    BY <2>1, <2>5, <1>0 DEF NamedRight
  <2>6. \A a \in DOMAIN namespaces :
          [alias |-> a, file |-> namespaces[a].file] \in Check!ImportsOf(S \cup {Main})
    BY <2>1 DEF NamedRight
  <2>7. \A f \in visited : SoundFrom(f) => \E a \in DOMAIN namespaces : namespaces[a].file = f
    BY <2>1 DEF NamedRight
  <2> QED
    <3>1. success' => \A i \in 1..Len(frames') : \A x \in PassedBy(i)' : Knows(frames'[i].locals, x)
      BY <2>4, <1>6
    <3>2. success' => \A a \in DOMAIN namespaces' : \A x \in Check!ImportsOf({namespaces'[a].file}) :
            Knows(namespaces'[a].locals, x)
      BY <2>5, <1>6
    <3>3. \A a \in DOMAIN namespaces' :
            [alias |-> a, file |-> namespaces'[a].file] \in Check!ImportsOf(S \cup {Main})
      BY <2>6, <1>6
    <3>4. \A f \in visited' : SoundFrom(f) => \E a \in DOMAIN namespaces' : namespaces'[a].file = f
      BY <2>7, <1>6
    <3> QED
      BY <1>1, <2>3, <3>1, <3>2, <3>3, <3>4, NamedRightNext
<1> QED
  BY <1>1, <1>10, <1>11, <1>12, <1>13, <1>14, QuietStep DEF IInv

(* The facts about a file at the end of its loop. *)
LEMMA AtTheEnd ==
  ASSUME TypeOK, StackInv, PassedInv, Analyzing
  PROVE  /\ verdict = "pending" /\ Len(frames) \in Nat \ {0}
         /\ Top.file \in visiting /\ Top.file \notin visited /\ Top.file \in File
         /\ FileAt(Len(frames)) = Top.file
         /\ Check!Targets(Top.file) \subseteq visited
         /\ Check!ImportsOf({Top.file}) \subseteq PassedBy(Len(frames))
<1>1. PICK n \in Nat \ {0} : n = Len(frames)
  BY TopFacts DEF Analyzing
<1>2. FileAt(n) = Top.file /\ PosAt(n) = Top.next /\ Top = frames[n]
  BY <1>1 DEF FileAt, PosAt, Top
<1>3. Top.file \in File /\ Top.file \in visiting /\ Top.file \notin visited /\ verdict = "pending"
  BY <1>1, <1>2, TopFacts DEF Analyzing, StackInv, Frame
<1>4. PosAt(n) > Len(program[FileAt(n)]) /\ n \in 0..Len(frames) /\ n \in 1..Len(frames)
  BY <1>1, <1>2 DEF Analyzing
<1>5. Check!ImportsOf({FileAt(n)}) \subseteq PassedBy(n)
  BY <1>4, PassedIsImported
<1>6. Check!Targets(Top.file) \subseteq visited
  <2> SUFFICES ASSUME NEW g \in Check!Targets(Top.file) PROVE g \in visited
    OBVIOUS
  <2>1. PICK j \in 1..Len(program[Top.file]) : g = program[Top.file][j].file
    BY <1>3, SectionFacts
  <2>2. program[Top.file][j] \in Check!ImportsOf({Top.file})
    <3>1. {Top.file} \in SUBSET File
      BY <1>3
    <3> QED
      BY <3>1, ImportsOfFacts
  <2> QED
    BY <2>1, <2>2, <1>2, <1>4, <1>5 DEF PassedInv
<1> QED
  BY <1>1, <1>2, <1>3, <1>5, <1>6

(* A file whose imports are done adds no loop to what is done. *)
LEMMA NoNewLoop ==
  ASSUME NEW f, f \notin visited, Closed(visited), Check!Targets(f) \subseteq visited,
         Check!Clean(visited), health[f] = "sound"
  PROVE  Check!Clean(visited \cup {f}) /\ Closed(visited \cup {f})
<1>1. Closed(visited \cup {f})
  BY DEF Closed
<1>2. \A g \in visited \cup {f} : health[g] = "sound"
  BY DEF Check!Clean
<1>3. ASSUME NEW C \in SUBSET (visited \cup {f}), C # {}, Check!SelfFeeding(C)
      PROVE  FALSE
  <2> DEFINE D == C \ {f}
  <2>1. \A g \in C : Check!Targets(g) \cap C # {} /\ Check!Targets(g) \subseteq visited
    BY <1>3 DEF Closed, Check!SelfFeeding
  <2>2. \A g \in C : Check!Targets(g) \cap D # {}
    BY <2>1
  <2>3. D \in SUBSET visited /\ D # {} /\ Check!SelfFeeding(D)
    BY <1>3, <2>2 DEF Check!SelfFeeding
  <2> QED
    BY <2>3 DEF Check!Clean
<1> QED
  BY <1>1, <1>2, <1>3 DEF Check!Clean

(* RegisterNamespace: the innermost file becomes a namespace, its caller's *)
(* loop turns.                                                             *)
LEMMA RegisterPreserves ==
  ASSUME IInv, RegisterNamespace
  PROVE  IInv'
<1>1. /\ TypeOK /\ StackInv /\ ReachInv /\ PassedInv /\ CleanInv /\ FailureInv /\ NameInv
      /\ CycleIsReal /\ DependenciesFirst
      /\ ~AtTop /\ Analyzing /\ health[Top.file] = "sound"
      /\ UNCHANGED <<inputs, errors, success, verdict>>
      /\ frames' = Resumed(Below, Top.alias, namespaces') /\ next' = NextOfMain(Below)
      /\ visiting' = visiting \ {Top.file} /\ visited' = visited \cup {Top.file}
  BY DEF IInv, RegisterNamespace, Analyzing
<1>2. PICK n \in Nat : n + 1 = Len(frames)
  <2>1. Len(frames) \in Nat \ {0}
    BY <1>1, TopFacts
  <2>2. Len(frames) - 1 \in Nat /\ (Len(frames) - 1) + 1 = Len(frames)
    BY <2>1
  <2> QED
    BY <2>2
<1>3. PICK f \in File, al \in Alias, locals \in Locals :
        Top.file = f /\ Top.alias = al /\ Top.locals = locals
  BY <1>1, TopFacts DEF Frame
<1>4. /\ n \in 0..Len(frames) /\ n + 1 \in 1..Len(frames) /\ (n + 1) - 1 = n
      /\ \A i \in 1..n : i \in 1..Len(frames) /\ i # n + 1
      /\ frames[n + 1].file = f /\ frames[n + 1].alias = al /\ frames[n + 1].locals = locals
  BY <1>2, <1>3 DEF Top
<1>5. /\ verdict = "pending" /\ f \in visiting /\ f \notin visited
      /\ Check!Targets(f) \subseteq visited
      /\ Check!ImportsOf({f}) \subseteq PassedBy(n + 1)
  BY <1>1, <1>2, <1>3, AtTheEnd
<1>6. /\ DOMAIN namespaces' = DOMAIN namespaces \cup {al}
      /\ namespaces'[al].file = f /\ namespaces'[al].locals = locals
      /\ \A a \in DOMAIN namespaces : a # al => namespaces'[a] = namespaces[a]
  BY <1>3 DEF RegisterNamespace, Extended
<1>7. PosAt(n) <= Len(program[FileAt(n)]) /\ Up(n).file = f /\ Up(n).alias = al
  BY <1>1, <1>4 DEF StackInv
<1>8. visiting' = {frames[i].file : i \in 1..n} /\ visiting' \cap visited' = {}
  <2>1. visiting = {frames[i].file : i \in 1..Len(frames)}
    BY <1>1 DEF StackInv
  <2>2. \A i \in 1..n : frames[i].file # f
    BY <1>1, <1>4 DEF StackInv
  <2>3. \A i \in 1..Len(frames) : i \in 1..n \/ i = n + 1
    BY <1>2
  <2>4. visiting' = {frames[i].file : i \in 1..n}
    BY <1>1, <1>3, <1>4, <2>1, <2>2, <2>3
  <2> QED
    BY <1>1, <1>3, <2>4 DEF StackInv
<1>9. LoopTurned(n, al, namespaces')
  <2>1. Below \in Seq(Frame) /\ Len(Below) = n /\ \A i \in 1..n : Below[i] = frames[i]
    BY <1>1, <1>2, TopFacts
  <2>2. Known(namespaces', al) => namespaces'[al].file \in File
    BY <1>6
  <2>3. frames' = Resumed(Below, al, namespaces')
    BY <1>1, <1>3
  <2> QED
    BY <1>1, <1>4, <2>1, <2>2, <2>3, LoopTurns
<1>10. StackInv' /\ ReachInv' /\ PassedInv'
  BY <1>1, <1>3, <1>4, <1>5, <1>7, <1>8, <1>9, TurnKeepsTheStack
<1>11. TypeOK'
  <2>1. DOMAIN namespaces' \subseteq Alias /\ \A a \in DOMAIN namespaces' : namespaces'[a].file \in File
    BY <1>1, <1>6 DEF TypeOK
  <2>2. visiting' \in SUBSET File /\ visited' \in SUBSET File
    BY <1>1, <1>3 DEF TypeOK
  <2>3. frames' \in Seq(Frame) /\ next' \in Nat \ {0}
    BY <1>9 DEF LoopTurned
  <2> QED
    BY <1>1, <2>1, <2>2, <2>3, InputsStay DEF TypeOK, Frame, Locals
<1>12. CleanInv'
  <2>1. success => Check!Clean(visited \cup {f}) /\ Closed(visited \cup {f})
    BY <1>1, <1>3, <1>5, NoNewLoop DEF CleanInv
  <2>2. PICK W : W = visited' /\ W = visited \cup {f}
    BY <1>1, <1>3
  <2>3. success => Closed(W)' /\ Check!Clean(W)'
    BY <1>1, <2>1, <2>2, InputsStay
  <2>4. success => Closed(visited)'
    BY <2>2, <2>3 DEF Closed
  <2>5. success => Check!Clean(visited)'
    BY <2>2, <2>3 DEF Check!Clean
  <2> QED
    BY <1>1, <2>4, <2>5 DEF CleanInv
<1>13. FailureInv' /\ CycleIsReal'
  BY <1>1, InputsStay DEF FailureInv, CycleIsReal
<1>14. DependenciesFirst'
  <2> SUFFICES ASSUME NEW a \in DOMAIN namespaces'
               PROVE  Check!Targets(namespaces'[a].file) \subseteq visited'
    BY <1>1, InputsStay DEF DependenciesFirst, Check!Targets
  <2>1. CASE a = al
    BY <2>1, <1>1, <1>5, <1>6
  <2>2. CASE a # al
    BY <2>2, <1>1, <1>6 DEF DependenciesFirst
  <2> QED
    BY <2>1, <2>2
<1>15. NameInv'
  <2> SUFFICES ASSUME NEW S \in SUBSET File, Check!Covers(S)', Check!Consistent(S)'
               PROVE  NamedRight(S)'
    BY DEF NameInv
  <2>1. Check!Covers(S) /\ Check!Consistent(S) /\ NamedRight(S)
    BY <1>1, InputsStay DEF NameInv
  <2>2. /\ Up(n) \in Check!ImportsOf(S \cup {Main}) /\ Up(n) \in Import
        /\ PassedBy(n) \subseteq Check!ImportsOf(S \cup {Main})
    <3>1. FileAt(n) \in S \cup {Main} /\ S \cup {Main} \in SUBSET File
      BY <1>1, <1>4, <2>1, LoopsWithin, ImportsAssumption
    <3> QED
      BY <3>1, <1>1, <1>4, <1>7, <2>1, LoopsWithin, PassedIsImported, ImportsOfFacts
  <2>3. [alias |-> al, file |-> f] \in Check!ImportsOf(S \cup {Main})
    <3>1. Up(n) = [alias |-> al, file |-> f]
      BY <2>2, <1>7 DEF Import
    <3> QED
      BY <2>2, <3>1
  <2>4. visiting' \cup visited' \subseteq S
    BY <1>1, <1>3, <1>5, <2>1 DEF NamedRight
  <2>5. \A a \in DOMAIN namespaces' :
          [alias |-> a, file |-> namespaces'[a].file] \in Check!ImportsOf(S \cup {Main})
    BY <1>6, <2>1, <2>3 DEF NamedRight
  <2>6. ASSUME NEW g \in visited', SoundFrom(g)
        PROVE  \E a \in DOMAIN namespaces' : namespaces'[a].file = g
    <3>1. CASE g = f
      BY <3>1, <1>6
    <3>2. CASE g # f
      <4>1. PICK a \in DOMAIN namespaces : namespaces[a].file = g
        BY <1>1, <1>3, <2>1, <2>6, <3>2 DEF NamedRight
      <4> DEFINE there == [alias |-> a, file |-> g]
                 here  == [alias |-> al, file |-> f]
      <4>2. there \in Check!ImportsOf(S \cup {Main}) /\ here \in Check!ImportsOf(S \cup {Main})
        BY <2>1, <2>3, <4>1 DEF NamedRight
      <4>3. there.alias = a /\ there.file = g /\ here.alias = al /\ here.file = f
        OBVIOUS
      <4> HIDE DEF there, here
      <4>4. a # al
        BY <2>1, <3>2, <4>2, <4>3 DEF Check!Consistent
      <4> QED
        BY <1>6, <4>1, <4>4
    <3> QED
      BY <3>1, <3>2
  <2>7. ASSUME success', NEW i \in 1..Len(frames'), NEW x \in PassedBy(i)'
        PROVE  Knows(frames'[i].locals, x)
    <3>1. i \in 1..n /\ i \in 0..n /\ success
      BY <1>1, <1>2, <1>9, <2>7 DEF LoopTurned
    <3>2. CASE i # n
      BY <1>4, <1>9, <2>1, <3>1, <3>2 DEF LoopTurned, NamedRight
    <3>3. CASE i = n
      <4>1. \A y \in PassedBy(n) : Knows(frames[n].locals, y)
        BY <1>4, <2>1, <3>1, <3>3 DEF NamedRight
      <4>2. frames'[n].locals = Extended(frames[n].locals, Up(n).alias, Up(n).file)
        BY <1>6, <1>7, <1>9, <3>1, <3>3 DEF LoopTurned, Known
      <4>3. x \in PassedBy(n) \cup {Up(n)}
        BY <1>9, <2>7, <3>3 DEF LoopTurned
      <4> DEFINE X == PassedBy(n)
                 l == frames[n].locals
                 up == Up(n)
      <4>4. X \subseteq Check!ImportsOf(S \cup {Main}) /\ up \in Check!ImportsOf(S \cup {Main})
            /\ \A y \in X : Knows(l, y)
        BY <2>2, <4>1
      <4> HIDE DEF X, l, up
      <4>5. \A y \in X \cup {up} : Knows(Extended(l, up.alias, up.file), y)
        BY <2>1, <4>4, LocalsLearn
      <4> QED
        BY <3>3, <4>2, <4>3, <4>5 DEF X, l, up
    <3> QED
      BY <3>2, <3>3
  <2>8. ASSUME success', NEW a \in DOMAIN namespaces',
               NEW x \in Check!ImportsOf({namespaces'[a].file})
        PROVE  Knows(namespaces'[a].locals, x)
    <3>1. CASE a = al
      <4>1. x \in PassedBy(n + 1)
        BY <3>1, <1>5, <1>6
      <4>2. success
        BY <1>1, <2>8
      <4> QED
        BY <1>4, <1>6, <2>1, <3>1, <4>1, <4>2 DEF NamedRight
    <3>2. CASE a # al
      BY <1>1, <1>6, <2>1, <2>8, <3>2 DEF NamedRight
    <3> QED
      BY <3>1, <3>2
  <2> QED
    BY <1>1, <2>4, <2>5, <2>6, <2>7, <2>8, NamedRightNext
<1> QED
  BY <1>10, <1>11, <1>12, <1>13, <1>14, <1>15 DEF IInv

(***************************************************************************)
(* Failures.                                                               *)
(***************************************************************************)

\* What CycleIsReal says of one chain.
RealCycle(c) ==
  /\ c[1] \in Check!Targets(Main)
  /\ \A i \in 1..(Len(c) - 1) : c[i+1] \in Check!Targets(c[i])
  /\ \E i \in 1..(Len(c) - 1) : c[i] = c[Len(c)]

(* When the innermost file is not sound, none of the active ones is. *)
LEMMA OuterBlamed ==
  ASSUME TypeOK, StackInv, ReachInv, ~AtTop, ~SoundFrom(Top.file)
  PROVE  \A f \in visiting : ~SoundFrom(f)
<1> SUFFICES ASSUME NEW f \in visiting, SoundFrom(f) PROVE FALSE
  OBVIOUS
<1>1. PICK S \in SUBSET File :
        f \in S /\ (\A g \in S : Check!Targets(g) \subseteq S) /\ Check!Clean(S)
  BY DEF SoundFrom
<1>2. PICK i \in 1..Len(frames) : f = frames[i].file
  BY DEF StackInv
<1>3. Len(frames) \in 1..Len(frames) /\ i <= Len(frames)
  BY TopFacts
<1>4. Closed(S)
  BY <1>1 DEF Closed
<1>5. Top.file \in S
  BY <1>1, <1>2, <1>3, <1>4 DEF ReachInv, Top
<1> QED
  BY <1>1, <1>5 DEF SoundFrom

(* An import of an active file closes a loop, of which no file is sound, and *)
(* the chain of the error is that loop behind the way to it.                 *)
LEMMA CycleBlames ==
  ASSUME TypeOK, StackInv, ReachInv, NEW imp, At(imp), imp.file \in visiting
  PROVE  /\ ~AtTop /\ ~SoundFrom(Top.file)
         /\ Append(ImportStack, imp.file) \in Seq(File)
         /\ RealCycle(Append(ImportStack, imp.file))
<1>1. PICK n \in Nat : n = Len(frames)
  BY FrameFacts
<1>2. PICK k \in 1..n : imp.file = frames[k].file
  BY <1>1 DEF StackInv
<1>3. n # 0 /\ n \in 1..n /\ ~AtTop /\ Top = frames[n] /\ Importer = Top.file /\ Importer = FileAt(n)
  BY <1>1, <1>2, FrameFacts DEF Top, Importer, FileAt
<1>4. imp.file \in Check!Targets(frames[n].file) /\ imp.file \in File
  BY <1>3, ImportAt DEF Import
<1>5. ASSUME NEW m \in 1..n, m # n
      PROVE  m + 1 \in 1..n /\ frames[m + 1].file \in Check!Targets(frames[m].file)
  <2>1. m + 1 \in 1..Len(frames) /\ (m + 1) - 1 = m /\ m \in 0..Len(frames) /\ m # 0
    BY <1>1, <1>5
  <2>2. Up(m).file = frames[m + 1].file /\ PosAt(m) <= Len(program[FileAt(m)])
    BY <2>1 DEF StackInv
  <2>3. Up(m).file \in Check!Targets(FileAt(m))
    BY <2>1, <2>2, PassedIsImported
  <2> QED
    BY <1>1, <2>1, <2>2, <2>3 DEF FileAt
<1>6. ~SoundFrom(Top.file)
  <2> SUFFICES ASSUME NEW S \in SUBSET File, Top.file \in S,
                      \A g \in S : Check!Targets(g) \subseteq S, Check!Clean(S)
               PROVE  FALSE
    BY DEF SoundFrom
  <2> DEFINE C == {frames[m].file : m \in k..n}
  <2>1. frames[k].file \in S /\ Closed(S)
    BY <1>2, <1>3, <1>4 DEF Closed
  <2>2. C \subseteq S
    <3> SUFFICES ASSUME NEW m \in k..n PROVE frames[m].file \in S
      OBVIOUS
    <3>1. k \in 1..Len(frames) /\ m \in 1..Len(frames) /\ k <= m
      BY <1>1
    <3> QED
      BY <2>1, <3>1 DEF ReachInv
  <2>3. C # {}
    BY <1>2
  <2>4. ASSUME NEW m \in k..n PROVE Check!Targets(frames[m].file) \cap C # {}
    <3>1. CASE m = n
      <4>1. frames[k].file \in C
        OBVIOUS
      <4> QED
        BY <3>1, <4>1, <1>2, <1>4
    <3>2. CASE m # n
      <4>1. m \in 1..n /\ m + 1 \in k..n
        BY <3>2
      <4>2. frames[m + 1].file \in C
        BY <4>1
      <4> QED
        BY <3>2, <4>1, <4>2, <1>5
    <3> QED
      BY <3>1, <3>2
  <2>5. Check!SelfFeeding(C)
    BY <2>4 DEF Check!SelfFeeding
  <2> HIDE DEF C
  <2> QED
    BY <2>2, <2>3, <2>5 DEF Check!Clean
<1>7. /\ ImportStack \in Seq(File) /\ Len(ImportStack) = n
      /\ \A i \in 1..n : ImportStack[i] = frames[i].file
  <2>1. ImportStack = [i \in 1..n |-> frames[i].file]
    BY <1>1, FrameFacts, LenProperties DEF ImportStack
  <2>2. \A i \in 1..n : frames[i].file \in File
    BY <1>1, FrameFacts DEF Frame
  <2>3. ImportStack \in [1..n -> File]
    BY <2>1, <2>2
  <2> QED
    BY <2>1, <2>3, LenProperties
<1> DEFINE c == Append(ImportStack, imp.file)
<1>8. /\ c \in Seq(File) /\ Len(c) = n + 1
      /\ \A i \in 1..n : c[i] = frames[i].file
      /\ c[n + 1] = imp.file
  BY <1>4, <1>7, AppendProperties
<1> HIDE DEF c
<1>9. RealCycle(c)
  <2>1. c[1] \in Check!Targets(Main)
    <3>1. 1 \in 1..Len(frames) /\ 1 - 1 = 0 /\ 0 \in 0..Len(frames)
      BY <1>1, <1>3
    <3>2. Up(0).file = frames[1].file /\ PosAt(0) <= Len(program[FileAt(0)])
      BY <3>1 DEF StackInv
    <3>3. Up(0).file \in Check!Targets(FileAt(0))
      BY <3>1, <3>2, PassedIsImported
    <3> QED
      BY <1>1, <1>8, <3>1, <3>2, <3>3 DEF FileAt
  <2>2. ASSUME NEW i \in 1..(Len(c) - 1) PROVE c[i+1] \in Check!Targets(c[i])
    <3>1. i \in 1..n
      BY <1>8
    <3>2. CASE i = n
      BY <3>1, <3>2, <1>4, <1>8
    <3>3. CASE i # n
      BY <3>1, <3>3, <1>5, <1>8
    <3> QED
      BY <3>2, <3>3
  <2>3. \E i \in 1..(Len(c) - 1) : c[i] = c[Len(c)]
    <3>1. k \in 1..(Len(c) - 1) /\ c[k] = c[Len(c)]
      BY <1>2, <1>8
    <3> QED
      BY <3>1
  <2> QED
    BY <2>1, <2>2, <2>3 DEF RealCycle
<1> QED
  BY <1>3, <1>6, <1>8, <1>9 DEF c

\* A failure is somebody's fault: of the import of Main whose turn it is, and of
\* every active file where the aliases agree.
SomeoneToBlame ==
  /\ PosAt(0) <= Len(program[Main])
  /\ AtTop => ~SoundFrom(Up(0).file)
  /\ \A S \in SUBSET File : Check!Covers(S) /\ Check!Consistent(S) =>
       \A f \in visiting : ~SoundFrom(f)

(* When there are active calls, Main's loop stands at the outermost one. *)
LEMMA OutermostImport ==
  ASSUME TypeOK, StackInv, ~AtTop
  PROVE  PosAt(0) <= Len(program[Main]) /\ Up(0).file \in visiting
<1>1. 1 \in 1..Len(frames) /\ 1 - 1 = 0
  BY TopFacts
<1>2. PosAt(0) <= Len(program[FileAt(0)]) /\ Up(0).file = frames[1].file
  BY <1>1 DEF StackInv
<1> QED
  BY <1>1, <1>2 DEF StackInv, FileAt

(* A failure returns out of every active call. *)
LEMMA FailPreserves ==
  ASSUME IInv, NEW kind \in Kinds, NEW chain \in Seq(File), Fail(kind, chain),
         verdict = "pending", SomeoneToBlame, kind = "cycle" => RealCycle(chain)
  PROVE  IInv'
<1> DEFINE e == [kind |-> kind, chain |-> chain]
<1>1. /\ TypeOK /\ StackInv /\ ReachInv /\ PassedInv /\ NameInv /\ CycleIsReal /\ DependenciesFirst
      /\ UNCHANGED <<inputs, namespaces>>
      /\ errors' = Append(errors, e) /\ frames' = << >>
      /\ visited' = visited \cup visiting /\ visiting' = {}
      /\ next' = next + 1 /\ success' = FALSE
      /\ verdict' \in {"failed", verdict}
  BY DEF IInv, Fail
<1>2. program' = program /\ namespaces' = namespaces /\ Len(frames') = 0
  BY <1>1, InputsStay, EmptySeq
<1>3. e \in [kind : Kinds, chain : Seq(File)] /\ e.kind = kind /\ e.chain = chain
  OBVIOUS
<1> HIDE DEF e
<1>4. /\ errors' \in Seq([kind : Kinds, chain : Seq(File)])
      /\ \A x \in SetOf(errors') : x \in SetOf(errors) \/ x = e
      /\ errors' # << >>
  <2>1. errors \in Seq([kind : Kinds, chain : Seq(File)])
    BY <1>1 DEF TypeOK
  <2>2. /\ errors' \in Seq([kind : Kinds, chain : Seq(File)])
        /\ Len(errors) \in Nat /\ Len(errors') = Len(errors) + 1
        /\ \A i \in 1..Len(errors) : errors'[i] = errors[i]
        /\ errors'[Len(errors) + 1] = e
    BY <1>1, <1>3, <2>1, AppendProperties, LenProperties
  <2>3. DOMAIN errors' = 1..(Len(errors) + 1) /\ DOMAIN errors = 1..Len(errors)
    BY <2>1, <2>2, LenProperties
  <2>4. ASSUME NEW i \in 1..(Len(errors) + 1) PROVE errors'[i] \in SetOf(errors) \/ errors'[i] = e
    <3>1. i \in 1..Len(errors) \/ i = Len(errors) + 1
      BY <2>2
    <3> QED
      BY <2>2, <2>3, <3>1 DEF SetOf
  <2>5. errors' # << >>
    BY <2>2, EmptySeq
  <2> QED
    BY <2>2, <2>3, <2>4, <2>5 DEF SetOf
<1>5. next \in Nat \ {0} /\ FileAt(0) = Main /\ PosAt(0) = next
      /\ FileAt(0)' = Main /\ PosAt(0)' = next + 1
  BY <1>1 DEF TypeOK, FileAt, PosAt
<1>6. PassedBy(0)' = PassedBy(0) \cup {Up(0)}
  BY <1>2, <1>5, PassedGrows
<1>7. TypeOK'
  <2>1. << >> \in Seq(Frame)
    BY EmptySeq
  <2>2. next' \in Nat \ {0} /\ visited' \in SUBSET File /\ visiting' \in SUBSET File
        /\ verdict' \in Verdicts
    BY <1>1, <1>5 DEF TypeOK, Verdicts
  <2> QED
    BY <1>1, <1>4, <2>1, <2>2, InputsStay DEF TypeOK, Frame, Locals
<1>8. StackInv'
  <2>1. PosAt(0)' <= Len(program'[FileAt(0)']) + 1
    <3>1. Len(program[Main]) \in Nat
      BY <1>1, SectionFacts, ImportsAssumption
    <3> QED
      BY <3>1, <1>2, <1>5 DEF SomeoneToBlame
  <2>2. \A i \in 0..Len(frames') : i = 0
    BY <1>2
  <2> QED
    BY <1>1, <1>2, <2>1, <2>2 DEF StackInv, AtTop
<1>9. ReachInv'
  BY <1>2 DEF ReachInv
<1>10. PassedInv'
  <2>1. Up(0).file \in visited' \/ ~SoundFrom(Up(0).file)
    BY <1>1, OutermostImport DEF SomeoneToBlame
  <2>2. ASSUME NEW x \in PassedBy(0)' PROVE x.file \in visited' \/ (~success' /\ ~SoundFrom(x.file)')
    <3>1. x.file \in visited' \/ ~SoundFrom(x.file)
      BY <1>1, <1>6, <2>1 DEF PassedInv
    <3> QED
      BY <3>1, <1>1, InputsStay
  <2> QED
    BY <1>2, <2>2 DEF PassedInv
<1>11. CleanInv'
  BY <1>1, <1>4 DEF CleanInv
<1>12. FailureInv'
  <2> SUFFICES ASSUME NEW S \in SUBSET File,
                      Check!Covers(S)', Check!Clean(S)', Check!Consistent(S)'
               PROVE  FALSE
    BY DEF FailureInv
  <2>1. Check!Covers(S) /\ Check!Clean(S) /\ Check!Consistent(S)
    BY <1>1, InputsStay
  <2>2. \A f \in S : SoundFrom(f)
    BY <2>1, CoveredIsClosed, SoundWithin
  <2>3. Up(0).file \in S
    <3>1. 0 \in 0..Len(frames) /\ PosAt(0) <= Len(program[FileAt(0)])
      BY <1>1, <1>5, FrameFacts DEF SomeoneToBlame
    <3>2. Up(0).file \in Check!Targets(Main)
      BY <1>1, <1>5, <3>1, PassedIsImported
    <3> QED
      BY <2>1, <3>2, CoveredIsClosed
  <2> QED
    BY <1>1, <2>1, <2>2, <2>3, OutermostImport DEF SomeoneToBlame
<1>13. NameInv'
  <2> SUFFICES ASSUME NEW S \in SUBSET File, Check!Covers(S)', Check!Consistent(S)'
               PROVE  NamedRight(S)'
    BY DEF NameInv
  <2>1. Check!Covers(S) /\ Check!Consistent(S) /\ NamedRight(S)
    BY <1>1, InputsStay DEF NameInv
  <2>2. visiting' \cup visited' \subseteq S
    BY <1>1, <2>1 DEF NamedRight
  <2>3. \A a \in DOMAIN namespaces' :
          [alias |-> a, file |-> namespaces'[a].file] \in Check!ImportsOf(S \cup {Main})
    BY <1>2, <2>1 DEF NamedRight
  <2>4. \A f \in visited' : SoundFrom(f) => \E a \in DOMAIN namespaces' : namespaces'[a].file = f
    BY <1>1, <1>2, <2>1 DEF NamedRight, SomeoneToBlame
  <2> QED
    BY <1>1, <2>2, <2>3, <2>4, NamedRightNext
<1>14. CycleIsReal'
  <2> SUFFICES ASSUME NEW x \in SetOf(errors'), x.kind = "cycle"
               PROVE  RealCycle(x.chain)
    BY <1>1, InputsStay DEF CycleIsReal, RealCycle
  <2>1. CASE x = e
    BY <2>1, <1>3
  <2>2. CASE x \in SetOf(errors)
    BY <2>2, <1>1 DEF CycleIsReal, RealCycle
  <2> QED
    BY <2>1, <2>2, <1>4
<1>15. DependenciesFirst'
  BY <1>1, <1>2, InputsStay DEF DependenciesFirst, Check!Targets
<1> QED
  BY <1>7, <1>8, <1>9, <1>10, <1>11, <1>12, <1>13, <1>14, <1>15 DEF IInv

(* The ways to fail. *)
Refuse(imp) == RefuseAbsent(imp) \/ RefuseCycle(imp) \/ RefuseUnreadable(imp)

(* An import that cannot be resolved is the fault of the file that asks for *)
(* it: of its own health, of the loop it closes, or, when a file done       *)
(* before has no namespace, of what made that file fail.                    *)
LEMMA RefusePreserves ==
  ASSUME IInv, NEW imp, Refuse(imp)
  PROVE  IInv'
<1>1. /\ TypeOK /\ StackInv /\ ReachInv /\ NameInv /\ At(imp)
      /\ verdict = "pending" /\ imp.file \in Check!Targets(Importer) /\ imp \in Import
  BY ImportAt DEF IInv, Refuse, RefuseAbsent, RefuseCycle, RefuseUnreadable
<1>2. imp = Up(Len(frames)) /\ Importer = FileAt(Len(frames)) /\ PosAt(Len(frames)) <= Len(program[Importer])
  <2>1. PosAt(Len(frames)) \in 1..Len(program[Importer])
    BY <1>1, ImportAt
  <2> QED
    BY <1>1, <2>1, ImportAt
<1>3. AtTop => Importer = Main /\ imp = Up(0) /\ PosAt(0) <= Len(program[Main])
  <2> SUFFICES ASSUME AtTop PROVE Importer = Main /\ imp = Up(0) /\ PosAt(0) <= Len(program[Main])
    OBVIOUS
  <2>1. Len(frames) = 0
    BY <1>1, FrameFacts
  <2> QED
    BY <1>2, <2>1 DEF FileAt
<1>4. PosAt(0) <= Len(program[Main])
  BY <1>1, <1>3, OutermostImport
<1>5. << >> \in Seq(File)
  BY EmptySeq
<1>6. SUFFICES ASSUME ~AtTop => ~SoundFrom(Top.file) \/ RefuseAbsent(imp),
                      AtTop => ~SoundFrom(imp.file)
               PROVE  SomeoneToBlame
  <2>1. CASE RefuseAbsent(imp)
    <3>1. Fail("absent", << >>) /\ ~AtTop
      BY <2>1 DEF RefuseAbsent
    <3>2. SomeoneToBlame
      BY <2>1, <3>1, <1>6
    <3> QED
      BY <1>1, <1>5, <3>1, <3>2, FailPreserves DEF Kinds
  <2>2. CASE RefuseCycle(imp)
    <3>1. Fail("cycle", Append(ImportStack, imp.file)) /\ imp.file \in visiting
      BY <2>2 DEF RefuseCycle
    <3>2. /\ ~AtTop /\ ~SoundFrom(Top.file)
          /\ Append(ImportStack, imp.file) \in Seq(File) /\ RealCycle(Append(ImportStack, imp.file))
      BY <1>1, <3>1, CycleBlames
    <3>3. SomeoneToBlame
      BY <3>2, <1>6
    <3> QED
      BY <1>1, <3>1, <3>2, <3>3, FailPreserves DEF Kinds
  <2>3. CASE RefuseUnreadable(imp)
    <3>1. Fail("unreadable", << >>) /\ ~SoundFrom(imp.file)
      BY <2>3, SoundFromFacts DEF RefuseUnreadable
    <3>2. ~AtTop => ~SoundFrom(Top.file)
      BY <1>1, <3>1, SoundFromFacts DEF Importer
    <3>3. SomeoneToBlame
      BY <3>1, <3>2, <1>6
    <3> QED
      BY <1>1, <1>5, <3>1, <3>3, FailPreserves DEF Kinds
  <2> QED
    BY <2>1, <2>2, <2>3 DEF Refuse
<1>7. AtTop => ~SoundFrom(Up(0).file)
  BY <1>3, <1>6
<1>8. ASSUME NEW S \in SUBSET File, Check!Covers(S), Check!Consistent(S), NEW f \in visiting
      PROVE  ~SoundFrom(f)
  <2>1. NamedRight(S) /\ ~AtTop
    <3>1. ~AtTop
      BY <1>1, <1>8, FrameFacts DEF StackInv
    <3> QED
      BY <1>1, <1>8, <3>1 DEF NameInv
  <2>2. ~SoundFrom(Top.file)
    <3>1. CASE RefuseAbsent(imp)
      <4> SUFFICES ASSUME SoundFrom(Top.file) PROVE FALSE
        OBVIOUS
      <4>1. SoundFrom(imp.file) /\ imp.file \in visited /\ ~Known(namespaces, imp.alias)
        BY <1>1, <2>1, <3>1, SoundFromFacts DEF Importer, RefuseAbsent
      <4>2. Len(frames) \in 0..Len(frames)
        BY <1>1, FrameFacts
      <4>3. imp \in Check!ImportsOf(S \cup {Main})
        BY <1>1, <1>2, <1>8, <2>1, <4>2, PassedIsImported, LoopsWithin
      <4> QED
        BY <1>8, <2>1, <4>1, <4>3, RegisteredRight
    <3> QED
      BY <2>1, <3>1, <1>6
  <2> QED
    BY <1>1, <2>1, <2>2, OuterBlamed
<1> QED
  BY <1>4, <1>7, <1>8 DEF SomeoneToBlame

(* A file fails its analysis on its own, or because a namespace it was given *)
(* is not the one it asked for: then an import of its own has failed.        *)
LEMMA RejectPreserves ==
  ASSUME IInv, RejectFile
  PROVE  IInv'
<1>1. /\ TypeOK /\ StackInv /\ ReachInv /\ PassedInv /\ NameInv /\ Analyzing /\ ~AtTop
      /\ Fail("unsound", << >>)
  BY DEF IInv, RejectFile, Analyzing
<1>2. PICK n \in Nat \ {0} : n = Len(frames)
  BY <1>1, TopFacts
<1>3. /\ verdict = "pending" /\ Top.file \in File /\ FileAt(n) = Top.file
      /\ Check!Targets(Top.file) \subseteq visited
      /\ n \in 0..Len(frames)
  BY <1>1, <1>2, AtTheEnd
<1>4. ASSUME NEW S \in SUBSET File, Check!Covers(S), Check!Consistent(S), SoundFrom(Top.file)
      PROVE  FALSE
  <2>1. ~SeededAsWritten(Top.file)
    BY <1>4, SoundFromFacts DEF RejectFile
  <2>2. PICK i \in DOMAIN program[Top.file] :
          LET imp == program[Top.file][i] IN
          ~(Known(namespaces, imp.alias) /\ namespaces[imp.alias].file = imp.file)
    BY <2>1 DEF SeededAsWritten
  <2> DEFINE imp == program[Top.file][i]
  <2>3. i \in 1..Len(program[Top.file]) /\ imp.file \in Check!Targets(Top.file)
    BY <1>3, <1>1, <2>2, SectionFacts
  <2>4. imp \in Check!ImportsOf({Top.file})
    <3>1. {Top.file} \in SUBSET File
      BY <1>3
    <3> QED
      BY <1>1, <2>3, <3>1, ImportsOfFacts
  <2>5. NamedRight(S)
    BY <1>1, <1>4 DEF NameInv
  <2>6. imp \in Check!ImportsOf(S \cup {Main})
    BY <1>1, <1>3, <1>4, <2>4, <2>5, LoopsWithin
  <2>7. imp.file \in visited /\ SoundFrom(imp.file)
    BY <1>3, <1>4, <2>3, SoundFromFacts
  <2> QED
    BY <1>4, <2>2, <2>5, <2>6, <2>7, RegisteredRight
<1>5. SomeoneToBlame
  BY <1>1, <1>4, OutermostImport, OuterBlamed DEF SomeoneToBlame
<1>6. << >> \in Seq(File)
  BY EmptySeq
<1> QED
  BY <1>1, <1>3, <1>5, <1>6, FailPreserves DEF Kinds

(* NameInv is about the tables alone. *)
LEMMA NamesStay ==
  ASSUME IInv, UNCHANGED <<inputs, next, frames, visiting, visited, namespaces, success>>
  PROVE  NameInv'
<1> SUFFICES ASSUME NEW S \in SUBSET File, Check!Covers(S)', Check!Consistent(S)'
             PROVE  NamedRight(S)'
  BY DEF NameInv
<1>1. NamedRight(S)
  BY InputsStay DEF IInv, NameInv
<1>2. \A i \in 1..Len(frames) : PassedBy(i)' = PassedBy(i)
  BY InputsStay DEF PassedBy, FileAt, PosAt
<1>3. success' => \A i \in 1..Len(frames') : \A imp \in PassedBy(i)' : Knows(frames'[i].locals, imp)
  BY <1>1, <1>2 DEF NamedRight
<1>4. \A a \in DOMAIN namespaces' :
        [alias |-> a, file |-> namespaces'[a].file] \in Check!ImportsOf(S \cup {Main})
  BY <1>1 DEF NamedRight
<1>5. \A f \in visited' : SoundFrom(f) => \E a \in DOMAIN namespaces' : namespaces'[a].file = f
  BY <1>1 DEF NamedRight
<1>6. success' => \A a \in DOMAIN namespaces' : \A imp \in Check!ImportsOf({namespaces'[a].file}) :
                    Knows(namespaces'[a].locals, imp)
  BY <1>1 DEF NamedRight
<1>7. visiting' \cup visited' \subseteq S
  BY <1>1 DEF NamedRight
<1> QED
  BY <1>3, <1>4, <1>5, <1>6, <1>7, NamedRightNext

(* The resolver answers when no loop is under way. *)
LEMMA FinishPreserves ==
  ASSUME IInv, Finish
  PROVE  IInv'
<1>1. /\ TypeOK /\ StackInv /\ ReachInv /\ PassedInv /\ CleanInv /\ FailureInv /\ NameInv
      /\ CycleIsReal /\ DependenciesFirst
      /\ frames = << >> /\ verdict' \in Verdicts
      /\ UNCHANGED <<inputs, next, frames, visiting, visited, namespaces, errors, success>>
  BY DEF IInv, Finish, AtTop, Verdicts
<1>2. program' = program /\ frames' = frames
  BY <1>1, InputsStay
<1>3. TypeOK'
  BY <1>1, InputsStay DEF TypeOK
<1>4. StackInv'
  BY <1>1, <1>2 DEF StackInv, AtTop, FileAt, PosAt, Up
<1>5. ReachInv'
  BY <1>1, InputsStay DEF ReachInv
<1>6. PassedInv'
  BY <1>1, <1>2, InputsStay DEF PassedInv, PassedBy, FileAt, PosAt
<1>7. CleanInv' /\ FailureInv' /\ CycleIsReal' /\ DependenciesFirst'
  BY <1>1, InputsStay DEF CleanInv, FailureInv, CycleIsReal, DependenciesFirst
<1>8. NameInv'
  BY <1>1, NamesStay
<1> QED
  BY <1>3, <1>4, <1>5, <1>6, <1>7, <1>8 DEF IInv

(* Nothing has been done yet. *)
LEMMA InitIInv == Init => IInv
<1> SUFFICES ASSUME Init PROVE IInv
  OBVIOUS
<1> USE DEF Init
<1>1. TypeOK
  <2>1. << >> \in Seq([file : File, alias : Alias, next : Nat \ {0},
                       locals : UNION {[D -> File] : D \in SUBSET Alias}])
        /\ << >> \in Seq([kind : Kinds, chain : Seq(File)])
    BY EmptySeq
  <2>2. DOMAIN namespaces = {}
    OBVIOUS
  <2> QED
    BY <2>1, <2>2 DEF TypeOK, Verdicts
<1>2. Len(frames) = 0 /\ PosAt(0) = 1 /\ FileAt(0) = Main /\ PassedBy(0) = {} /\ DOMAIN namespaces = {}
  BY EmptySeq DEF PosAt, FileAt, PassedBy
<1>3. Len(program[Main]) \in Nat
  BY <1>1, SectionFacts, ImportsAssumption
<1>4. StackInv
  <2>1. \A i \in 0..Len(frames) : i = 0
    BY <1>2
  <2> QED
    BY <1>2, <1>3, <2>1 DEF StackInv
<1>5. ReachInv /\ PassedInv
  BY <1>2 DEF ReachInv, PassedInv
<1>6. CleanInv /\ FailureInv
  BY DEF CleanInv, FailureInv, Closed, Check!Clean
<1>7. NameInv
  BY <1>2 DEF NameInv, NamedRight
<1>8. CycleIsReal
  BY DEF CycleIsReal, SetOf
<1>9. DependenciesFirst
  BY <1>2 DEF DependenciesFirst
<1> QED
  BY <1>1, <1>4, <1>5, <1>6, <1>7, <1>8, <1>9 DEF IInv

(* Every step keeps the invariant. *)
LEMMA NextIInv == IInv /\ [Next]_vars => IInv'
<1> SUFFICES ASSUME IInv, [Next]_vars PROVE IInv'
  OBVIOUS
<1>1. ASSUME NEW imp, Step(imp) PROVE IInv'
  <2>1. CASE ReuseNamespace(imp)
    BY <2>1, PassOverPreserves DEF ReuseNamespace
  <2>2. CASE SkipResolved(imp)
    BY <2>2, PassOverPreserves DEF SkipResolved
  <2>3. CASE EnterFile(imp)
    BY <2>3, EnterFilePreserves
  <2>4. CASE Refuse(imp)
    BY <2>4, RefusePreserves
  <2> QED
    BY <1>1, <2>1, <2>2, <2>3, <2>4 DEF Step, Refuse
<1>2. CASE RegisterNamespace
  BY <1>2, RegisterPreserves
<1>3. CASE RejectFile
  BY <1>3, RejectPreserves
<1>4. CASE Finish
  BY <1>4, FinishPreserves
<1>5. CASE UNCHANGED vars
  <2>1. /\ UNCHANGED inputs /\ next' = next /\ frames' = frames /\ visiting' = visiting
        /\ visited' = visited /\ namespaces' = namespaces /\ errors' = errors
        /\ success' = success /\ verdict' = verdict
        /\ program' = program
    BY <1>5 DEF vars, inputs
  <2>2. TypeOK' /\ StackInv'
    BY <2>1, InputsStay DEF IInv, TypeOK, StackInv, AtTop, Up, FileAt, PosAt
  <2>3. ReachInv' /\ PassedInv'
    BY <2>1, InputsStay DEF IInv, ReachInv, PassedInv, PassedBy, FileAt, PosAt
  <2>4. NameInv'
    BY <2>1, NamesStay
  <2>5. CleanInv' /\ FailureInv' /\ CycleIsReal' /\ DependenciesFirst'
    BY <2>1, InputsStay, QuietStep
  <2> QED
    BY <2>2, <2>3, <2>4, <2>5 DEF IInv
<1> QED
  BY <1>1, <1>2, <1>3, <1>4, <1>5 DEF Next

-----------------------------------------------------------------------------
(* The invariant holds for ever. *)
LEMMA Invariance == Spec => []IInv
BY InitIInv, NextIInv, PTL DEF Spec

(* The types of the resolver's variables. *)
THEOREM TypeCorrect == Spec => []TypeOK
<1>1. IInv => TypeOK
  BY DEF IInv
<1> QED
  BY <1>1, Invariance, PTL

(* The chain of a CircularDependency error is a real cycle. *)
THEOREM CyclesAreReal == Spec => []CycleIsReal
<1>1. IInv => CycleIsReal
  BY DEF IInv
<1> QED
  BY <1>1, Invariance, PTL

(* A file becomes a namespace only when all it imports has been resolved. *)
THEOREM DependenciesComeFirst == Spec => []DependenciesFirst
<1>1. IInv => DependenciesFirst
  BY DEF IInv
<1> QED
  BY <1>1, Invariance, PTL

-----------------------------------------------------------------------------
\* An answer other than a halt is given when Main's loop is over.
VerdictInv ==
  /\ verdict = "resolved" => success
  /\ verdict # "pending" /\ (verdict = "resolved" \/ strategy = "carry_on") =>
       next > Len(program[Main])

(* The answer stands. *)
LEMMA VerdictIsKept == IInv /\ VerdictInv /\ [Next]_vars => VerdictInv'
<1> SUFFICES ASSUME IInv, VerdictInv, [Next]_vars PROVE VerdictInv'
  OBVIOUS
<1>1. ASSUME verdict = "pending", UNCHANGED <<inputs, verdict>> PROVE VerdictInv'
  BY <1>1, InputsStay DEF VerdictInv
<1>2. ASSUME verdict = "pending", NEW kind, NEW chain, Fail(kind, chain) PROVE VerdictInv'
  BY <1>2, InputsStay DEF Fail, VerdictInv, IInv, TypeOK, Strategies
<1>3. ASSUME NEW imp, Step(imp) PROVE VerdictInv'
  <2>1. verdict = "pending"
    BY <1>3 DEF Step, ReuseNamespace, RefuseAbsent, RefuseCycle, RefuseUnreadable, SkipResolved,
                EnterFile, At
  <2>2. CASE ReuseNamespace(imp) \/ SkipResolved(imp) \/ EnterFile(imp)
    <3>1. UNCHANGED <<inputs, verdict>>
      BY <2>2 DEF ReuseNamespace, SkipResolved, EnterFile, PassOver
    <3> QED
      BY <2>1, <3>1, <1>1
  <2>3. CASE RefuseAbsent(imp) \/ RefuseCycle(imp) \/ RefuseUnreadable(imp)
    BY <2>1, <2>3, <1>2 DEF RefuseAbsent, RefuseCycle, RefuseUnreadable
  <2> QED
    BY <1>3, <2>2, <2>3 DEF Step
<1>4. CASE RegisterNamespace
  <2>1. verdict = "pending" /\ UNCHANGED <<inputs, verdict>>
    BY <1>4 DEF RegisterNamespace, Analyzing, IInv, StackInv
  <2> QED
    BY <2>1, <1>1
<1>5. CASE RejectFile
  <2>1. verdict = "pending" /\ Fail("unsound", << >>)
    BY <1>5 DEF RejectFile, Analyzing, IInv, StackInv
  <2> QED
    BY <2>1, <1>2
<1>6. CASE Finish
  BY <1>6, InputsStay DEF Finish, VerdictInv
<1>7. CASE UNCHANGED vars
  BY <1>7, InputsStay DEF vars, VerdictInv
<1> QED
  BY <1>3, <1>4, <1>5, <1>6, <1>7 DEF Next

(* The invariant and the meaning of the answer. *)
LEMMA AnswerInvariance == Spec => [](IInv /\ VerdictInv)
<1>1. Init => VerdictInv
  BY DEF Init, VerdictInv
<1> QED
  BY <1>1, InitIInv, NextIInv, VerdictIsKept, PTL DEF Spec

(* Main's loop over: each of its imports is done, or failed and is not sound. *)
LEMMA MainIsThrough ==
  ASSUME IInv, next > Len(program[Main]), NEW imp \in Check!ImportsOf({Main})
  PROVE  imp.file \in visited \/ (~success /\ ~SoundFrom(imp.file))
<1>1. TypeOK /\ StackInv /\ PassedInv
  BY DEF IInv
<1>2. 0 \in 0..Len(frames) /\ PosAt(0) = next /\ FileAt(0) = Main
  BY <1>1, FrameFacts DEF PosAt, FileAt
<1>3. imp \in PassedBy(0)
  BY <1>1, <1>2, PassedIsImported
<1> QED
  BY <1>1, <1>3 DEF PassedInv

(* Where all files agree on their aliases, NameInv speaks of all files. *)
LEMMA AllFilesNamed ==
  ASSUME IInv, Check!Consistent(File)
  PROVE  NamedRight(File) /\ File \cup {Main} = File
<1>1. TypeOK /\ NameInv
  BY DEF IInv
<1>2. ASSUME NEW f \in File, NEW g \in Check!Targets(f) PROVE g \in File
  <2>1. PICK j \in 1..Len(program[f]) : g = program[f][j].file
    BY <1>1, SectionFacts
  <2> QED
    BY <1>1, <2>1, SectionFacts DEF Import
<1>3. Check!Covers(File)
  BY <1>2, ImportsAssumption DEF Check!Covers
<1> QED
  BY <1>1, <1>3, ImportsAssumption DEF NameInv

(* When all files agree on their aliases, a resolved main file, and every   *)
(* file it depends on, sees under each alias the file it named.             *)
THEOREM AliasesMeanFiles == Spec => []NamesMeanFiles
<1>1. IInv /\ VerdictInv => NamesMeanFiles
  <2> SUFFICES ASSUME IInv, VerdictInv, verdict = "resolved", Check!Consistent(File)
               PROVE  /\ SeededAsWritten(Main)
                      /\ \A a \in DOMAIN namespaces :
                           LET ns == namespaces[a] IN
                           \A imp \in Check!ImportsOf({ns.file}) :
                             Known(ns.locals, imp.alias) /\ ns.locals[imp.alias] = imp.file
    BY DEF NamesMeanFiles
  <2>1. TypeOK /\ CleanInv /\ success /\ next > Len(program[Main])
    BY DEF IInv, VerdictInv
  <2>2. NamedRight(File) /\ File \cup {Main} = File
    BY AllFilesNamed
  <2>3. ASSUME NEW i \in DOMAIN program[Main]
        PROVE  LET imp == program[Main][i] IN
               Known(namespaces, imp.alias) /\ namespaces[imp.alias].file = imp.file
    <3> DEFINE imp == program[Main][i]
    <3>1. imp \in Check!ImportsOf({Main}) /\ imp \in Check!ImportsOf(File)
      BY ImportsAssumption DEF Check!ImportsOf
    <3>2. imp.file \in visited
      BY <2>1, <3>1, MainIsThrough
    <3>3. SoundFrom(imp.file)
      BY <2>1, <3>2, SoundWithin DEF CleanInv, TypeOK
    <3> HIDE DEF imp
    <3>4. Known(namespaces, imp.alias) /\ namespaces[imp.alias].file = imp.file
      BY <2>2, <3>1, <3>2, <3>3, RegisteredRight
    <3> QED
      BY <3>4 DEF imp
  <2>4. SeededAsWritten(Main)
    BY <2>3 DEF SeededAsWritten
  <2> QED
    BY <2>1, <2>2, <2>4 DEF NamedRight, Knows
<1> QED
  BY <1>1, AnswerInvariance, PTL

(* Under Continue and Recover the sound imports of the main file are        *)
(* registered whatever happens to the others.                               *)
THEOREM SoundOnesSurvive == Spec => []SoundImportsSurvive
<1>1. IInv /\ VerdictInv => SoundImportsSurvive
  <2> SUFFICES ASSUME IInv, VerdictInv, strategy = "carry_on", verdict # "pending",
                      Check!Consistent(File),
                      NEW imp \in Check!ImportsOf({Main}), SoundFrom(imp.file)
               PROVE  Registered(imp)
    BY DEF SoundImportsSurvive
  <2>1. next > Len(program[Main])
    BY DEF VerdictInv
  <2>2. imp.file \in visited
    BY <2>1, MainIsThrough
  <2>3. NamedRight(File) /\ File \cup {Main} = File
    BY AllFilesNamed
  <2>4. imp \in Check!ImportsOf(File)
    BY ImportsAssumption DEF Check!ImportsOf
  <2>5. Known(namespaces, imp.alias) /\ namespaces[imp.alias].file = imp.file
    BY <2>2, <2>3, <2>4, RegisteredRight
  <2> QED
    BY <2>5 DEF Registered, Known
<1> QED
  BY <1>1, AnswerInvariance, PTL

(***************************************************************************)
(* The resolver implements ImportCheck.                                    *)
(***************************************************************************)

(* "resolved" is the answer for a program without a fault. *)
LEMMA ResolvedIsRight ==
  ASSUME IInv, success, next > Len(program[Main])
  PROVE  \E S \in SUBSET File : Check!Covers(S) /\ Check!Clean(S)
<1>1. TypeOK /\ Closed(visited) /\ Check!Clean(visited) /\ visited \in SUBSET File
  BY DEF IInv, CleanInv, TypeOK
<1>2. Check!Targets(Main) \subseteq visited
  <2> SUFFICES ASSUME NEW i \in DOMAIN program[Main] PROVE program[Main][i].file \in visited
    BY DEF Check!Targets
  <2>1. program[Main][i] \in Check!ImportsOf({Main})
    BY DEF Check!ImportsOf
  <2> QED
    BY <2>1, MainIsThrough
<1>3. Check!Covers(visited)
  BY <1>1, <1>2 DEF Check!Covers, Closed
<1> QED
  BY <1>1, <1>3

(* Each step is an answer of ImportCheck's, or none. *)
LEMMA StepImplements == IInv /\ [Next]_vars => [Check!Answer]_<<program, health, verdict>>
<1> SUFFICES ASSUME IInv, [Next]_vars PROVE [Check!Answer]_<<program, health, verdict>>
  OBVIOUS
<1>0. IInv'
  BY NextIInv
<1>1. CASE Finish
  <2>1. /\ verdict = "pending" /\ next > Len(program[Main]) /\ UNCHANGED <<program, health>>
        /\ verdict' = IF success /\ (strategy = "halt" => errors = << >>)
                      THEN "resolved" ELSE "failed"
    BY <1>1, InputsStay DEF Finish
  <2>2. CASE success
    <3>1. errors = << >>
      BY <2>2 DEF IInv, CleanInv
    <3> QED
      BY <2>1, <2>2, <3>1, ResolvedIsRight DEF Check!Answer
  <2>3. CASE ~success
    <3>1. ~\E S \in SUBSET File : Check!Covers(S) /\ Check!Clean(S) /\ Check!Consistent(S)
      BY <2>3 DEF IInv, FailureInv
    <3> QED
      BY <2>1, <2>3, <3>1 DEF Check!Answer
  <2> QED
    BY <2>2, <2>3
<1>2. ASSUME verdict = "pending", NEW kind, NEW chain, Fail(kind, chain)
      PROVE  [Check!Answer]_<<program, health, verdict>>
  <2>1. UNCHANGED inputs /\ success' = FALSE /\ verdict' \in {"failed", verdict}
    BY <1>2 DEF Fail
  <2>2. ~\E S \in SUBSET File : Check!Covers(S) /\ Check!Clean(S) /\ Check!Consistent(S)
    BY <1>0, <2>1, InputsStay DEF IInv, FailureInv
  <2> QED
    BY <1>2, <2>1, <2>2, InputsStay DEF Check!Answer
<1>3. ASSUME UNCHANGED <<inputs, verdict>> PROVE [Check!Answer]_<<program, health, verdict>>
  BY <1>3, InputsStay
<1>4. ASSUME NEW imp, Step(imp) PROVE [Check!Answer]_<<program, health, verdict>>
  <2>1. CASE ReuseNamespace(imp) \/ SkipResolved(imp) \/ EnterFile(imp)
    BY <2>1, <1>3 DEF ReuseNamespace, SkipResolved, EnterFile, PassOver
  <2>2. CASE RefuseAbsent(imp) \/ RefuseCycle(imp) \/ RefuseUnreadable(imp)
    BY <2>2, <1>2 DEF RefuseAbsent, RefuseCycle, RefuseUnreadable, At
  <2> QED
    BY <1>4, <2>1, <2>2 DEF Step
<1>5. CASE RegisterNamespace
  BY <1>5, <1>3 DEF RegisterNamespace
<1>6. CASE RejectFile
  BY <1>6, <1>2 DEF RejectFile, Analyzing, IInv, StackInv
<1>7. CASE UNCHANGED vars
  BY <1>7, <1>3 DEF vars
<1> QED
  BY <1>1, <1>4, <1>5, <1>6, <1>7 DEF Next

(* The resolver accepts only programs without a faulty file or an import    *)
(* cycle, and refuses only those with one or with an alias that does not    *)
(* mean the same file everywhere.                                           *)
THEOREM ResolverImplementsCheck == Spec => ImplementsCheck
<1>1. Init => verdict = "pending"
  BY DEF Init
<1> QED
  BY <1>1, InitIInv, NextIInv, StepImplements, PTL DEF Spec, ImplementsCheck, Check!Spec

-----------------------------------------------------------------------------
(***************************************************************************)
(* Every step brings the answer closer.                                    *)
(***************************************************************************)

(* The positions of the loops, Main's first. *)
LEMMA PositionsOf ==
  ASSUME NEW fs \in Seq(Frame), NEW nx \in Nat
  PROVE  LET P == <<nx>> \o [i \in DOMAIN fs |-> fs[i].next] IN
         /\ DOMAIN P = 1..(Len(fs) + 1) /\ Len(fs) \in Nat
         /\ \A i \in 1..(Len(fs) + 1) : P[i] = IF i = 1 THEN nx ELSE fs[i - 1].next
<1> DEFINE q == [i \in DOMAIN fs |-> fs[i].next]
           P == <<nx>> \o q
           n == Len(fs)
<1>1. n \in Nat /\ DOMAIN fs = 1..n /\ \A i \in 1..n : fs[i].next \in Nat
  <2>1. \A i \in 1..n : fs[i] \in Frame
    BY ElementOfSeq
  <2> QED
    BY <2>1, LenProperties DEF Frame
<1>2. q \in [1..n -> Nat] /\ \A i \in 1..n : q[i] = fs[i].next
  BY <1>1
<1> HIDE DEF q, n
<1>3. q \in Seq(Nat) /\ Len(q) = n
  BY <1>1, <1>2, LenProperties, SeqDef
<1>4. <<nx>> \in Seq(Nat) /\ Len(<<nx>>) = 1 /\ <<nx>>[1] = nx
  OBVIOUS
<1>5. /\ P \in Seq(Nat) /\ Len(P) = Len(<<nx>>) + Len(q)
      /\ \A i \in 1..(Len(<<nx>>) + Len(q)) :
           P[i] = IF i <= Len(<<nx>>) THEN <<nx>>[i] ELSE q[i - Len(<<nx>>)]
  BY <1>3, <1>4, ConcatProperties
<1> HIDE DEF P
<1>6. DOMAIN P = 1..(n + 1)
  BY <1>1, <1>3, <1>4, <1>5, LenProperties
<1>7. ASSUME NEW i \in 1..(n + 1) PROVE P[i] = IF i = 1 THEN nx ELSE fs[i - 1].next
  <2>1. P[i] = IF i <= 1 THEN nx ELSE q[i - 1]
    BY <1>1, <1>3, <1>4, <1>5
  <2>2. i # 1 => i - 1 \in 1..n
    BY <1>1
  <2> QED
    BY <1>1, <1>2, <2>1, <2>2
<1> QED
  BY <1>1, <1>6, <1>7 DEF P, q, n

(* A loop that turns advances. *)
LEMMA TurnAdvances ==
  ASSUME TypeOK, NEW n \in 0..Len(frames), NEW alias, NEW table, LoopTurned(n, alias, table)
  PROVE  LoopAdvances
<1>1. /\ frames \in Seq(Frame) /\ next \in Nat /\ n \in Nat /\ Len(frames) \in Nat
      /\ frames' \in Seq(Frame) /\ next' \in Nat /\ Len(frames') = n
  BY FrameFacts DEF TypeOK, LoopTurned
<1>2. /\ DOMAIN Positions = 1..(Len(frames) + 1)
      /\ \A i \in 1..(Len(frames) + 1) : Positions[i] = IF i = 1 THEN next ELSE frames[i - 1].next
  BY <1>1, PositionsOf DEF Positions
<1>3. /\ DOMAIN Positions' = 1..(n + 1)
      /\ \A i \in 1..(n + 1) : Positions'[i] = IF i = 1 THEN next' ELSE frames'[i - 1].next
  <2> DEFINE P == <<next'>> \o [i \in DOMAIN frames' |-> frames'[i].next]
  <2>1. Positions' = P
    BY DEF Positions
  <2>2. /\ DOMAIN P = 1..(Len(frames') + 1)
        /\ \A i \in 1..(Len(frames') + 1) : P[i] = IF i = 1 THEN next' ELSE frames'[i - 1].next
    BY <1>1, PositionsOf
  <2> QED
    BY <1>1, <2>1, <2>2
<1>4. ASSUME NEW i \in 0..n
      PROVE  /\ Positions[i + 1] = PosAt(i) /\ Positions'[i + 1] = PosAt(i)'
             /\ PosAt(i)' = IF i = n THEN PosAt(i) + 1 ELSE PosAt(i)
             /\ PosAt(i) \in Nat
  <2>1. i + 1 \in 1..(n + 1) /\ i + 1 \in 1..(Len(frames) + 1) /\ (i + 1) - 1 = i
        /\ (i = 0 <=> i + 1 = 1) /\ i \in 0..Len(frames)
    BY <1>1
  <2>2. Positions[i + 1] = PosAt(i)
    BY <1>2, <2>1 DEF PosAt
  <2>3. Positions'[i + 1] = PosAt(i)'
    BY <1>3, <2>1 DEF PosAt
  <2>4. PosAt(i)' = IF i = n THEN PosAt(i) + 1 ELSE PosAt(i)
    BY DEF LoopTurned
  <2> QED
    BY <2>1, <2>2, <2>3, <2>4, FrameFacts
<1>5. n + 1 \in DOMAIN Positions \cap DOMAIN Positions' /\ n \in 0..n
  BY <1>1, <1>2, <1>3
<1>6. Positions'[n + 1] > Positions[n + 1]
  BY <1>4, <1>5
<1>7. ASSUME NEW j \in 1..((n + 1) - 1) PROVE Positions'[j] = Positions[j]
  <2>1. j - 1 \in 0..n /\ j - 1 # n /\ (j - 1) + 1 = j
    BY <1>1
  <2> QED
    BY <2>1, <1>4
<1> QED
  BY <1>5, <1>6, <1>7 DEF LoopAdvances

(* Passing over an import turns the innermost loop. *)
LEMMA PassOverAdvances ==
  ASSUME IInv, NEW imp, At(imp), PassOver(imp)
  PROVE  LoopAdvances
<1>1. TypeOK /\ imp \in Import
  BY ImportAt DEF IInv
<1>2. PICK n \in 0..Len(frames) : n = Len(frames)
  BY <1>1, FrameFacts
<1>3. imp.alias \in Alias /\ (Known(namespaces, imp.alias) => namespaces[imp.alias].file \in File)
  BY <1>1 DEF TypeOK, Known, Import
<1>4. LoopTurned(n, imp.alias, namespaces)
  BY <1>1, <1>2, <1>3, FrameFacts, LoopTurns DEF PassOver
<1> QED
  BY <1>1, <1>4, TurnAdvances

(* Registering a file turns its caller's loop. *)
LEMMA RegisterAdvances ==
  ASSUME IInv, RegisterNamespace
  PROVE  LoopAdvances
<1>1. TypeOK /\ ~AtTop
  BY DEF IInv, RegisterNamespace, Analyzing
<1>2. PICK n \in 0..Len(frames) : n = Len(frames) - 1
  BY <1>1, TopFacts
<1>3. PICK al \in Alias, f \in File : al = Top.alias /\ f = Top.file
  BY <1>1, TopFacts DEF Frame
<1>4. Known(namespaces', al) => namespaces'[al].file \in File
  BY <1>3 DEF RegisterNamespace, Extended, Known
<1>5. UNCHANGED inputs /\ frames' = Resumed(Below, al, namespaces') /\ next' = NextOfMain(Below)
  BY <1>3 DEF RegisterNamespace
<1>6. Below \in Seq(Frame) /\ Len(Below) = n /\ \A i \in 1..n : Below[i] = frames[i]
  BY <1>1, <1>2, TopFacts
<1>7. LoopTurned(n, al, namespaces')
  BY <1>1, <1>4, <1>5, <1>6, LoopTurns
<1> QED
  BY <1>1, <1>7, TurnAdvances

(* A failure that does not end the resolution turns Main's loop. *)
LEMMA FailAdvances ==
  ASSUME IInv, NEW kind, NEW chain, Fail(kind, chain)
  PROVE  Reached = Reached' /\ LoopAdvances
<1>1. TypeOK /\ next' = next + 1 /\ frames' = << >> /\ frames \in Seq(Frame) /\ next \in Nat
  BY FrameFacts DEF IInv, Fail, TypeOK
<1>2. Positions[1] = next /\ 1 \in DOMAIN Positions
  BY <1>1, PositionsOf DEF Positions
<1>3. Positions'[1] = next' /\ 1 \in DOMAIN Positions'
  <2> DEFINE P == <<next'>> \o [i \in DOMAIN frames' |-> frames'[i].next]
  <2>1. << >> \in Seq(Frame) /\ next' \in Nat
    BY <1>1, EmptySeq
  <2>2. P[1] = next' /\ 1 \in DOMAIN P
    BY <1>1, <2>1, PositionsOf
  <2>3. Positions' = P
    BY DEF Positions
  <2> QED
    BY <2>2, <2>3
<1>4. 1..(1 - 1) = {}
  OBVIOUS
<1>5. LoopAdvances
  BY <1>1, <1>2, <1>3, <1>4 DEF LoopAdvances
<1>6. Reached = Reached'
  BY DEF Reached, Fail
<1> QED
  BY <1>5, <1>6

(* Each step of the resolver answers, opens a file never opened before, or  *)
(* takes a loop over a section one import further: so no chain of imports,  *)
(* however tangled, keeps resolve_import_inner going for ever.              *)
THEOREM EveryStepAdvances == Spec => [][Advances]_vars
<1>1. IInv /\ [Next]_vars => [Advances]_vars
  <2> SUFFICES ASSUME IInv, Next PROVE Advances
    OBVIOUS
  <2>1. ASSUME NEW imp, At(imp), PassOver(imp) PROVE Advances
    BY <2>1, PassOverAdvances DEF Advances, Reached, PassOver
  <2>2. ASSUME NEW kind, NEW chain, Fail(kind, chain) PROVE Advances
    BY <2>2, FailAdvances DEF Advances
  <2>3. ASSUME NEW imp, Step(imp) PROVE Advances
    <3>1. CASE ReuseNamespace(imp) \/ SkipResolved(imp)
      BY <2>1, <3>1 DEF ReuseNamespace, SkipResolved
    <3>2. CASE RefuseAbsent(imp) \/ RefuseCycle(imp) \/ RefuseUnreadable(imp)
      BY <2>2, <3>2 DEF RefuseAbsent, RefuseCycle, RefuseUnreadable
    <3>3. CASE EnterFile(imp)
      <4>1. Reached' = Reached \cup {imp.file} /\ imp.file \notin Reached
        BY <3>3 DEF EnterFile, Reached
      <4> QED
        BY <4>1 DEF Advances
    <3> QED
      BY <2>3, <3>1, <3>2, <3>3 DEF Step
  <2>4. CASE RegisterNamespace
    <3>1. Top.file \in visiting
      BY <2>4, AtTheEnd DEF RegisterNamespace, IInv
    <3>2. Reached' = Reached
      BY <2>4, <3>1 DEF RegisterNamespace, Reached
    <3> QED
      BY <2>4, <3>2, RegisterAdvances DEF Advances
  <2>5. CASE RejectFile
    BY <2>2, <2>5 DEF RejectFile
  <2>6. CASE Finish
    BY <2>6 DEF Finish, Advances
  <2> QED
    BY <2>3, <2>4, <2>5, <2>6 DEF Next
<1> QED
  BY <1>1, Invariance, PTL DEF Spec

=============================================================================
