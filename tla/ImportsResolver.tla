---------------------------- MODULE ImportsResolver ----------------------------
(***************************************************************************)
(* ImportsResolver::resolve_from_imports_section: the files a main file    *)
(* imports are read, resolved depth first, analyzed and registered as      *)
(* namespaces under their aliases                                          *)
(* (dixscript/src/Compiler/ImportsResolution/imports_resolver.rs).         *)
(*                                                                         *)
(* The recursion of resolve_import_inner is the sequence `frames`, one     *)
(* record per file being resolved; import_stack is the files of those      *)
(* frames.  A `return false` goes through every active call, which takes   *)
(* each file from visiting to visited, and is one step here.               *)
(*                                                                         *)
(* Abstracted: a file is its imports and its health.  Paths are compared   *)
(* canonically everywhere but in one test, `visited.contains(&nested_path)`,*)
(* which sees the path as it was spelled: whether the spelling happened to *)
(* be the canonical one is a free choice at that test.                     *)
(***************************************************************************)
EXTENDS Naturals, Sequences

CONSTANTS
  File,       \* canonical paths
  Alias,
  Main,       \* the file being compiled
  Sections,   \* the @IMPORTS sections a file may have
  Healths     \* what may become of a file: see health

Import == [alias : Alias, file : File]

\* The parser drops a second import under the same alias.
ASSUME ImportsAssumption ==
  /\ Main \in File
  /\ \A s \in Sections :
       /\ s \in Seq(Import)
       /\ \A i, j \in DOMAIN s : s[i].alias = s[j].alias => i = j
  /\ Healths \subseteq {"unreadable", "unsound", "sound"}

VARIABLES
  program,     \* the imports of every file
  health,      \* "unreadable", "unsound" (fails analysis) or "sound"
  strategy,    \* error_handling_strategy: Halt, or one of the other two
  next,        \* the import of Main whose turn it is
  frames,      \* the active calls of resolve_import_inner, outermost first
  visiting, visited,
  namespaces,  \* the symbol table's: alias -> file and its local imports
  errors,      \* the imports resolution errors
  success,
  verdict      \* "pending", then what the resolver returned

inputs   == <<program, health, strategy>>
vars     == <<inputs, next, frames, visiting, visited, namespaces, errors, success, verdict>>

Strategies == {"halt", "carry_on"}
Verdicts   == {"pending", "resolved", "failed"}
Kinds      == {"unreadable", "unsound", "cycle", "absent"}

Init ==
  /\ program \in [File -> Sections]
  /\ health \in [File -> Healths] /\ health[Main] # "unreadable"
  /\ strategy \in Strategies
  /\ next = 1
  /\ frames = << >> /\ visiting = {} /\ visited = {}
  /\ namespaces = << >> /\ errors = << >>
  /\ success = TRUE /\ verdict = "pending"

-----------------------------------------------------------------------------
AtTop == frames = << >>
Top   == frames[Len(frames)]
Below == SubSeq(frames, 1, Len(frames) - 1)

Importer == IF AtTop THEN Main ELSE Top.file
Position == IF AtTop THEN next ELSE Top.next

\* The import under way is imp.
At(imp) ==
  /\ verdict = "pending"
  /\ Position <= Len(program[Importer])
  /\ imp = program[Importer][Position]

\* Faulty variant: the stack is read from its inner end.
ImportStackReversed == [i \in DOMAIN frames |-> frames[Len(frames) + 1 - i].file]

ImportStack == [i \in DOMAIN frames |-> frames[i].file]

Known(table, alias) == alias \in DOMAIN table

Extended(f, key, value) ==
  [k \in DOMAIN f \cup {key} |-> IF k = key THEN value ELSE f[k]]

\* Faulty variant: local_imports never learns of the import.
ResumedWithoutLocals(fs, alias, table) ==
  IF fs = << >> THEN fs ELSE [fs EXCEPT ![Len(fs)].next = @ + 1]

\* The caller's frames once its import under alias is done: the next import is
\* up, and local_imports keeps what the table holds under the alias by then.
Resumed(fs, alias, table) ==
  IF fs = << >> THEN fs
  ELSE LET last == fs[Len(fs)] IN
       [fs EXCEPT ![Len(fs)] =
         [last EXCEPT !.next = last.next + 1,
                      !.locals = IF Known(table, alias)
                                 THEN Extended(last.locals, alias, table[alias].file)
                                 ELSE last.locals]]

\* Main's loop turns when a call made from it returns.
NextOfMain(fs) == IF fs = << >> THEN next + 1 ELSE next

\* Faulty variant: a failure ends the loop of Main under every strategy.
FailAndHalt(kind, chain) ==
  /\ errors' = Append(errors, [kind |-> kind, chain |-> chain])
  /\ frames' = << >>
  /\ visited' = visited \cup visiting
  /\ visiting' = {}
  /\ next' = next + 1
  /\ success' = FALSE
  /\ verdict' = "failed"
  /\ UNCHANGED <<inputs, namespaces>>

\* add_imports_resolution_error, and `return false` out of every active call.
Fail(kind, chain) ==
  /\ errors' = Append(errors, [kind |-> kind, chain |-> chain])
  /\ frames' = << >>
  /\ visited' = visited \cup visiting
  /\ visiting' = {}
  /\ next' = next + 1
  /\ success' = FALSE
  /\ verdict' = IF strategy = "halt" THEN "failed" ELSE verdict
  /\ UNCHANGED <<inputs, namespaces>>

\* Faulty variant: the loop stays at the import.
PassOverForEver(imp) == UNCHANGED vars

\* The import needs nothing done: on to the next one.
PassOver(imp) ==
  /\ frames' = Resumed(frames, imp.alias, namespaces)
  /\ next' = NextOfMain(frames)
  /\ UNCHANGED <<inputs, visiting, visited, namespaces, errors, success, verdict>>

-----------------------------------------------------------------------------
\* A nested import spelled as its canonical path, of a file done before.
ReuseNamespace(imp) ==
  /\ At(imp) /\ ~AtTop
  /\ imp.file \in visited /\ Known(namespaces, imp.alias)
  /\ PassOver(imp)

\* "Internal: namespace marked visited but absent from symbol table"
RefuseAbsent(imp) ==
  /\ At(imp) /\ ~AtTop
  /\ imp.file \in visited /\ ~Known(namespaces, imp.alias)
  /\ Fail("absent", << >>)

RefuseCycle(imp) ==
  /\ At(imp)
  /\ imp.file \in visiting
  /\ Fail("cycle", Append(ImportStack, imp.file))

\* read_and_parse_raw fails: no such file, wrong hash, no download, no parse.
RefuseUnreadable(imp) ==
  /\ At(imp)
  /\ imp.file \notin visiting
  /\ health[imp.file] = "unreadable"
  /\ Fail("unreadable", << >>)

\* "already resolved, skipping": from Main's loop, or by another spelling.
SkipResolved(imp) ==
  /\ At(imp)
  /\ health[imp.file] # "unreadable"
  /\ imp.file \in visited
  /\ PassOver(imp)

EnterFile(imp) ==
  /\ At(imp)
  /\ health[imp.file] # "unreadable"
  /\ imp.file \notin visiting \cup visited
  /\ visiting' = visiting \cup {imp.file}
  /\ frames' = Append(frames, [file |-> imp.file, alias |-> imp.alias,
                               next |-> 1, locals |-> << >>])
  /\ UNCHANGED <<inputs, next, visited, namespaces, errors, success, verdict>>

-----------------------------------------------------------------------------
\* Faulty variant: a file is analyzed before its imports are done.
AnalyzingAtOnce == ~AtTop

\* The imports of the innermost file are done; it is analyzed.
Analyzing == ~AtTop /\ Top.next > Len(program[Top.file])

\* The seeded namespaces are the ones the file asks for.
SeededAsWritten(f) ==
  \A i \in DOMAIN program[f] :
    LET imp == program[f][i] IN
      Known(namespaces, imp.alias) /\ namespaces[imp.alias].file = imp.file

RegisterNamespace ==
  /\ Analyzing
  /\ health[Top.file] = "sound"
  /\ namespaces' = Extended(namespaces, Top.alias,
                            [file |-> Top.file, locals |-> Top.locals])
  /\ visiting' = visiting \ {Top.file}
  /\ visited' = visited \cup {Top.file}
  /\ frames' = Resumed(Below, Top.alias, namespaces')
  /\ next' = NextOfMain(Below)
  /\ UNCHANGED <<inputs, errors, success, verdict>>

\* Analysis fails: the file is at fault, or what it calls is not in the
\* namespace it was given (whether it is depends on what the file calls).
RejectFile ==
  /\ Analyzing
  /\ health[Top.file] = "unsound" \/ ~SeededAsWritten(Top.file)
  /\ Fail("unsound", << >>)

\* Faulty variant: the failures of single imports are forgotten.
FinishResolved ==
  /\ verdict = "pending" /\ AtTop
  /\ next > Len(program[Main])
  /\ verdict' = "resolved"
  /\ UNCHANGED <<inputs, next, frames, visiting, visited, namespaces, errors, success>>

\* The end of Main's loop.
Finish ==
  /\ verdict = "pending" /\ AtTop
  /\ next > Len(program[Main])
  /\ verdict' = IF success /\ (strategy = "halt" => errors = << >>)
                THEN "resolved" ELSE "failed"
  /\ UNCHANGED <<inputs, next, frames, visiting, visited, namespaces, errors, success>>

Step(imp) ==
  \/ ReuseNamespace(imp)   \/ RefuseAbsent(imp) \/ RefuseCycle(imp)
  \/ RefuseUnreadable(imp) \/ SkipResolved(imp) \/ EnterFile(imp)

Next == (\E imp \in Import : Step(imp)) \/ RegisterNamespace \/ RejectFile \/ Finish

Spec == Init /\ [][Next]_vars /\ WF_vars(Next)

-----------------------------------------------------------------------------
Check == INSTANCE ImportCheck

SetOf(s) == {s[i] : i \in DOMAIN s}

\* The types of the resolver's variables.
TypeOK ==
  /\ program \in [File -> Sections]
  /\ health \in [File -> Healths]
  /\ strategy \in Strategies
  /\ next \in Nat \ {0}
  /\ frames \in Seq([file : File, alias : Alias, next : Nat \ {0},
                     locals : UNION {[D -> File] : D \in SUBSET Alias}])
  /\ visiting \in SUBSET File
  /\ visited \in SUBSET File
  /\ DOMAIN namespaces \subseteq Alias
  /\ \A a \in DOMAIN namespaces : namespaces[a].file \in File
  /\ errors \in Seq([kind : Kinds, chain : Seq(File)])
  /\ success \in BOOLEAN
  /\ verdict \in Verdicts

(* The chain of a CircularDependency error is a real one: it starts with an *)
(* import of the main file, follows imports, and ends where it passed.      *)
CycleIsReal ==
  \A e \in SetOf(errors) : e.kind = "cycle" =>
    LET c == e.chain IN
      /\ c[1] \in Check!Targets(Main)
      /\ \A i \in 1..(Len(c) - 1) : c[i+1] \in Check!Targets(c[i])
      /\ \E i \in 1..(Len(c) - 1) : c[i] = c[Len(c)]

(* A file becomes a namespace only when the resolution of all it imports is *)
(* over ("Resolve all transitive dependencies FIRST").                      *)
DependenciesFirst ==
  \A a \in DOMAIN namespaces : Check!Targets(namespaces[a].file) \subseteq visited

(* When all files agree on their aliases, a resolved main file sees under   *)
(* each alias the file it named, and so does every file it depends on.      *)
NamesMeanFiles ==
  verdict = "resolved" /\ Check!Consistent(File) =>
    /\ SeededAsWritten(Main)
    /\ \A a \in DOMAIN namespaces :
         LET ns == namespaces[a] IN
           \A imp \in Check!ImportsOf({ns.file}) :
             Known(ns.locals, imp.alias) /\ ns.locals[imp.alias] = imp.file

SoundFrom(f) == \E S \in SUBSET File :
  f \in S /\ (\A g \in S : Check!Targets(g) \subseteq S) /\ Check!Clean(S)

Registered(imp) ==
  \E a \in DOMAIN namespaces : a = imp.alias /\ namespaces[a].file = imp.file

(* Under Continue and Recover the sound imports of the main file are        *)
(* registered whatever happens to the others before or after them.          *)
SoundImportsSurvive ==
  strategy = "carry_on" /\ verdict # "pending" /\ Check!Consistent(File) =>
    \A imp \in Check!ImportsOf({Main}) : SoundFrom(imp.file) => Registered(imp)

(* The resolver implements ImportCheck: it accepts only programs without a  *)
(* faulty file or an import cycle, and refuses only those with one or with  *)
(* an alias that does not mean the same file everywhere.                    *)
ImplementsCheck == Check!Spec

Reached   == visiting \cup visited
Positions == <<next>> \o [i \in DOMAIN frames |-> frames[i].next]

\* A loop that was running stands at a later import; the loops around it have
\* not moved and the ones inside it are over.
LoopAdvances ==
  \E i \in DOMAIN Positions \cap DOMAIN Positions' :
    /\ Positions'[i] > Positions[i]
    /\ \A j \in 1..(i - 1) : Positions'[j] = Positions[j]

\* One step brings the answer closer.
Advances ==
  \/ verdict' # "pending"
  \/ Reached \subseteq Reached' /\ Reached # Reached'
  \/ Reached = Reached' /\ LoopAdvances

(* Resolution ends, whatever the files import: it never stops unanswered,   *)
(* and each step returns, opens a file never opened before, or takes a loop *)
(* over a section one import further: the recursion of resolve_import_inner *)
(* is bounded by the files, not by the length of the chains of imports.     *)
ResolutionEnds ==
  /\ [](verdict = "pending" => ENABLED <<Next>>_vars)
  /\ [][Advances]_vars
=============================================================================
