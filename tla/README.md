# DixScript: models and proofs

TLA+ models of the DixScript compiler and runtime (`src/dixscript`), its language
server and its Go and C# bindings, the TLC configurations that check them on
small instances, and TLAPS proofs, for every value of the constants, of the
safety invariants that those configurations find to hold and of the three
refinements.

`PROJECT.json` lists the components, the runs, which lines of the source every
definition stands for, and the hazards; this file says how it all fits together.

## 1. The system

DixScript is a data format with functions (`.mdix` files) and its compiler. A
file has sections, of which `@IMPORTS`, `@QUICKFUNCS`, `@DATA` and `@DLM`
matter here. The Rust library `dixscript` compiles and loads files; a command
line, a language server, a C interface and the bindings of nine other languages
sit on top of it.

| component | state it keeps | operations | talks to |
|---|---|---|---|
| lexer, section parsers, AST arena | none between inputs | text to tokens to AST | analyzer |
| semantic analyzer (`Core/general_semantics_analyzer.rs`) | symbol table, error manager, per-section results | one pass over the sections of a file, in order | imports resolver, function validation, value resolution |
| imports resolver (`ImportsResolution/`) | `visiting`, `visited`, `import_stack`; the namespaces of the symbol table | resolve the `@IMPORTS` of a file and of the files it imports | analyzer (once per imported file), file system, cloud cache |
| call-graph validation (`Core/Functions/`) | `CallGraph` | build the graph, `detect_cycles`, `get_topological_sort` | analyzer |
| value resolution (`Core/ValueResolution/value_resolver.rs`) | `data_context`, pending and failed calls, the pass | aliases, then calls in passes until none is left or none can go on | interpreter, AST |
| function interpreter (`function_interpreter.rs`) | `recursion_depth`, variables, `lambda_registry` | run a function at compile time | builtins, value resolution |
| builtins (`Builtins/`) | the process-wide enum table | pure functions; enum lookup | interpreter, analyzer |
| error manager | a list of errors, counters | add, clear, query | everything |
| DLM pipeline (`Compiler/DLM/`) | `x.mdix.enc`, `x.mdix.key`, the audit trail | compress, encrypt, write; read, decrypt, unpack | key resolver, file permissions |
| loader (`Runtime/loader.rs`) | `load_cache`, one error manager | `load_text`, `load_encrypted`, `load_from_str`, ... from any thread | all of the above |
| hot reload (`Runtime/hot_reload.rs`) | `last_modified` | `check_and_reload`, `force_reload` | loader, file system |
| merge (`Runtime/merge.rs`) | the merged sections, each entry with its source; conflicts | `merge_all` of weighted sources, `merge_files` | loader; `mdix diff` |
| cloud file cache | a directory of downloaded files | fetch, look up | imports resolver |
| query, schema, converters | none | functions on documents | callers |
| language server (`mdix-lsp`) | `documents`, `pending_versions`, `analysis_tasks` | open, change, close; completion, hover, ...; shutdown | editor, analyzer on other threads |
| C interface (`mdix-ffi`) | the database behind each handle | load, get, free | loader; every binding |
| Go binding (`mdix-go`) | `Database`: handle, `sync.RWMutex`, a poll goroutine | getters, hot reload, `Close`, from any goroutine | C interface, file system |
| C# binding (`mdix-csharp`) | `MdixDatabase`: a counted `SafeHandle`, no lock, a file watcher | getters, `Reload`, hot reload, `Dispose`, from any thread | C interface, file system |
| CLI, other bindings, editor plugins | one handle per object, no thread | adapters | loader, analyzer, C interface |

### What is hard, and the properties that make it correct

* **Call-graph validation** walks hash maps and sets, so every order is
  possible, and its search returns early in a way that leaves its sets
  standing. Correct: the verdict depends on the graph only, the first reported
  cycle is real, the search and the sort end, an execution order is
  topological, no counter wraps.
* **Imports** recurse through files that may be missing, faulty or circular,
  with two tables that identify a file differently (`visited` by path,
  namespaces by alias). Correct: exactly the bad programs are refused,
  dependencies come first, a name means the file it was given for, one bad
  import does not spoil the others, cycles are real, it ends.
* **Value resolution** runs calls in passes while the table they read from is
  still being filled, through names that are matched by their ends and in hash
  order; one interpreter with one depth serves all calls, and errors leave it
  through `?`. Correct: what could be resolved is, in whatever order it stands;
  "circular" is said of calls that are stuck; a call computed with what the
  document shows in the end, and a name that has a value gives way to it; calls
  leave the depth as they found it; `return` ends the function.
* **The loader's cache** is shared by threads while the files change. Four
  separate moments (stat, lookup, read, insert) make one load. Correct: no load
  is older than the moment it was asked for, as far as modified-times can tell.
* **Hot reload** stats and reads a file others are saving. Correct: it never
  takes an unseen change for a loaded one, and never gives a change up.
* **DLM output** is two files that only work together, replaced one after the
  other without a lock, by code that can fail or die at any access. Correct: a
  clean run always restores a matching, locked pair; what is reported is on
  disk; a read returns the right run or fails.
* **Merge** goes through any number of sources one by one, and remembers one
  source for what several have been merged into. Correct: the best source wins,
  nothing of what is merged is lost, duplicates are removed, conflicts are the
  disagreements, and only they make a merge fail.
* **The language server** starts an analysis per edit on other threads, which
  end in any order, and checks versions in steps that a message can come
  between. Correct: when all is quiet the editor shows the current text's
  diagnostics, an answer is as fresh as it was waited for, every text is
  answered.
* **The bindings** free native memory that other threads may be using: getters,
  reloads, watchers and closing meet in any order. Correct: no call on a freed
  database, each is freed once and none is left, a change is served, closing
  returns.
* **A compilation** asks two things that outlive it: the error manager of its
  loader, whether to go on, and a table of enums of the whole process, what a
  name means. Correct: a source is resolved with its own enums, and its verdict
  is its own, whatever was compiled before it or is being compiled beside it.

## 2. The modules

    CallCheck   <-- CallGraph <-- TopologicalSort        promise <-- implementation
    ImportCheck <-- ImportsResolver
    NativeHandle <-- GoDatabase --> RWMutex
    FunctionInterpreter <-- ValueResolver
    SourceFile <-- LoaderCache, HotReload                environment
    CompileSource, DlmArtifacts, Merge, LanguageServer, CsDatabase

| proofs | of |
|---|---|
| `TopologicalSortProofs` | `CallGraph`, `TopologicalSort` |
| `ImportsResolverProofs` | `ImportsResolver` |
| `ValueResolverProofs` | `FunctionInterpreter`, `ValueResolver` |
| `SourceFilesProofs` | `LoaderCache`, `HotReload`, `DlmArtifacts` |
| `CompileSourceProofs` | `CompileSource` |
| `MergeProofs` | `Merge` |
| `HostsProofs` | `LanguageServer`, `CsDatabase` |
| `GoDatabaseProofs` | `GoDatabase` |

Where one proof module extends several models, their specifications have names
of their own (`WatcherSpec`, `PipelineSpec`, `DatabaseSpec`), and so have
their initial states, steps and types.

`MC*.tla` and `*.cfg` instantiate them for TLC.

Operators marked *Faulty variant* are not part of any specification: each is
what a definition would be with a plausible bug, and shows that the property it
is paired with in `PROJECT.json` does notice. Variables marked *history* are not
in the code; they remember what an exception in a property is about.

### CallGraph (`call_graph.rs`, `cycle_detector.rs`, `call_collector.rs`)

One behaviour is one run of `validate_function_calls_doc` on an arbitrary
`@QUICKFUNCS` section (a function from defined names to called names).
`AnalyzeFunction` is an iteration of `build_call_graph`; the recursion of `dfs`
is the sequence `frames`; `EnterRoot` and `SkipRoot` are the loop of
`detect_cycles`, `Descend`, `ReportCycle` and `SkipExplored` the three branches
for a neighbour, `Backtrack` the code after the loop. The code iterates over
hash tables: the element that comes next is a free choice. `ReportCycle` empties
`frames` and touches neither `path` nor `recursionStack`, because that is what
`return true` out of every active call does; the next root starts with what it
left. The collector, which finds the calls in a body, is one step.

`CallCheck` is the promise: one step that answers "valid" exactly for sections
without a cycle of calls that call only what they define. A cycle is stated as a
non-empty set of functions each of which is called from within the set, which
needs neither paths nor induction; `AnswersCorrectly` says `CallGraph`
implements it.

### TopologicalSort (`get_topological_sort`, `get_execution_order_doc`)

Extends `CallGraph`: the search runs first, then Kahn's algorithm. The queue is
a `Vec` used as a stack, filled in any order (`Listings`), and `inDegree` is an
integer so that `NoUnderflow` can say that a `usize` would not wrap.

### ImportsResolver (`imports_resolver.rs`, `symbol_table.rs`)

One behaviour is one `resolve_from_imports_section`. The recursion is `frames`;
a `return false` unwinds it, moving each open file to `visited`, and is one step
(`Fail`), because nothing else can look in between. A file is its imports and
its health: unreadable (no file, wrong hash, no download, no parse), unsound
(fails analysis) or sound. Two points are less obvious:

* Paths are canonical except in `visited.contains(&nested_path)`, which compares
  the path as written. Both outcomes are possible there, hence `ReuseNamespace`
  / `RefuseAbsent` beside `SkipResolved`.
* Analysis of a file that was given a namespace other than the one it asked for
  may fail or not, depending on what it calls: `RegisterNamespace` and
  `RejectFile` are then both enabled.

`ImportCheck` is the promise: "resolved" only if every file depended on is sound
and none depends on itself; "failed" only if that is not so or two imports
disagree on an alias. Where files disagree on their aliases the code may answer
either way, and the promise says no more than that.

### FunctionInterpreter, ValueResolver (`function_interpreter.rs`, `value_resolver.rs`, `ast_walker.rs`)

`FunctionInterpreter` is the state that goes from call to call, and how lists of
statements are executed. `frames` are the active lists, of functions and of
branches; `Body` gives the statements an evaluation meets, so that conditions
are already decided. A `return` ends the list it stands in, a list that ends
gives its value to the statement it belongs to, and a list of a function gives
its level of `recursion_depth` back. `Abandon` is the `?` that leaves every
active call; nothing is given back. `Evaluate` is the order in which a name is
looked up: lambdas ever registered, the lambda in a local variable, functions. A
function that is called as `alias.name` is looked up in its namespace only; in
the model its name is the qualified one, which no lambda has.
Values are known by what made them, not computed; so the way through a function,
and whether it fails, is the same for every argument.

`ValueResolver` is one resolution of a document, a list of properties each with
its location (a table, or the root) and name. Locations are distinct: the
analysis before it refuses a table, a property or a field that is there twice
(`data_section_analyzer.rs:295`, `403`, `514`). Slots 2i - 1 and 2i are the call
of property i and the one in its argument, both of which the walk finds.
`ResolveAlias`, `PassAlias`, `EndAliasPass` are phase 2; `StartPass`,
`PassOver`, `RefuseCall`, `MissInScope`, `CallWithLiteral`, `CallWithName`,
`CallWithResult`, `Succeed`, `Fail`, `EndPass` the loop of phase 4. The gate of a
call (`Blocked`) and the scope the interpreter then reads from are not the same
table, hence `MissInScope`; where the code takes the first suffix that a hash
map offers, any is possible. `ReplaceNames` is phase 5, which runs if no call
has failed. It looks for a name as it is written (`Bare`), where every location
begins with the root, and so replaces nothing. `ast` is what has taken the place
of calls and names; what the compiled document has at a property is its literal
or that (`Shows`, `Shown`), because a name that is left is dropped
(`dix_value.rs:320`). The history `misled` is set when the scope sends a call to
a location without a value while another one has it, and when a call begins on
an interpreter that an earlier one has left a level or a lambda in (`Used`).

### SourceFile, LoaderCache (`loader.rs`), HotReload (`hot_reload.rs`)

`SourceFile` is the environment: a file is the history of its states with their
modified-times. A write takes the file to any state: "sound", "missing", or one
of those a save passes through, "torn" (does not compile) and "cut" (does: an
empty file, or a `@DATA` section without its end, is a file without data). Any
write may have the modified-time of the one before. Loads and reloads answer
with the version they read.

`LoaderCache` has one `load_text` per thread in progress, each step one file
access or one hold of the mutex: `Load`, `ReadMtime`, `ServeCached` /
`MissCache`, `ReadSource` / `FailSource`, `Store`. Compiling happens in memory
and is part of `ReadSource`. `HotReload` has one watcher: `HasChanged`, `Stamp`
and `Reload` / `FailReload` are the two stats and the read of one
`check_and_reload`; `force_reload` starts at `Stamp`.

`MCSourceFiles` puts both over the same files, and the files of `DlmArtifacts`
beside them. They share nothing else, a watcher having a loader of its own, so a
behaviour has the threads, the watcher or the pipeline, and the instance need
not multiply the three.

### CompileSource (`loader.rs`, `error_manager.rs`, `enum_object.rs`, `lexer.rs`, the `@DATA` parser and analyzer)

`compile_source_from_bytes` from its entry points to the resolved result, on
threads that may share a loader. A step is one access to the loader's
`ErrorManager` (`errors`, `strategy`) or to the table of enums (`registry`);
that an error is reported, and that the manager is then asked whether to stop,
are two steps, because another thread can report or clear in between.

* `Begin` clears the errors, `BeginInMemory` (`compile_with_dlm_from_str`) does
  not.
* Scanning: `MeetStray`, `PassStray`; then `Configure` gives the manager the
  strategy of the source (`config_section_handler.rs:152` and `loader.rs:713`,
  with the same settings one after the other). Parsing: `MeetFault`, `PassFault`.
* Under `ENUM_REGISTRY_LOCK` (`guard`): `Acquire`, `ClearEnums`, `RegisterEnum`,
  `AnalyzeEntry`, `PassEntry`, `EndAnalysis`, `Resolve`. `Panic` unwinds and
  gives the lock back; a poisoned lock is taken all the same.
* `AnalyzeOutside` is the language server, which analyzes in the same process
  and does not take the lock.

A source here has no `@IMPORTS`. Each imported file is tokenized, configured and
analyzed by the resolver with the same error manager (`imports_resolver.rs:560`),
which also gives it that file's strategy, or the default one; this is left out.

The histories `alone` and `undisturbed` mark the loads that no other load of the
loader, and no analysis without the lock, came between; `inherited` is the
strategy that the manager had when the load began. `Recover` stops nowhere, and
is "continue" here.

### DlmArtifacts (`dlm_pipeline_executor.rs`, `file_permissions.rs`, `dlm_reverse_executor.rs`)

A file is known by the run that wrote it; a truncated or mixed file is `Torn`.
A run unlocks, opens (which truncates), fills and locks `x.mdix.enc`, then
`x.mdix.key`. Any access may fail, with the consequence it has in the code (an
error of unlocking ends that file's part, a failed write is a warning and the
file is locked all the same), and a compiler may die anywhere. The reader is
`load_encrypted`: it reads the key, then the data, then the key again. External
assumption: the data of one run is not accepted under the key of another.

### Merge (`merge.rs`)

One behaviour is one `merge_all`: source by source (`NextSource`), and for each
key `Insert`, `Skip` (the same again), `Refuse` (no winner under
`ThrowOnConflict`) or `Resolve`. Keys differ by how their entries are brought
together: one wins (`Entry`), fields are merged (`Group`), items are (`Array`),
the first stays (`Module`). The sections of a file are such keys; the order in
which they are merged does not matter to one another. `@RAW` blocks and the
schema are `Unmerged` keys: `do_merge` leaves both empty (`merge.rs:284-290`,
where a comment calls it a known gap), which is `Drop`; only `merge_all` of a
single source hands them back. A `Complex` value is one that `values_are_equal`
never calls equal; an array in a simple property is such a value of an entry.

### LanguageServer (`mdix-lsp/src/server.rs`)

One file that is opened, edited, closed and opened again. A text is a number
counted up with each message; the version is the editor's and starts again at 1.
A handler runs to its first `await` without interruption, so that `didOpen` and
`didChange` with `spawn_analysis` are one step, and `did_close` three, one for
each thing it changes that others see. An analysis has the steps
`CheckVersion`, `InsertDocument`, `PublishDiagnostics`, or ends without a result
(`GiveUpAnalysis`: panic, ten seconds, shutdown). A request either reads the
document at once or polls for the version on record for 400 ms, and then reads
it again. The check of a version and what follows it are not one step in the
code: the histories `raced` and `lost` mark the behaviours in which a message
came between them, and in which the current analysis was given up.

### NativeHandle, RWMutex, GoDatabase (`mdix-ffi`, `mdix-go/database.go`, `watch.go`)

`NativeHandle` is what the C interface asks of its users: calls on live handles,
each freed once and not under a call. `RWMutex` is Go's lock, as its
documentation has it: a waiting writer keeps later readers out, also those who
already hold a read lock (external).

`GoDatabase` has clients, which call getters, `EnableHotReload`,
`DisableHotReload` and `Close`, and poll goroutines (`Tick`, `LoadFile` /
`FailLoad`, `Swap`, `FreeOwned`, `Exit`). What is done with the write lock held
is one step; the wait for it is another (`Announce`, then `Granted`).
`ArrayLength` is the getter that takes the read lock twice (`NotAnArray`).
`KeepsNativeRules` says that all of this implements `NativeHandle`.

### CsDatabase (`MdixDatabase.cs`)

The same object without a lock. A handle is a `SafeHandle` with its count; a
getter reads the field `_safeHandle` to count (`LoadField`, `AddRef`), to call
(`GetRaw`) and to release (`ReturnValue`), and each time finds what is there by
then. `Reload` is `LoadFile`, `Swap`, `DisposeOld`, `CheckDisposed`, `Undo`;
`Dispose` two steps; the watcher's events are counted, accepted or dropped by
the debounce. The histories `crossed` (a handle was replaced under a getter) and
`missed` (a save was left without a reload of its own) mark the exceptions.

## 3. The runs

| run | bounds | question | answer |
|---|---|---|---|
| `topological_sort` | 3 functions, all sections | for every order of the hash maps: does the validator answer what `CallCheck` says, is its first cycle real, is the order topological, `None` exact, does nothing wrap, does it end? | yes |
| `imports` | 3 files, 2 aliases, up to 2 imports each, every health and strategy | does resolution implement `ImportCheck`, order dependencies, keep names apart, spare sound imports, report real cycles, and end? | yes |
| `value_resolution` | 3 properties in 4 orders, 6 functions, depth 2, at most 3 passes | is everything resolved that can be, what is read final, "circular" real, the depth given back, and is there an end? | yes, but for the exceptions |
| `value_resolution_returns` | the same | does `return` end the function? | **no** |
| `value_resolution_aliases` | the same | does a name that has a value give way to it? | **no** |
| `source_files` | 2 threads, 2 files, 4 versions in all, cache of 1; or a watcher and 5 versions; or 1 compiler, 4 runs, failures and deaths | is a load ever staler than its call, a change ever taken for loaded, or lost? Does a clean run always restore the encrypted pair, are reports true, are reads right? | no, where writes change the modified-time; yes |
| `compile_source` | 2 threads, 2 loaders, 3 sources, 2 enums | is a source resolved with its own enums, and is its verdict its own? | yes, but for the exceptions |
| `merge` | 3 sources, entries, groups, arrays, a module and a raw block, weights 1 and 2, all strategies | does the best source win, is anything lost, repeated, or listed wrongly? | as stated, see below |
| `language_server` | 3 texts of one file | is the quiet server current, are fresh answers new, is every text answered? | yes, but for the exceptions |
| `go_database` | 2 goroutines, 1 poll loop, 2 native databases, 3 versions | is each database owned once and no call on a freed one, is a change served, does `Close` return unless `ArrayLength` waits for itself? | yes |
| `go_database_deadlock` | the same, 1 version | does `Close` return? | **no** |
| `csharp_database` | 1 reader, 2 reloading threads, 4 handles, 2 versions, 2 events | are calls on live databases, is none left, are saves served? | yes, but for the exceptions |

The bold answers are the findings of `PROJECT.json`, each with the line of code
and the comment, doc or message it disagrees with:

* `ArrayLength` holds the read lock and calls `ValueTypeAt`, which takes it
  again. A `Close` or a reload that waits in between keeps the second out and
  waits for the first.
* A `return` inside `if` or `chk` ends its branch; the statements after the
  branch are executed, and the last of them is the value of the function.
* A property that names another one (`average_price = total_value`) keeps the
  name. Phase 5 looks it up as it stands among keys that all begin with `DATA.`
  and finds none, the identifier stays in the AST, and the database has no value
  for it. Phase 2 has put its value into `data_context`, so that a call that
  reads the property computes with a value which the document does not have.

Several properties hold only with an exception that the property states and the
model could not do without. They are what the code does, and a caller should
know them:

* *Merge of three or more sources with unordered weights.* A group that was
  merged field by field is put down to one source as a whole, and equal content
  keeps the source it was first seen in. With weights that neither rise nor
  fall, a field of a lower source can win. `merge_files` gives falling weights.
* *What a merge loses.* `MergedIsKept` speaks of the sections that are merged:
  `@RAW` and the schema of two or more sources are in no result, and differences
  in them in no list of conflicts, `mdix diff` included. Of two arrays in a
  simple property one is kept as it is (`upsert_unique_entry`, `merge.rs:822`),
  whatever the array strategy, which `merge.rs:75-76` and `221-222` say applies
  to them: items of the loser are lost under `Concat` and `ConcatDedup`.
* *Agreement is no conflict.* `merge.rs:70` says of `ThrowOnConflict` that "any
  key present in more than one source produces an error". The code skips what is
  equal in both, and `ConflictsAreDisagreements` says exactly that: a merge under
  that strategy fails if and only if two sources disagree.
* *Value resolution: reads.* A call in an argument is run again after the outer
  one and leaves its own value at the location they share; a call that read it
  in between has the outer one's (`ReadsAreFinal` excludes such locations). What
  a call read at an alias the document shows where the alias leads, and not at
  the alias (the finding above). Which of several locations a name means, when
  the scope does not say, is left to the order of a hash map, and to no property.
* *Value resolution: order.* With `a = 1` at the root and a table that has
  `b = f(a)` before `a = f(2)`, the gate lets the first call through, because the
  root's `a` answers to the name, and the interpreter then asks for the table's,
  which has no value yet: the call fails. With the two lines exchanged both are
  resolved. `ResolvesWhatItCan` has this as `misled`, and says that it takes a
  shadowed name (`Unshadowed`) or an interpreter that earlier calls have left
  something in: after a failed call the depth stays up (`DepthReturns` speaks of
  resolutions without failures), and a lambda stays registered for later calls.
  Where neither is the case, the same calls are resolved in every order. Aliases of
  aliases get as many passes as `MaxAliasPasses` (8): the property speaks of
  documents with no more aliases than that.
* *Language server.* An analysis that has passed its check overwrites what a
  newer message did (`raced`); one that was given up is not started again before
  the next edit (`lost`).
* *C# getters.* A reload between two reads of `_safeHandle` makes a getter
  release the new handle and leave the old one counted (`crossed`); a save
  inside the window of an earlier one, after that one was read, gets no reload
  (`missed`).
* *Files.* Two writes with the same modified-time are one to the cache and to
  the watcher, which then keep the first (`NotOlder`). A save that is caught
  when the file is empty, or when its `@DATA` section has no end yet, loads as a
  file without data under `Halt`: the load succeeds, where `hot_reload.rs:24-27`
  expects a failure and a retry for a file "saved mid-write". If the completing
  write has the same modified-time, the file without data stays (the comment at
  `loader.rs:158-166` has the next call notice). Two compilers at once can leave
  the data of one with the key of the other.
* *One loader, one source after another.* The errors are cleared between loads,
  the strategy is not (`clear_errors`, `error_manager.rs:1113`). A source without
  imports sets it twice, to the same: `config_section_handler.rs:152`, which
  `loader.rs:709` calls, and `loader.rs:713`, both after scanning; the same
  handler does it for each imported file. So a source is scanned
  with the strategy of the source before it: `VerdictIsOwn` has `inherited` in
  its verdict, and "loading multiple files never mixes error state between
  calls" (`loader.rs:40-42`) holds only with it. `merge_files_weighted`
  (`merge.rs:1235`) loads all its files through one loader. A source that halts,
  scanned under "continue" past a stray character, is accepted with entries that
  the analysis left out (`data_section_analyzer.rs:210-215`): those behind its
  first.
* *Loads that share a loader at the same time*, and `compile_with_dlm_from_str`
  (`loader.rs:307-314`), which clears nothing, have the errors of others
  (`alone`).
* *Analyses without the lock.* Only the loader takes `ENUM_REGISTRY_LOCK`; the
  language server analyzes without it (`mdix-lsp/src/analyzer.rs:53-100`) and
  uses a `DixLoader` in the same process (`server.rs:671-690`): a compilation
  that such an analysis falls into has the enums of another text
  (`undisturbed`).

Why the bounds are enough:

* Three functions hold every shape the search treats differently: self-calls,
  two- and three-cycles, a cycle reached through a chain, two roots that share a
  callee, an undefined callee. What holds for all sizes is proved (section 5).
* Three files with two aliases hold aliases that agree, clash and swap, diamonds
  and cycles. Sections have at most two imports, which is what it takes for an
  import to come before or after a failure. Libraries and aliases are
  interchangeable, hence the symmetry; the properties of the run are invariants
  and properties of single steps.
* Three properties hold a chain in the right and in the wrong order, a cycle of
  two beside a third, one name in two tables, a failure before and after those
  that wait for it. `MaxPasses` and the recursion limit are small enough to be
  reached; the six functions are one of each way a list can end.
* A cache of one entry stands for the 256 of `MAX_CACHED_FILES`: with two files
  it is full, emptied and refilled by either thread. `MaxVersions` counts the
  versions of all files, and `ThreadVersions` is less, for the threads: with two
  files, two writes remain, enough to remove a file and restore it under a load,
  with the same modified-time or another, or to overtake a cached version. Loads
  without the cache only read, and are left out of the instance (`Caching`). The
  watcher's file is written three times, enough for a torn or cut save, its
  completion and a removal, or a removal and a restoration; what holds for any
  number of writes is proved.
* Two threads and two loaders share one or have one each, or leave one behind
  for the other. The three sources have each kind of entry before and behind the
  others, both strategies, and enums that overlap; what holds for any sources is
  proved. Threads and loaders are interchangeable, hence the symmetry; the
  properties are invariants.
* Four runs of the pipeline: a clean one, two that go wrong in different ways,
  and a clean one after them.
* Two sources can disagree, and the third meets what two have been merged into;
  more sources only repeat that. What does not depend on the number is proved.
* Three texts: one analysis overtaken by a second and both by a third, or a
  text before, during and after a closed file.
* Two goroutines and the loop are a reader, a writer and another writer, which is
  what a wait in a circle takes; three versions leave a change for a loop that
  failed on the one before. One C# reader and two reloads can cross in every
  way, and two events are a save's first and its repetition.

Deadlock is checked for compilation (`compile_source`) and for what
`source_files` has, the loader, the watcher and the DLM files: they never stop. It is switched off where one behaviour is one call that returns
(`topological_sort`, `imports`, `merge`, `value_resolution*`; that these do not
stop *early* is `SortTerminates`, `ResolutionEnds` and the properties of their
results), and where the files, texts or handles run out or the object is closed
(`language_server`, `go_database*`, `csharp_database`).

## 4. Fairness

* `TopologicalSort`, `ValueResolver`: weak fairness of the next-state relation.
  The code is sequential; a thread that can go on does.
* `ImportsResolver` has the same, but its termination is checked as a property
  of steps (its `ResolutionEnds`: never stuck, and each step moves a bounded
  measure), which needs no fairness and allows symmetry.
* `HotReload` (stated again in `MCSourceFiles`): `WF(Watch)`, the program polls
  for ever, which is what a watcher is for; `SF(Reload)`, a file that compiles
  is not refused every time. Without the latter `WatcherPicksUp` cannot hold,
  since a reload may depend on imports or keys that are missing for a while.
  Nothing is assumed of writers.
* `LanguageServer`: `WF(Serve)`, `WF(Analyze)`: the runtime runs what can run.
  The editor may stop sending at any moment.
* `GoDatabase`: weak fairness of each goroutine; `SF(Lock)`, a Go writer is let
  in in the end; `SF(Exit)`, a `select` with a closed channel takes it in the
  end whatever the ticker does; `SF(LoadFile)`, a load that could succeed is not
  refused every time. Clients need not call anything.
* `LoaderCache`, `CompileSource`, `DlmArtifacts`, `CsDatabase` and `Merge` have
  safety properties only, and no fairness.

## 5. What is proved

Every theorem is one of the specification it names, for every value of the
constants that the `ASSUME`s of its module allow: `PROJECT.json` lists them.
Each part below says which invariant was needed, and why the property alone
would not do.

**Call graph and order** (`TopologicalSortProofs`), for every finite set
`Function` (`FunctionAssumption`; what is said of the search alone does not use
it): `TypeCorrect`, `StackAndPathAgree`, `FirstReportIsReal`;
`ValidatorImplementsCheck`: `Spec` implements `CallCheck`;
`DegreesNeverUnderflow`, `OrderIsTopological`, `RefusesExactlyCyclic`.

The invariant of the search is `IInv`. None of the properties is inductive: that
the first report is a loop needs to know that, as long as nothing has been
reported, the path is exactly the active calls and follows call edges
(`NothingFoundYet`); that no report means no cycle needs two facts about the
explored functions, those that are visited and no longer active: everything they
call is explored, and no set of them feeds itself. When a call of `dfs` returns
false its node joins them, and a self-feeding set that contained it would need a
caller of it among the explored, which only call explored functions. After an early
return most of this is gone, and what is left (`SearchShape`) is only that path
and recursion stack agree and hold visited nodes, which is all the rest of the
search needs. One lemma per action (`EnterRootPreserves` ...
`BacktrackPreserves`) shows the step; `SearchIsExact` and
`GraphCyclicIffSectionCyclic` lead from the invariant to the refinement.

The invariant of the sort is `SortInv`: the in-degree of a node is the number of
its callers still waiting, those not yet popped plus, while its neighbours are
being visited, the node popped last. `PendingIsCounted` gives the absence of
underflow; `DrainIsComplete` shows that an empty queue with nodes left would be
a self-feeding set, which the search has excluded.

**Imports** (`ImportsResolverProofs`), for any files, aliases, sections and
states of the files (`ImportsAssumption`): `TypeCorrect`, `CyclesAreReal`,
`DependenciesComeFirst`, `AliasesMeanFiles`, `SoundOnesSurvive`;
`ResolverImplementsCheck`: `Spec` implements `ImportCheck`; `EveryStepAdvances`,
the half of `ResolutionEnds` that speaks of steps. The active calls are a chain
of imports, each at the import that the next one serves (`StackInv`); a reported
chain is a piece of it. What a set closed under imports contains, it contains
with all that is called from there (`ReachInv`), which stands in for
reachability and needs no induction over paths. For the answer "resolved":
what has been passed is done (`PassedInv`), and as long as nothing has failed,
what is done is closed, sound and has no cycle (`CleanInv`). For the answer
"failed": a set that covers what `Main` depends on, without a fault in it,
excludes failure (`FailureInv`), since each failing step has a file to blame
(`SomeoneToBlame`). Names are the harder part (`NameInv`, `NamedRight`): where
the aliases of a covering set agree, every namespace is what some import says,
and the imports that a file has passed are all in its local table, those that
were skipped included. `NameInv` is used twice, for `AliasesMeanFiles` and to
show in `FailureInv` that agreeing aliases do not get a file rejected.

**Go binding** (`GoDatabaseProofs`), for every number of goroutines, loops,
native databases and versions (`GoAssumption`, `NobodyAssumption`):
`TypeCorrect`, `OneOwnerHolds`, `CallsGuarded`, and `NativeRulesKept`, the
refinement of `NativeHandle`. The invariant adds to these how many read locks a
goroutine holds at each place, and that only `RLock` sleeps (`LockInv`); what
handle a getter past `checkOpen` uses (`UseInv`); and whom `DisableHotReload`
stops (`JoinInv`). From them, a writer that was let in meets no native call
(`GrantedExcludes`). `OneOwner` carries the rest: a `Swap` exchanges two owners,
so that what `FreeOwned` and `FinishClose` free is live, nobody else's and not
in use.

**The loader's cache** (`SourceFilesProofs`), for any threads, files, versions
and size of the cache (`SourceFileAssumption`, `LoaderAssumption`):
`TypeCorrect`, `CacheKeepsUp`, `LoadsStayFresh`. `CacheNeverOlder` speaks of
later versions and a write could break it; what no write can break is that the
modified-time of an entry is that of a version no newer than its data
(`CacheInv`), which a call has carried from its stat to its insertion
(`CallInv`). Since the clock does not go back (`ClockInv`), a later version with
the entry's time encloses the data between two equal times (`StampFits`); that
gives the first property, and in `ServeCachedPreserves` the second.

**The watcher** (same module, `WatchedAssumption`): `WatcherTypeCorrect`,
`NothingNewMeansCurrent`. By the same order of reads, the data the watcher holds
is from no earlier version than its stamp (`StampInv`), and a reload under way
carries the time of some version of its file (`ReloadInv`). `ClockInv` is
shared: if the stamp is that of the file as it is, the data lies between two
equal times.

**The DLM files** (same module), for any number of runs, failures and deaths of
*one* compiler (`Compiler = {c}`; with two the property is false, see section 3):
`PipelineTypeCorrect`, `CleanRunsLeavePairs`, `ReportsAreTrue`, `ReadsAreSettled`.
The invariant says what each step of a run finds: an artifact that may be opened,
one that is empty, one with the run's own content (`WriteInv`); which artifacts a
run without failures has sealed by then (`CleanInv`); and of a read that began on
a settled pair, that neither file goes back to an older run, and that they stay
as they were until a new run begins (`ReadInv`).

**Compilation** (`CompileSourceProofs`), for any threads, loaders and sources
(`CompileAssumption`): `TypeCorrect`, `OwnEnumsSeen`, `VerdictsAreOwn`. For the
enums it takes that the lock is with the one compilation that is under it
(`LockInv`), and what that compilation has in the table already (`EnumInv`). The
verdict needs all stages: from the errors and the strategy that a load left
alone (`AloneInv`: it shares its loader with none under way) finds at each
place, `StageInv` says how far it has come: what was passed, what is kept, and
that under Halt an error means that a stage has stopped, or that a stray
character has left one behind for the analysis to stumble on. `VerdictIsOwn` has
nothing to say of the middle of a load, so that each stage's part must be in the
invariant; it is inductive because what others do to the manager ends `alone`,
and what they do to the table ends `undisturbed`.

**Merge** (`MergeProofs`), for any sources, keys, values and weights
(`MergeAssumption`): `TypeCorrect`, `BestWins`, `MergedStaysKept`,
`NothingRepeats`, `ConflictsAreReal`. What one source after another leaves is an
invariant of each key for itself: the content of an entry is that of the best
source so far, and every field of a group is its best holder's. It is inductive
only under the condition of the property, that no more than two sources hold the
key or the ranks are ordered (`SimpleDecides`): this is where the proof shows
why three unordered ones fail. The other three are invariants of the sources
merged so far, key by key. Of contents it must be known that they are made of
the sources' (`ContentInv`), and of a key that is not listed as a conflict, that
its content is still that of the one source it is put down to (`ConflictInv`);
otherwise a disagreement with that source would say nothing about the others.
That a merge has an error exactly if the strategy is `ThrowOnConflict` and a
conflict is listed is an invariant for itself (`ErrorInv`).
That a concatenation without duplicates has none and loses none is a fact about
a fold (`DedupedIs`). It is proved by induction on the length, which is had from
`LeastNumber`: a set of lengths without a least one is empty.

**Value resolution** (`ValueResolverProofs`), for any documents, functions,
limits and numbers of passes (`DocumentAssumption`, `BodyAssumption`):
`TypeCorrect`, `DepthComesBack`, `StuckIsAlwaysReal`, `ReadsStayFinal`,
`ResolvesAllItCan`. `DepthReturns` speaks only
of an idle interpreter; the invariant behind it (`DepthInv`) says of the stack
that the innermost list knows the depth, that each list of a function is one
deeper than the list that called it and each branch is not, so that returning
from any list of any nesting leaves the depth that was there before it. For
`StuckIsReal` it must be known, in the middle of a pass, that the calls gone by
without progress were blocked and still are, since only progress adds values,
and that each pass that ended without a verdict had a call succeed (`PassInv`).

`ReadsAreFinal` needs that the call of a property is over before the one in its
argument is run on its own (`OuterFirst`): both wait for the same name, and the
outer one is asked first. So no location without an inner call is written twice,
and what was read stays (`ReadInv`). What it reads at an alias is the value of a
literal that the chain of aliases from there leads to (`ShowInv`), which the
document shows; and no location is a bare name, so that phase 5 changes neither
(`NothingIsReplaceable`). `ResolvesWhatItCan` has three parts. Calls are misled
only for one of the reasons it gives: the interpreter is always at some depth
that its stack agrees with (`LevelInv`, `Kept`), zero if no call has left
anything, and without shadowed names the scope has what the gate found
(`OneInScope`). The other two are about runs in which none was misled. Nothing is
resolved out of nothing: no set of properties has its values from each other
only (`GroundInv`), which replaces induction over the order of resolution. And
nothing is left over: as long as there are enough alias passes,
each with progress makes one more alias known (`AliasInv`), so that after the
last only calls can still give an alias a value, and those do not. What is left
at the end then waits for itself only.

**The language server** (`HostsProofs`), for any number of texts
(`MaxTextsAssumption`): `TypeCorrect`, `QuietServerIsCurrent`,
`FreshAnswersAreNew`. The server tells documents apart by a version that starts
again with each opening, so that an analysis of an earlier opening could pass
for the present one. The invariant is about sessions (`SessionInv`): as long as
no message has overtaken a checked analysis, all analyses past their check and
the document are of the present opening, where the text and the version differ
by a constant. With it, the version on record is enough to know the text
(`PendingInv`, `CurrentInv`), also for a request that has waited (`RequestInv`).

**The C# binding** (`HostsProofs`), for any threads, handles, versions and events
(`BoundsAssumption`; `ReadersAssumption`: the readers are finitely many, which a
counter cannot do without): `DatabaseTypeCorrect`, `CallsAreOnLive`,
`NothingIsLeaked`, `EverySaveIsServed`. A handle that was loaded is known to its
reload alone until the exchange, and the one it replaces is left to that reload
(`HandleInv`). Counts are exact as long as no handle was replaced under a getter
(`CountInv`); after that they are still bounded by the getters that can have
added to them (`BoundInv`), which keeps the types. A disposed object has its
handle disposed, or a reload has yet to look at `_disposed` and will undo
(`DisposeInv`): the two orders in which `Dispose` and a reload can meet. The
newest save is installed, or an event, a wait or a reload is on the way with it,
and nobody holds an older one that could be installed later (`ServedInv`).

None of the proofs assumes anything beyond the named assumptions on constants,
each of which TLC evaluates on the instances of section 3.

Only model-checked: `ReturnsEndFunctions`, which uses a recursive operator (and
which the code violates); of `ResolutionEnds` of the imports, that the resolver
is never stuck, which is a matter of `ENABLED`; and all liveness
(`SortTerminates`, `ResolutionEnds` of values, `WatcherPicksUp`,
`EveryTextIsAnswered`, `CloseReturns`, `CloseReturnsOr`, `ChangeIsServed`),
which TLAPS does not support under fairness.

## 6. What is not modelled

Characters, grammar, AST shapes and formatting, which are most of the lines of
the repository: parsers, section analyzers, completion and hover texts are
functions of their input without state, concurrency or failure, and their data
is out of a model checker's reach. Ciphers and compressors; the wording of
diagnostics; the collector's scoping rules; the legacy `resolve_imports`;
downloads; temporary key files; audit files; CLI and the bindings without
threads. Of a compilation: the stages without shared state (enhancement, version
checks, the schema), the sections other than `@DATA`, imported files and what
their settings do to the error manager, the kinds and texts of
errors. Of value resolution: the enum values
of phase 1, group arrays, objects and dotted paths, the bodies of lambdas, and the values that expressions
compute. Of merging: the order of the output and a key that one source has
twice. `PROJECT.json` gives the reason for each. Two consequences to keep in
mind: the cache and watcher models have no imports, so they say nothing about a
change in an *imported* file, which the code does not look at; and under `Halt`,
the default strategy, a bad import ends the loop, so `SoundImportsSurvive` speaks
of the other two strategies only.

## 7. Plan

Ordered by what a defect would cost.

1. *ImportedFiles*: `LoaderCache` composed with the files that a source imports.
2. *Pipelines in parallel*: `DlmArtifacts` with two compilers on one pair.
3. *AuditFile*: append, rotation by date in seconds, locking, deaths in between.
4. *CloudCache and KeyResolver*: downloads and their keys; temporary key files
   and which reading of a key the answer uses.
5. *A promise for the bindings*: an object that serves one database at a time
   and frees each once, which `GoDatabase` and, where no handle is replaced under
   a getter, `CsDatabase` both implement; the proofs of both have its invariant
   already.
