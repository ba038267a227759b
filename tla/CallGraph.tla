------------------------------ MODULE CallGraph ------------------------------
(***************************************************************************)
(* The call graph of a @QUICKFUNCS section: FunctionCallCollector builds   *)
(* it, CallGraph::detect_cycles searches it depth first, and               *)
(* CycleDetectionValidator turns the outcome into a verdict on the section *)
(* (dixscript/src/Compiler/Core/Functions).                                *)
(*                                                                         *)
(* The Rust recursion of `dfs` is the sequence `frames`: one record per    *)
(* active call, with the neighbours its loop has still to look at.  Both   *)
(* loops run over hash maps and sets, so which element comes next is a     *)
(* nondeterministic choice.  A `return true` unwinds every active call     *)
(* without running the code after the loop: frames is emptied and path and *)
(* recursionStack keep what they held.                                     *)
(***************************************************************************)
EXTENDS Naturals, Sequences

CONSTANT Function   \* every function name a section may mention

VARIABLES
  section,         \* the section: defined function -> functions its body calls
  phase,           \* where validate_function_calls_doc stands
  adjacency,       \* adjacency_list; its domain is also all_functions
  roots,           \* the keys detect_cycles has still to try
  visited,         \* the DFS sets and path of detect_cycles
  recursionStack,
  path,
  frames,          \* the active calls of dfs, outermost first
  cycles,          \* the cycles reported, in order
  verdict          \* what the validator answered

graphVars  == <<section, adjacency>>
searchVars == <<roots, visited, recursionStack, path, frames, cycles>>
vars       == <<section, phase, adjacency, searchVars, verdict>>

Phases   == {"build", "detect", "detected", "done"}
Verdicts == {"pending", "valid", "invalid"}

SetOf(s) == {s[i] : i \in DOMAIN s}

-----------------------------------------------------------------------------
AllFunctions == DOMAIN adjacency
Defined      == DOMAIN section

(* add_function and add_edge for every call of f: callees become nodes even *)
(* when the section does not define them.                                   *)
WithFunction(graph, f, callees) ==
  [g \in DOMAIN graph \cup {f} \cup callees |->
     (IF g \in DOMAIN graph THEN graph[g] ELSE {})
       \cup (IF g = f THEN callees ELSE {})]

Init ==
  /\ section \in UNION {[D -> SUBSET Function] : D \in SUBSET Function}
  /\ phase = "build"
  /\ adjacency = << >>
  /\ roots = {} /\ visited = {} /\ recursionStack = {}
  /\ path = << >> /\ frames = << >> /\ cycles = << >>
  /\ verdict = "pending"

\* A function whose analysis has run is registered with all its calls.
Analyzed(f) == f \in AllFunctions /\ adjacency[f] = section[f]

\* build_call_graph: one iteration of its loop.
AnalyzeFunction(f) ==
  /\ phase = "build"
  /\ f \in Defined
  /\ ~Analyzed(f)
  /\ adjacency' = WithFunction(adjacency, f, section[f])
  /\ UNCHANGED <<section, phase, searchVars, verdict>>

\* detect_cycles on the finished graph: fresh sets, all keys to try.
StartDetection ==
  /\ phase = "build"
  /\ \A f \in Defined : Analyzed(f)
  /\ phase' = "detect"
  /\ roots' = AllFunctions
  /\ UNCHANGED <<graphVars, visited, recursionStack, path, frames, cycles, verdict>>

-----------------------------------------------------------------------------
Top == frames[Len(frames)]

\* The loop body of dfs picked neighbour m of the innermost active call.
RestOfLoop(m) == [frames EXCEPT ![Len(frames)].todo = @ \ {m}]

\* Faulty variant: the node is not put on the recursion stack.
EnterNodeOffStack(node, outer) ==
  /\ visited' = visited \cup {node}
  /\ path' = Append(path, node)
  /\ frames' = Append(outer, [node |-> node, todo |-> adjacency[node]])
  /\ UNCHANGED <<recursionStack, cycles>>

\* Entry of dfs(node): mark, push, and start over the neighbours.
EnterNode(node, outer) ==
  /\ visited' = visited \cup {node}
  /\ recursionStack' = recursionStack \cup {node}
  /\ path' = Append(path, node)
  /\ frames' = Append(outer, [node |-> node, todo |-> adjacency[node]])
  /\ UNCHANGED cycles

InDfs == phase = "detect" /\ frames # << >>

\* The outer loop of detect_cycles takes a key that is not visited ...
EnterRoot(node) ==
  /\ phase = "detect" /\ frames = << >>
  /\ node \in roots \ visited
  /\ roots' = roots \ {node}
  /\ EnterNode(node, << >>)
  /\ UNCHANGED <<graphVars, phase, verdict>>

\* ... or passes over one that is.
SkipRoot(node) ==
  /\ phase = "detect" /\ frames = << >>
  /\ node \in roots \cap visited
  /\ roots' = roots \ {node}
  /\ UNCHANGED <<graphVars, phase, visited, recursionStack, path, frames, cycles, verdict>>

Descend(m) ==
  /\ InDfs /\ m \in Top.todo
  /\ m \notin visited
  /\ EnterNode(m, RestOfLoop(m))
  /\ UNCHANGED <<graphVars, phase, roots, verdict>>

PositionInPath(m) ==
  CHOOSE i \in DOMAIN path : path[i] = m /\ \A j \in 1..(i-1) : path[j] # m

\* Faulty variant: the whole path is reported, with what led to the loop.
ReportWholePath(m) ==
  /\ InDfs /\ m \in Top.todo
  /\ m \in visited \cap recursionStack
  /\ cycles' = Append(cycles, Append(path, m))
  /\ frames' = << >>
  /\ UNCHANGED <<graphVars, phase, roots, visited, recursionStack, path, verdict>>

\* A visited neighbour on the recursion stack: record the loop, if the path
\* holds it, and return true through every active call.
ReportCycle(m) ==
  /\ InDfs /\ m \in Top.todo
  /\ m \in visited \cap recursionStack
  /\ cycles' = IF m \in SetOf(path)
               THEN Append(cycles,
                      Append(SubSeq(path, PositionInPath(m), Len(path)), m))
               ELSE cycles
  /\ frames' = << >>
  /\ UNCHANGED <<graphVars, phase, roots, visited, recursionStack, path, verdict>>

SkipExplored(m) ==
  /\ InDfs /\ m \in Top.todo
  /\ m \in visited \ recursionStack
  /\ frames' = RestOfLoop(m)
  /\ UNCHANGED <<graphVars, phase, roots, visited, recursionStack, path, cycles, verdict>>

\* The loop is over: pop the path, leave the stack, return false.
Backtrack ==
  /\ InDfs /\ Top.todo = {}
  /\ path' = SubSeq(path, 1, Len(path) - 1)
  /\ recursionStack' = recursionStack \ {Top.node}
  /\ frames' = SubSeq(frames, 1, Len(frames) - 1)
  /\ UNCHANGED <<graphVars, phase, roots, visited, cycles, verdict>>

FinishDetection ==
  /\ phase = "detect" /\ frames = << >> /\ roots = {}
  /\ phase' = "detected"
  /\ UNCHANGED <<graphVars, searchVars, verdict>>

-----------------------------------------------------------------------------
HasCycles == cycles # << >>

\* validate_all_calls_are_defined
AllCallsDefined == \A f \in Defined : adjacency[f] \subseteq Defined

\* The rest of validate_function_calls_doc.
Validate ==
  /\ phase = "detected"
  /\ phase' = "done"
  /\ verdict' = IF ~HasCycles /\ AllCallsDefined THEN "valid" ELSE "invalid"
  /\ UNCHANGED <<graphVars, searchVars>>

Build  == \E f \in Function : AnalyzeFunction(f)
Search == \E n \in Function :
            \/ EnterRoot(n)   \/ SkipRoot(n)
            \/ Descend(n)     \/ ReportCycle(n) \/ SkipExplored(n)

\* Building the graph and detect_cycles, which get_topological_sort runs too.
Detect == Build \/ StartDetection \/ Search \/ Backtrack \/ FinishDetection

Next == Detect \/ Validate

Spec == Init /\ [][Next]_vars /\ WF_vars(Next)

-----------------------------------------------------------------------------
Check == INSTANCE CallCheck

\* A list of functions that follows call edges back to where it began.
IsLoop(c) ==
  /\ Len(c) >= 2
  /\ SetOf(c) \subseteq AllFunctions
  /\ c[1] = c[Len(c)]
  /\ \A i \in 1..(Len(c) - 1) : c[i+1] \in adjacency[c[i]]

(* The types of the variables; an edge leads to a node of the graph (add_edge *)
(* registers both of its ends).                                               *)
TypeOK ==
  /\ Defined \subseteq Function
  /\ section \in [Defined -> SUBSET Function]
  /\ phase \in Phases
  /\ AllFunctions \subseteq Function
  /\ adjacency \in [AllFunctions -> SUBSET AllFunctions]
  /\ roots \in SUBSET Function
  /\ visited \in SUBSET Function
  /\ recursionStack \in SUBSET Function
  /\ path \in Seq(Function)
  /\ frames \in Seq([node : Function, todo : SUBSET Function])
  /\ cycles \in Seq(Seq(Function))
  /\ verdict \in Verdicts

(* The recursion stack and the current path always hold the same functions,  *)
(* also after an early `return true` has left both standing: so the lookup of *)
(* the start of a detected cycle never falls through without recording it    *)
(* (call_graph.rs, `if let Some(cycle_start_index)`).                        *)
StackIsPath == recursionStack = SetOf(path)

(* The first cycle reported is a real loop of calls, whatever order the hash *)
(* maps are walked in.  Later ones need not be: dfs leaves its path.     *)
FirstCycleIsLoop == HasCycles => IsLoop(cycles[1])

(* validate_function_calls_doc accepts exactly the sections without a cycle  *)
(* and without a call of an undefined function: it implements CallCheck.     *)
AnswersCorrectly == Check!Spec
=============================================================================
