------------------------ MODULE TopologicalSortProofs ------------------------
(***************************************************************************)
(* Proofs about CallGraph and TopologicalSort.  For every set of function  *)
(* names the search is exact (it implements CallCheck), the recursion      *)
(* stack and the path agree for ever, and the first cycle reported is one. *)
(* For every finite set of names an in-degree is never decremented below   *)
(* zero, the order returned lists callers before callees, and it is        *)
(* refused exactly for cyclic graphs.                                      *)
(***************************************************************************)
EXTENDS TopologicalSort, SequenceTheorems, FiniteSetTheorems, TLAPS

(***************************************************************************)
(* The inductive invariant.  A function is Explored when dfs has left it   *)
(* by returning false.  As long as nothing has been reported, everything   *)
(* an explored function calls is explored, and the explored part of the    *)
(* graph has no loop; the path is a chain of calls and is exactly the      *)
(* stack of active dfs calls.  Once something has been reported the path   *)
(* may hold leftovers below the active calls, and only the weaker          *)
(* SearchShape survives.                                                   *)
(***************************************************************************)
Explored == visited \ recursionStack

GraphMatchesSection ==
  /\ \A f \in AllFunctions :
       adjacency[f] = {} \/ (f \in Defined /\ adjacency[f] = section[f])
  /\ phase # "build" => \A f \in Defined : Analyzed(f)
  /\ phase = "build" =>
       /\ roots = {} /\ visited = {} /\ recursionStack = {}
       /\ path = << >> /\ frames = << >> /\ cycles = << >>

PathDistinct == \A i, j \in 1..Len(path) : path[i] = path[j] => i = j

FramesOnPath ==
  /\ Len(frames) <= Len(path)
  /\ \A i \in 1..Len(frames) :
       /\ path[Len(path) - Len(frames) + i] = frames[i].node
       /\ frames[i].todo \subseteq adjacency[frames[i].node]

SearchShape ==
  /\ StackIsPath
  /\ PathDistinct
  /\ FramesOnPath
  /\ recursionStack \subseteq visited
  /\ visited \subseteq AllFunctions
  /\ roots \subseteq AllFunctions
  /\ phase # "detect" => frames = << >>
  /\ phase \in {"detected", "done"} => roots = {}
  /\ (verdict = "pending") <=> (phase # "done")

PathIsChain == \A i \in 1..(Len(path) - 1) : path[i+1] \in adjacency[path[i]]

\* What the loop of the i-th active call has already been through.
LookedAt(i) == adjacency[frames[i].node] \ frames[i].todo

NothingFoundYet ==
  /\ Len(path) = Len(frames)
  /\ PathIsChain
  /\ \A f \in Explored : adjacency[f] \subseteq Explored
  /\ \A S \in SUBSET Explored : S # {} => ~Check!SelfFeeding(S, adjacency)
  /\ \A i \in 1..Len(frames) :
       LookedAt(i) \subseteq Explored \cup {frames[j].node : j \in {i+1} \cap DOMAIN frames}
  /\ phase # "build" => AllFunctions \subseteq roots \cup visited

(* The inductive invariant: what holds of the graph, of the search, of the    *)
(* first report, and of the explored part while there is no report.           *)
IInv ==
  /\ TypeOK
  /\ GraphMatchesSection
  /\ SearchShape
  /\ HasCycles => IsLoop(cycles[1])
  /\ ~HasCycles => NothingFoundYet

-----------------------------------------------------------------------------
(***************************************************************************)
(* Sequences.                                                              *)
(***************************************************************************)

(* Appending adds its element to the set of elements. *)
LEMMA SetOfAppend ==
  ASSUME NEW S, NEW s \in Seq(S), NEW e \in S
  PROVE  SetOf(Append(s, e)) = SetOf(s) \cup {e}
<1> DEFINE t == Append(s, e)
<1>1. /\ t \in Seq(S) /\ Len(t) = Len(s) + 1 /\ Len(s) \in Nat
      /\ \A i \in 1..Len(s) : t[i] = s[i]
      /\ t[Len(s) + 1] = e
  BY AppendProperties, LenProperties
<1>2. DOMAIN t = 1..(Len(s) + 1) /\ DOMAIN s = 1..Len(s)
  BY <1>1, LenProperties
<1>3. SetOf(t) \subseteq SetOf(s) \cup {e}
  <2> SUFFICES ASSUME NEW i \in 1..(Len(s) + 1) PROVE t[i] \in SetOf(s) \cup {e}
    BY <1>2 DEF SetOf
  <2>1. CASE i = Len(s) + 1
    BY <2>1, <1>1
  <2>2. CASE i # Len(s) + 1
    <3>1. i \in 1..Len(s) /\ t[i] = s[i]
      BY <2>2, <1>1
    <3> QED
      BY <3>1, <1>2 DEF SetOf
  <2> QED
    BY <2>1, <2>2
<1>4. SetOf(s) \subseteq SetOf(t)
  <2> SUFFICES ASSUME NEW i \in 1..Len(s) PROVE s[i] \in SetOf(t)
    BY <1>2 DEF SetOf
  <2>1. s[i] = t[i] /\ i \in DOMAIN t
    BY <1>1, <1>2
  <2> QED
    BY <2>1 DEF SetOf
<1>5. e \in SetOf(t)
  <2>1. e = t[Len(s) + 1] /\ (Len(s) + 1) \in DOMAIN t
    BY <1>1, <1>2
  <2> QED
    BY <2>1 DEF SetOf
<1> QED
  BY <1>3, <1>4, <1>5

(* Dropping the last element. *)
LEMMA FrontProperties ==
  ASSUME NEW S, NEW s \in Seq(S), s # << >>
  PROVE  /\ Len(s) \in Nat \ {0}
         /\ SubSeq(s, 1, Len(s) - 1) \in Seq(S)
         /\ Len(SubSeq(s, 1, Len(s) - 1)) = Len(s) - 1
         /\ \A i \in 1..(Len(s) - 1) : SubSeq(s, 1, Len(s) - 1)[i] = s[i]
<1> DEFINE n == Len(s) - 1
           t == SubSeq(s, 1, n)
<1>1. Len(s) \in Nat \ {0} /\ \A i \in 1..Len(s) : s[i] \in S
  BY EmptySeq, ElementOfSeq
<1>2. n \in Nat /\ 1 \in Int /\ n \in Int /\ \A i \in 1..n : s[i] \in S
  BY <1>1
<1> HIDE DEF n
<1>3. /\ t \in Seq(S)
      /\ Len(t) = IF 1 <= n THEN n - 1 + 1 ELSE 0
      /\ \A i \in 1..(n - 1 + 1) : t[i] = s[1 + i - 1]
  BY <1>2, SubSeqProperties
<1> HIDE DEF t
<1>4. Len(t) = n
  BY <1>2, <1>3
<1>5. ASSUME NEW i \in 1..n PROVE t[i] = s[i]
  <2>1. i \in 1..(n - 1 + 1) /\ 1 + i - 1 = i
    BY <1>2
  <2> QED
    BY <1>3, <2>1
<1> QED
  BY <1>1, <1>3, <1>4, <1>5 DEF t, n

(* Dropping the last element of a sequence without repetitions removes it *)
(* from the set of elements.                                              *)
LEMMA SetOfFront ==
  ASSUME NEW S, NEW s \in Seq(S), s # << >>,
         \A i, j \in 1..Len(s) : s[i] = s[j] => i = j
  PROVE  SetOf(SubSeq(s, 1, Len(s) - 1)) = SetOf(s) \ {s[Len(s)]}
<1> DEFINE t == SubSeq(s, 1, Len(s) - 1)
<1>1. /\ Len(s) \in Nat \ {0} /\ t \in Seq(S) /\ Len(t) = Len(s) - 1
      /\ \A i \in 1..(Len(s) - 1) : t[i] = s[i]
  BY FrontProperties
<1>2. DOMAIN t = 1..(Len(s) - 1) /\ DOMAIN s = 1..Len(s)
  BY <1>1, LenProperties
<1>3. ASSUME NEW i \in 1..(Len(s) - 1) PROVE t[i] \in SetOf(s) \ {s[Len(s)]}
  <2>1. i \in 1..Len(s) /\ t[i] = s[i] /\ i # Len(s) /\ Len(s) \in 1..Len(s)
    BY <1>1
  <2>2. s[i] # s[Len(s)]
    BY <2>1
  <2> QED
    BY <2>1, <2>2, <1>2 DEF SetOf
<1>4. ASSUME NEW i \in 1..Len(s), s[i] # s[Len(s)] PROVE s[i] \in SetOf(t)
  <2>1. i \in 1..(Len(s) - 1)
    BY <1>1, <1>4
  <2>2. s[i] = t[i] /\ i \in DOMAIN t
    BY <2>1, <1>1, <1>2
  <2> QED
    BY <2>2 DEF SetOf
<1> HIDE DEF t
<1>5. SetOf(t) \subseteq SetOf(s) \ {s[Len(s)]}
  BY <1>2, <1>3 DEF SetOf
<1>6. SetOf(s) \ {s[Len(s)]} \subseteq SetOf(t)
  BY <1>2, <1>4 DEF SetOf
<1> QED
  BY <1>5, <1>6 DEF t

(* A sequence whose indices are positions of elements of S. *)
LEMMA SetOfElements ==
  ASSUME NEW S, NEW s \in Seq(S)
  PROVE  /\ \A i \in 1..Len(s) : s[i] \in SetOf(s)
         /\ SetOf(s) \subseteq S
         /\ \A e \in SetOf(s) : \E i \in 1..Len(s) : s[i] = e
  BY LenProperties, ElementOfSeq DEF SetOf

-----------------------------------------------------------------------------
(* The first state satisfies the invariant: nothing has been visited. *)
LEMMA InitEstablishesIInv == Init => IInv
<1> SUFFICES ASSUME Init PROVE IInv
  OBVIOUS
<1>1. section \in [Defined -> SUBSET Function] /\ Defined \subseteq Function
  BY DEF Init, Defined
<1>2. AllFunctions = {}
  BY DEF Init, AllFunctions
<1>3. Len(path) = 0 /\ Len(frames) = 0 /\ SetOf(path) = {}
  BY DEF Init, SetOf
<1>4. adjacency \in [AllFunctions -> SUBSET AllFunctions]
  BY <1>2 DEF Init
<1>5. path \in Seq(Function) /\ frames \in Seq([node : Function, todo : SUBSET Function])
      /\ cycles \in Seq(Seq(Function))
  BY EmptySeq DEF Init
<1>6. TypeOK
  BY <1>1, <1>2, <1>4, <1>5 DEF TypeOK, Init, Phases, Verdicts
<1>7. GraphMatchesSection
  BY <1>2 DEF GraphMatchesSection, Init
<1>8. SearchShape
  BY <1>3 DEF SearchShape, StackIsPath, PathDistinct, FramesOnPath, Init
<1>9. NothingFoundYet
  BY <1>3 DEF NothingFoundYet, PathIsChain, Explored, Init
<1> QED
  BY <1>6, <1>7, <1>8, <1>9 DEF IInv, HasCycles, Init

(* Building the graph: the search has not begun, so only the graph itself and *)
(* the fact that it is the section's are at stake.                            *)
LEMMA AnalyzePreserves ==
  ASSUME IInv, NEW f \in Function, AnalyzeFunction(f)
  PROVE  IInv'
<1> USE DEF IInv
<1>1. /\ section' = section /\ phase' = "build" /\ phase = "build"
      /\ roots' = {} /\ visited' = {} /\ recursionStack' = {}
      /\ path' = << >> /\ frames' = << >> /\ cycles' = << >>
      /\ verdict' = verdict
  BY DEF AnalyzeFunction, searchVars, GraphMatchesSection
<1>2. f \in Defined /\ section[f] \in SUBSET Function
  BY DEF AnalyzeFunction, TypeOK
<1>3. AllFunctions' = AllFunctions \cup {f} \cup section[f]
  BY DEF AnalyzeFunction, AllFunctions, WithFunction
<1>4. \A g \in AllFunctions' : adjacency'[g] =
        (IF g \in AllFunctions THEN adjacency[g] ELSE {})
          \cup (IF g = f THEN section[f] ELSE {})
  BY <1>3 DEF AnalyzeFunction, AllFunctions, WithFunction
<1>5. adjacency' \in [AllFunctions' -> SUBSET AllFunctions']
  <2>1. \A g \in AllFunctions' : adjacency'[g] \in SUBSET AllFunctions'
    BY <1>3, <1>4 DEF TypeOK
  <2>2. adjacency' = [g \in AllFunctions' |-> adjacency'[g]]
    BY DEF AnalyzeFunction, AllFunctions, WithFunction
  <2> QED
    BY <2>1, <2>2
<1>6. TypeOK'
  BY <1>1, <1>2, <1>3, <1>5, EmptySeq DEF TypeOK, Phases, Verdicts, Defined
<1>7. GraphMatchesSection'
  <2>1. ASSUME NEW g \in AllFunctions'
        PROVE  adjacency'[g] = {} \/ (g \in Defined' /\ adjacency'[g] = section'[g])
    <3>1. CASE g = f
      BY <3>1, <1>1, <1>2, <1>4 DEF GraphMatchesSection, Defined
    <3>2. CASE g # f
      BY <3>2, <1>1, <1>4 DEF GraphMatchesSection, Defined
    <3> QED
      BY <3>1, <3>2
  <2> QED
    BY <2>1, <1>1 DEF GraphMatchesSection
<1>8. Len(path') = 0 /\ Len(frames') = 0 /\ SetOf(path') = {}
  BY <1>1 DEF SetOf
<1>9. SearchShape'
  BY <1>1, <1>8 DEF SearchShape, StackIsPath, PathDistinct, FramesOnPath
<1>10. NothingFoundYet'
  BY <1>1, <1>8 DEF NothingFoundYet, PathIsChain, Explored
<1> QED
  BY <1>1, <1>6, <1>7, <1>9, <1>10 DEF HasCycles

(* Starting detection: nothing is visited, and the graph is the section's. *)
LEMMA StartPreserves == IInv /\ StartDetection => IInv'
<1> SUFFICES ASSUME IInv, StartDetection PROVE IInv'
  OBVIOUS
<1> USE DEF IInv
<1>1. /\ section' = section /\ adjacency' = adjacency /\ verdict' = verdict
      /\ phase = "build" /\ phase' = "detect"
      /\ roots' = AllFunctions
      /\ visited' = {} /\ recursionStack' = {}
      /\ path' = << >> /\ frames' = << >> /\ cycles' = << >>
  BY DEF StartDetection, graphVars, GraphMatchesSection
<1>2. AllFunctions' = AllFunctions /\ Defined' = Defined
  BY <1>1 DEF AllFunctions, Defined
<1>3. TypeOK'
  BY <1>1, <1>2, EmptySeq DEF TypeOK, Phases
<1>4. GraphMatchesSection'
  BY <1>1, <1>2 DEF GraphMatchesSection, StartDetection, Analyzed
<1>5. Len(path') = 0 /\ Len(frames') = 0 /\ SetOf(path') = {}
  BY <1>1 DEF SetOf
<1>6. SearchShape'
  BY <1>1, <1>2, <1>5 DEF SearchShape, StackIsPath, PathDistinct, FramesOnPath
<1>7. NothingFoundYet'
  BY <1>1, <1>2, <1>5 DEF NothingFoundYet, PathIsChain, Explored
<1> QED
  BY <1>1, <1>3, <1>4, <1>6, <1>7 DEF HasCycles

-----------------------------------------------------------------------------
Frame == [node : Function, todo : SUBSET Function]

(* The graph does not change once it is built. *)
LEMMA GraphStays ==
  ASSUME IInv, phase # "build", phase' # "build",
         section' = section, adjacency' = adjacency
  PROVE  /\ GraphMatchesSection'
         /\ AllFunctions' = AllFunctions /\ Defined' = Defined
         /\ \A c : IsLoop(c) => IsLoop(c)'
  BY DEF IInv, GraphMatchesSection, AllFunctions, Defined, Analyzed, IsLoop, SetOf

(* A neighbour taken from the innermost loop: the active calls keep their   *)
(* nodes, and only the innermost has one neighbour less to look at.         *)
LEMMA RestOfLoopProperties ==
  ASSUME IInv, frames # << >>, NEW m \in Top.todo
  PROVE  /\ Len(frames) \in Nat \ {0}
         /\ RestOfLoop(m) \in Seq(Frame)
         /\ Len(RestOfLoop(m)) = Len(frames)
         /\ \A i \in 1..Len(frames) :
              /\ RestOfLoop(m)[i].node = frames[i].node
              /\ RestOfLoop(m)[i].todo =
                   IF i = Len(frames) THEN frames[i].todo \ {m} ELSE frames[i].todo
         /\ m \in adjacency[Top.node] /\ m \in AllFunctions
         /\ Top.node \in AllFunctions
<1> USE DEF IInv
<1>1. frames \in Seq(Frame)
  BY DEF TypeOK, Frame
<1>2. Len(frames) \in Nat \ {0} /\ \A i \in 1..Len(frames) : frames[i] \in Frame
  BY <1>1, EmptySeq, ElementOfSeq
<1>3. Top = frames[Len(frames)] /\ Len(frames) \in 1..Len(frames)
  BY <1>2 DEF Top
<1> DEFINE e == [frames[Len(frames)] EXCEPT !.todo = @ \ {m}]
<1>4. /\ e \in Frame /\ e.node = frames[Len(frames)].node
      /\ e.todo = frames[Len(frames)].todo \ {m}
  BY <1>2, <1>3 DEF Frame
<1>5. RestOfLoop(m) = [frames EXCEPT ![Len(frames)] = e]
  BY DEF RestOfLoop
<1> HIDE DEF e
<1>6. /\ RestOfLoop(m) \in Seq(Frame)
      /\ Len(RestOfLoop(m)) = Len(frames)
      /\ \A i \in 1..Len(frames) :
           RestOfLoop(m)[i] = IF i = Len(frames) THEN e ELSE frames[i]
  BY <1>1, <1>3, <1>4, <1>5, ExceptSeq
<1>7. frames[Len(frames)].todo \subseteq adjacency[Top.node]
  BY <1>3 DEF SearchShape, FramesOnPath
<1>8. Top.node \in AllFunctions
  <2>1. /\ path[Len(path) - Len(frames) + Len(frames)] = Top.node
        /\ Len(frames) <= Len(path)
    BY <1>3 DEF SearchShape, FramesOnPath
  <2>2. path \in Seq(Function) /\ Len(path) \in Nat
    BY LenProperties DEF TypeOK
  <2>3. Len(path) \in 1..Len(path) /\ Len(path) - Len(frames) + Len(frames) = Len(path)
    BY <1>2, <2>1, <2>2
  <2>4. Top.node \in SetOf(path)
    BY <2>1, <2>2, <2>3, SetOfElements
  <2> QED
    BY <2>4 DEF SearchShape, StackIsPath
<1>9. m \in adjacency[Top.node]
  BY <1>3, <1>7
<1>10. m \in AllFunctions
  BY <1>8, <1>9 DEF TypeOK
<1> QED
  BY <1>2, <1>4, <1>6, <1>8, <1>9, <1>10

(* Entering dfs(node) keeps the shape of the search, whichever loop the call *)
(* came from.                                                                *)
LEMMA EnterNodeKeepsShape ==
  ASSUME IInv, phase = "detect", UNCHANGED <<graphVars, phase, verdict>>,
         roots' \subseteq roots,
         NEW node \in AllFunctions \ visited,
         NEW outer \in Seq(Frame), Len(outer) = Len(frames),
         \A i \in 1..Len(frames) : /\ outer[i].node = frames[i].node
                                   /\ outer[i].todo \subseteq frames[i].todo,
         EnterNode(node, outer)
  PROVE  /\ TypeOK' /\ GraphMatchesSection' /\ SearchShape'
         /\ Len(path') = Len(path) + 1 /\ Len(frames') = Len(frames) + 1
         /\ \A i \in 1..Len(path) : path'[i] = path[i]
         /\ path'[Len(path) + 1] = node
         /\ \A i \in 1..Len(frames) : frames'[i] = outer[i]
         /\ frames'[Len(frames) + 1] = [node |-> node, todo |-> adjacency[node]]
<1> USE DEF IInv
<1> DEFINE e == [node |-> node, todo |-> adjacency[node]]
<1>1. /\ section' = section /\ adjacency' = adjacency /\ phase' = phase
      /\ verdict' = verdict /\ cycles' = cycles
      /\ visited' = visited \cup {node}
      /\ recursionStack' = recursionStack \cup {node}
      /\ path' = Append(path, node)
      /\ frames' = Append(outer, e)
  BY DEF EnterNode, graphVars
<1>2. /\ GraphMatchesSection' /\ AllFunctions' = AllFunctions /\ Defined' = Defined
  BY <1>1, GraphStays
<1>3. node \in Function /\ e \in Frame /\ path \in Seq(Function)
  BY DEF TypeOK, Frame
<1>4. /\ path' \in Seq(Function) /\ Len(path') = Len(path) + 1
      /\ \A i \in 1..Len(path) : path'[i] = path[i]
      /\ path'[Len(path) + 1] = node
  BY <1>1, <1>3, AppendProperties
<1> HIDE DEF e
<1>5. /\ frames' \in Seq(Frame) /\ Len(frames') = Len(frames) + 1
      /\ \A i \in 1..Len(frames) : frames'[i] = outer[i]
      /\ frames'[Len(frames) + 1] = e
  BY <1>1, <1>3, AppendProperties
<1>6. Len(path) \in Nat /\ Len(frames) \in Nat
  BY LenProperties DEF TypeOK
<1>7. TypeOK'
  BY <1>1, <1>2, <1>3, <1>4, <1>5 DEF TypeOK, Frame
<1>8. StackIsPath'
  <2>1. SetOf(path') = SetOf(path) \cup {node}
    BY <1>1, <1>3, SetOfAppend
  <2> QED
    BY <1>1, <2>1 DEF SearchShape, StackIsPath
<1>9. PathDistinct'
  <2>1. \A i \in 1..Len(path) : path[i] # node
    BY <1>3, SetOfElements DEF SearchShape, StackIsPath
  <2>2. \A i, j \in 1..Len(path) : path[i] = path[j] => i = j
    BY DEF SearchShape, PathDistinct
  <2>3. ASSUME NEW i \in 1..(Len(path) + 1), NEW j \in 1..(Len(path) + 1), path'[i] = path'[j]
        PROVE  i = j
    BY <1>4, <1>6, <2>1, <2>2, <2>3
  <2> QED
    BY <2>3, <1>4 DEF PathDistinct
<1>10. FramesOnPath'
  <2>1. /\ Len(frames) <= Len(path)
        /\ \A i \in 1..Len(frames) :
             /\ path[Len(path) - Len(frames) + i] = frames[i].node
             /\ frames[i].todo \subseteq adjacency[frames[i].node]
    BY DEF SearchShape, FramesOnPath
  <2>2. e.node = node /\ e.todo = adjacency[node]
    BY DEF e
  <2>3. ASSUME NEW i \in 1..(Len(frames) + 1)
        PROVE  /\ path'[(Len(path) + 1) - (Len(frames) + 1) + i] = frames'[i].node
               /\ frames'[i].todo \subseteq adjacency[frames'[i].node]
    <3>1. CASE i = Len(frames) + 1
      <4>1. (Len(path) + 1) - (Len(frames) + 1) + i = Len(path) + 1
        BY <3>1, <1>6
      <4> QED
        BY <3>1, <4>1, <1>4, <1>5, <2>2
    <3>2. CASE i # Len(frames) + 1
      <4>1. /\ i \in 1..Len(frames)
            /\ (Len(path) + 1) - (Len(frames) + 1) + i = Len(path) - Len(frames) + i
            /\ Len(path) - Len(frames) + i \in 1..Len(path)
        BY <3>2, <1>6, <2>1
      <4> QED
        BY ZenonT(40), <4>1, <1>4, <1>5, <2>1
    <3> QED
      BY <3>1, <3>2
  <2>4. Len(frames') <= Len(path')
    BY <2>1, <1>4, <1>5, <1>6
  <2>5. ASSUME NEW i \in 1..Len(frames')
        PROVE  /\ path'[Len(path') - Len(frames') + i] = frames'[i].node
               /\ frames'[i].todo \subseteq adjacency'[frames'[i].node]
    <3>1. i \in 1..(Len(frames) + 1)
      BY <1>5
    <3>2. Len(path') - Len(frames') + i = (Len(path) + 1) - (Len(frames) + 1) + i
      BY <1>4, <1>5
    <3> QED
      BY <3>1, <3>2, <2>3, <1>1
  <2> QED
    BY <2>4, <2>5 DEF FramesOnPath
<1>11. SearchShape'
  BY <1>1, <1>2, <1>8, <1>9, <1>10 DEF SearchShape
<1> QED
  BY <1>2, <1>4, <1>5, <1>7, <1>11 DEF e

(* Entering a root that is not visited: the path becomes that root alone. *)
LEMMA EnterRootPreserves ==
  ASSUME IInv, NEW node \in Function, EnterRoot(node)
  PROVE  IInv'
<1> USE DEF IInv
<1>1. /\ phase = "detect" /\ frames = << >> /\ node \in roots \ visited
      /\ UNCHANGED <<graphVars, phase, verdict>>
      /\ roots' = roots \ {node}
      /\ EnterNode(node, << >>)
  BY DEF EnterRoot
<1>2. /\ << >> \in Seq(Frame) /\ Len(frames) = 0 /\ Len(<< >>) = Len(frames)
      /\ node \in AllFunctions \ visited
  BY <1>1, EmptySeq DEF SearchShape
<1>3. /\ TypeOK' /\ GraphMatchesSection' /\ SearchShape'
      /\ Len(path') = Len(path) + 1 /\ Len(frames') = 1
      /\ frames'[1] = [node |-> node, todo |-> adjacency[node]]
  <2>1. roots' \subseteq roots /\ 1..Len(frames) = {}
    BY <1>1, <1>2
  <2>2. \A i \in 1..Len(frames) : /\ << >>[i].node = frames[i].node
                                  /\ << >>[i].todo \subseteq frames[i].todo
    BY <2>1
  <2>3. /\ TypeOK' /\ GraphMatchesSection' /\ SearchShape'
        /\ Len(path') = Len(path) + 1 /\ Len(frames') = Len(frames) + 1
        /\ frames'[Len(frames) + 1] = [node |-> node, todo |-> adjacency[node]]
    BY <1>1, <1>2, <2>1, <2>2, EnterNodeKeepsShape
  <2> QED
    BY <1>2, <2>3
<1>4. /\ section' = section /\ adjacency' = adjacency /\ cycles' = cycles
      /\ visited' = visited \cup {node}
      /\ recursionStack' = recursionStack \cup {node}
      /\ phase' = "detect"
  BY <1>1 DEF EnterNode, graphVars
<1>5. AllFunctions' = AllFunctions /\ (HasCycles' <=> HasCycles)
  BY <1>4 DEF AllFunctions, HasCycles
<1>6. HasCycles' => IsLoop(cycles[1])'
  BY <1>1, <1>4, <1>5, GraphStays
<1>7. ASSUME ~HasCycles PROVE NothingFoundYet'
  <2>1. NothingFoundYet
    BY <1>7
  <2>2. Explored' = Explored
    BY <1>1, <1>4 DEF Explored
  <2>3. Len(path') = 1
    BY <1>2, <1>3, <2>1 DEF NothingFoundYet
  <2>4. PathIsChain'
    BY <2>3 DEF PathIsChain
  <2>5. \A j \in 1..1 : LookedAt(j)' = {}
    BY <1>3, <1>4 DEF LookedAt
  <2>6. AllFunctions' \subseteq roots' \cup visited'
    BY <1>1, <1>4, <1>5, <2>1 DEF NothingFoundYet
  <2> QED
    BY <1>3, <1>4, <2>1, <2>2, <2>3, <2>4, <2>5, <2>6
    DEF NothingFoundYet, Check!SelfFeeding
<1> QED
  BY <1>3, <1>5, <1>6, <1>7

(* Descending into a neighbour: the path grows by one call edge. *)
LEMMA DescendPreserves ==
  ASSUME IInv, NEW m \in Function, Descend(m)
  PROVE  IInv'
<1> USE DEF IInv
<1>1. /\ phase = "detect" /\ frames # << >> /\ m \in Top.todo /\ m \notin visited
      /\ UNCHANGED <<graphVars, phase, verdict>>
      /\ roots' = roots
      /\ EnterNode(m, RestOfLoop(m))
  BY DEF Descend, InDfs
<1>2. /\ Len(frames) \in Nat \ {0}
      /\ RestOfLoop(m) \in Seq(Frame)
      /\ Len(RestOfLoop(m)) = Len(frames)
      /\ \A i \in 1..Len(frames) :
           /\ RestOfLoop(m)[i].node = frames[i].node
           /\ RestOfLoop(m)[i].todo =
                IF i = Len(frames) THEN frames[i].todo \ {m} ELSE frames[i].todo
      /\ m \in adjacency[Top.node] /\ m \in AllFunctions
  BY <1>1, RestOfLoopProperties
<1>3. /\ TypeOK' /\ GraphMatchesSection' /\ SearchShape'
      /\ Len(path') = Len(path) + 1 /\ Len(frames') = Len(frames) + 1
      /\ \A i \in 1..Len(path) : path'[i] = path[i]
      /\ path'[Len(path) + 1] = m
      /\ \A i \in 1..Len(frames) : frames'[i] = RestOfLoop(m)[i]
      /\ frames'[Len(frames) + 1] = [node |-> m, todo |-> adjacency[m]]
  <2>1. m \in AllFunctions \ visited /\ roots' \subseteq roots
    BY <1>1, <1>2
  <2>2. \A i \in 1..Len(frames) : /\ RestOfLoop(m)[i].node = frames[i].node
                                  /\ RestOfLoop(m)[i].todo \subseteq frames[i].todo
    BY <1>2
  <2> QED
    BY <1>1, <1>2, <2>1, <2>2, EnterNodeKeepsShape
<1>4. /\ section' = section /\ adjacency' = adjacency /\ cycles' = cycles
      /\ visited' = visited \cup {m}
      /\ recursionStack' = recursionStack \cup {m}
      /\ phase' = "detect"
  BY <1>1 DEF EnterNode, graphVars
<1>5. AllFunctions' = AllFunctions /\ (HasCycles' <=> HasCycles)
  BY <1>4 DEF AllFunctions, HasCycles
<1>6. HasCycles' => IsLoop(cycles[1])'
  BY <1>1, <1>4, <1>5, GraphStays
<1>7. ASSUME ~HasCycles PROVE NothingFoundYet'
  <2>1. NothingFoundYet
    BY <1>7
  <2>2. Explored' = Explored
    BY <1>1, <1>4 DEF Explored
  <2>3. Len(path') = Len(frames')
    BY <1>3, <2>1 DEF NothingFoundYet
  <2>4. path[Len(path)] = Top.node
    <3>1. /\ Len(path) = Len(frames) /\ Len(frames) \in 1..Len(frames)
          /\ Len(path) - Len(frames) + Len(frames) = Len(path)
      BY <1>2, <2>1 DEF NothingFoundYet
    <3> QED
      BY <3>1 DEF SearchShape, FramesOnPath, Top
  <2>5. PathIsChain'
    <3>1. Len(path) \in Nat \ {0}
      BY <1>2, <2>1 DEF NothingFoundYet
    <3>2. ASSUME NEW i \in 1..Len(path) PROVE path'[i+1] \in adjacency[path'[i]]
      <4>1. CASE i = Len(path)
        BY <4>1, <3>1, <1>2, <1>3, <2>4
      <4>2. CASE i # Len(path)
        <5>1. i \in 1..(Len(path) - 1) /\ i + 1 \in 1..Len(path)
          BY <4>2, <3>1
        <5> QED
          BY <5>1, <1>3, <2>1 DEF NothingFoundYet, PathIsChain
      <4> QED
        BY <4>1, <4>2
    <3>3. Len(path') - 1 = Len(path)
      BY <1>3, <3>1
    <3> QED
      BY <3>2, <3>3, <1>4 DEF PathIsChain
  <2>6. ASSUME NEW i \in 1..Len(frames')
        PROVE  LookedAt(i)' \subseteq Explored'
                 \cup {frames'[j].node : j \in {i+1} \cap DOMAIN frames'}
    <3> DEFINE Called(k) == {frames'[j].node : j \in {k+1} \cap DOMAIN frames'}
    <3>1. DOMAIN frames' = 1..(Len(frames) + 1) /\ frames' \in Seq(Frame)
      BY <1>3, LenProperties DEF TypeOK, Frame
    <3>2. DOMAIN frames = 1..Len(frames)
      BY LenProperties DEF TypeOK
    <3>3. CASE i = Len(frames) + 1
      <4>1. LookedAt(i)' = {}
        BY <3>3, <1>3, <1>4 DEF LookedAt
      <4> QED
        BY <4>1
    <3>4. CASE i = Len(frames)
      <4>1. /\ frames'[i].node = frames[i].node
            /\ frames'[i].todo = frames[i].todo \ {m}
        <5>1. i \in 1..Len(frames) /\ frames'[i] = RestOfLoop(m)[i]
          BY <3>4, <1>2, <1>3
        <5> QED
          BY <5>1, <3>4, <1>2
      <4>2. LookedAt(i)' \subseteq LookedAt(i) \cup {m}
        BY <4>1, <1>4 DEF LookedAt
      <4>3. {i+1} \cap DOMAIN frames = {}
        BY <3>4, <3>2, <1>2
      <4>4. LookedAt(i) \subseteq Explored
        BY <4>3, <3>4, <1>2, <2>1 DEF NothingFoundYet
      <4>5. m \in Called(i)
        <5>1. (i + 1) \in {i+1} \cap DOMAIN frames' /\ frames'[i+1].node = m
          BY <3>1, <3>4, <1>2, <1>3
        <5> QED
          BY <5>1
      <4> QED
        BY <4>2, <4>4, <4>5, <2>2
    <3>5. CASE i \in 1..(Len(frames) - 1)
      <4>1. i \in 1..Len(frames) /\ i + 1 \in 1..Len(frames) /\ i # Len(frames)
        BY <3>5, <1>2
      <4>2. /\ frames'[i].node = frames[i].node /\ frames'[i].todo = frames[i].todo
            /\ frames'[i+1].node = frames[i+1].node
        BY <4>1, <1>2, <1>3
      <4>3. LookedAt(i)' = LookedAt(i)
        BY <4>2, <1>4 DEF LookedAt
      <4>4. LookedAt(i) \subseteq Explored \cup {frames[i+1].node}
        BY <4>1, <2>1 DEF NothingFoundYet
      <4>5. frames[i+1].node \in Called(i)
        <5>1. (i + 1) \in {i+1} \cap DOMAIN frames'
          BY <4>1, <3>1, <1>2
        <5> QED
          BY <5>1, <4>2
      <4> QED
        BY <4>3, <4>4, <4>5, <2>2
    <3> QED
      BY <3>3, <3>4, <3>5, <1>2, <1>3
  <2>7. AllFunctions' \subseteq roots' \cup visited'
    BY <1>1, <1>4, <1>5, <2>1 DEF NothingFoundYet
  <2> QED
    BY <1>4, <2>1, <2>2, <2>3, <2>5, <2>6, <2>7
    DEF NothingFoundYet, Check!SelfFeeding
<1> QED
  BY <1>3, <1>5, <1>6, <1>7

(* Passing over a visited root changes only the keys still to try. *)
LEMMA SkipRootPreserves ==
  ASSUME IInv, NEW node \in Function, SkipRoot(node)
  PROVE  IInv'
<1> USE DEF IInv
<1>1. /\ phase = "detect" /\ node \in visited
      /\ section' = section /\ adjacency' = adjacency /\ phase' = phase
      /\ verdict' = verdict /\ cycles' = cycles /\ visited' = visited
      /\ recursionStack' = recursionStack /\ path' = path /\ frames' = frames
      /\ roots' = roots \ {node}
  BY DEF SkipRoot, graphVars
<1>2. AllFunctions' = AllFunctions /\ Defined' = Defined /\ GraphMatchesSection'
  BY <1>1, GraphStays
<1>3. TypeOK'
  BY <1>1, <1>2 DEF TypeOK
<1>4. SearchShape'
  BY <1>1, <1>2 DEF SearchShape, StackIsPath, PathDistinct, FramesOnPath
<1>5. HasCycles' => IsLoop(cycles[1])'
  BY <1>1, GraphStays DEF HasCycles
<1>6. ~HasCycles' => NothingFoundYet'
  BY <1>1, <1>2
  DEF HasCycles, NothingFoundYet, PathIsChain, Explored, LookedAt, Check!SelfFeeding
<1> QED
  BY <1>2, <1>3, <1>4, <1>5, <1>6

(* The innermost active call is the last function on the path. *)
LEMMA TopIsLast ==
  ASSUME IInv, frames # << >>
  PROVE  /\ Len(frames) \in Nat \ {0} /\ Len(path) \in Nat \ {0}
         /\ path \in Seq(Function) /\ path # << >>
         /\ path[Len(path)] = Top.node
<1> USE DEF IInv
<1>1. frames \in Seq(Frame) /\ path \in Seq(Function)
  BY DEF TypeOK, Frame
<1>2. Len(frames) \in Nat \ {0} /\ Len(path) \in Nat
  BY <1>1, EmptySeq, LenProperties
<1>3. Len(frames) <= Len(path) /\ path[Len(path) - Len(frames) + Len(frames)] = Top.node
  BY <1>2 DEF SearchShape, FramesOnPath, Top
<1>4. Len(path) \in Nat \ {0} /\ Len(path) - Len(frames) + Len(frames) = Len(path)
  BY <1>2, <1>3
<1>5. path # << >>
  BY <1>4, EmptySeq
<1> QED
  BY <1>1, <1>2, <1>3, <1>4, <1>5

(* What ReportCycle adds: the part of the path from the neighbour on, closed. *)
LEMMA ReportedCycle ==
  ASSUME IInv, frames # << >>, NEW m \in Top.todo, m \in recursionStack
  PROVE  LET c == Append(SubSeq(path, PositionInPath(m), Len(path)), m)
         IN  /\ c \in Seq(Function)
             /\ ~HasCycles => IsLoop(c)
<1> USE DEF IInv
<1> DEFINE p == PositionInPath(m)
           t == SubSeq(path, p, Len(path))
           c == Append(t, m)
<1>1. /\ Len(path) \in Nat \ {0} /\ path \in Seq(Function) /\ path[Len(path)] = Top.node
  BY TopIsLast
<1>2. m \in adjacency[Top.node] /\ m \in AllFunctions /\ m \in Function
  BY RestOfLoopProperties DEF TypeOK
<1>3. DOMAIN path = 1..Len(path) /\ \A i \in 1..Len(path) : path[i] \in Function
  BY <1>1, LenProperties, ElementOfSeq
<1>4. p \in 1..Len(path) /\ path[p] = m
  <2>1. PICK i \in 1..Len(path) : path[i] = m
    BY <1>1, SetOfElements DEF SearchShape, StackIsPath
  <2>2. \A j \in 1..(i-1) : path[j] # m
    <3> SUFFICES ASSUME NEW j \in 1..(i-1), path[j] = m PROVE FALSE
      OBVIOUS
    <3>1. j \in 1..Len(path) /\ j # i
      BY <1>1
    <3> QED
      BY <2>1, <3>1 DEF SearchShape, PathDistinct
  <2>3. \E k \in DOMAIN path : path[k] = m /\ \A j \in 1..(k-1) : path[j] # m
    BY <1>3, <2>1, <2>2
  <2> QED
    BY <1>3, <2>3 DEF PositionInPath
<1> HIDE DEF p
<1> DEFINE n == Len(path) - p + 1
<1>5. /\ t \in Seq(Function) /\ Len(t) = n
      /\ \A i \in 1..n : t[i] = path[p + i - 1]
  <2>1. p \in Int /\ Len(path) \in Int /\ \A i \in p..Len(path) : path[i] \in Function
    BY <1>1, <1>3, <1>4
  <2>2. /\ t \in Seq(Function)
        /\ Len(t) = IF p <= Len(path) THEN Len(path) - p + 1 ELSE 0
        /\ \A i \in 1..(Len(path) - p + 1) : t[i] = path[p + i - 1]
    BY <2>1, SubSeqProperties
  <2> HIDE DEF t
  <2>3. p <= Len(path)
    BY <1>1, <1>4
  <2> QED
    BY <2>2, <2>3
<1>6. n \in Nat \ {0}
  BY <1>1, <1>4
<1> HIDE DEF t
<1>7. /\ c \in Seq(Function) /\ Len(c) = n + 1
      /\ \A i \in 1..n : c[i] = path[p + i - 1]
      /\ c[n + 1] = m
  BY <1>2, <1>5, AppendProperties
<1> HIDE DEF c
<1>8. ASSUME ~HasCycles PROVE IsLoop(c)
  <2>1. Len(c) >= 2
    BY <1>6, <1>7
  <2>2. SetOf(c) \subseteq AllFunctions
    <3> SUFFICES ASSUME NEW i \in 1..(n + 1) PROVE c[i] \in AllFunctions
      BY <1>7, SetOfElements
    <3>1. CASE i = n + 1
      BY <3>1, <1>2, <1>7
    <3>2. CASE i # n + 1
      <4>1. i \in 1..n /\ p + i - 1 \in 1..Len(path)
        BY <3>2, <1>1, <1>4, <1>6 DEF n
      <4>2. path[p + i - 1] \in SetOf(path)
        BY <4>1, <1>1, SetOfElements
      <4> QED
        BY <4>1, <4>2, <1>7 DEF SearchShape, StackIsPath
    <3> QED
      BY <3>1, <3>2
  <2>3. c[1] = c[Len(c)]
    <3>1. 1 \in 1..n /\ p + 1 - 1 = p
      BY <1>4, <1>6
    <3> QED
      BY <3>1, <1>4, <1>7
  <2>4. ASSUME NEW i \in 1..n PROVE c[i+1] \in adjacency[c[i]]
    <3>1. CASE i = n
      <4>1. p + n - 1 = Len(path)
        BY <1>1, <1>4 DEF n
      <4>2. c[n] = Top.node
        BY <4>1, <1>1, <1>6, <1>7
      <4> QED
        BY <3>1, <4>2, <1>2, <1>7
    <3>2. CASE i # n
      <4>1. /\ i + 1 \in 1..n /\ p + i - 1 \in 1..(Len(path) - 1)
            /\ p + (i + 1) - 1 = (p + i - 1) + 1
        BY <3>2, <1>1, <1>4, <1>6 DEF n
      <4>2. path[(p + i - 1) + 1] \in adjacency[path[p + i - 1]]
        BY <4>1, <1>8 DEF NothingFoundYet, PathIsChain
      <4> QED
        BY <4>1, <4>2, <1>7
    <3> QED
      BY <3>1, <3>2
  <2>5. \A i \in 1..(Len(c) - 1) : c[i+1] \in adjacency[c[i]]
    <3>1. Len(c) - 1 = n
      BY <1>6, <1>7
    <3> QED
      BY <3>1, <2>4
  <2> QED
    BY <2>1, <2>2, <2>3, <2>5 DEF IsLoop
<1> QED
  BY <1>7, <1>8 DEF c, t, p

(* Reporting a cycle: frames are emptied, the stack and the path stay as they *)
(* are, and the first report is a loop of the graph.                          *)
LEMMA ReportCyclePreserves ==
  ASSUME IInv, NEW m \in Function, ReportCycle(m)
  PROVE  IInv'
<1> USE DEF IInv
<1> DEFINE c == Append(SubSeq(path, PositionInPath(m), Len(path)), m)
<1>1. /\ phase = "detect" /\ frames # << >> /\ m \in Top.todo
      /\ m \in recursionStack
      /\ section' = section /\ adjacency' = adjacency /\ phase' = phase
      /\ verdict' = verdict /\ visited' = visited /\ roots' = roots
      /\ recursionStack' = recursionStack /\ path' = path /\ frames' = << >>
  BY DEF ReportCycle, InDfs, graphVars
<1>2. cycles' = Append(cycles, c)
  BY <1>1 DEF ReportCycle, SearchShape, StackIsPath
<1>3. AllFunctions' = AllFunctions /\ Defined' = Defined /\ GraphMatchesSection'
      /\ \A d : IsLoop(d) => IsLoop(d)'
  BY <1>1, GraphStays
<1>4. c \in Seq(Function) /\ (~HasCycles => IsLoop(c))
  BY <1>1, ReportedCycle
<1> HIDE DEF c
<1>5. cycles \in Seq(Seq(Function)) /\ Len(cycles) \in Nat
  BY LenProperties DEF TypeOK
<1>6. /\ cycles' \in Seq(Seq(Function)) /\ cycles' # << >>
      /\ \A i \in 1..Len(cycles) : cycles'[i] = cycles[i]
      /\ cycles'[Len(cycles) + 1] = c
  BY SMTT(20), <1>2, <1>4, <1>5, AppendProperties
<1>7. TypeOK'
  BY <1>1, <1>3, <1>6, EmptySeq DEF TypeOK
<1>8. SearchShape'
  <2>1. Len(frames') = 0 /\ Len(path) \in Nat
    BY <1>1, LenProperties DEF TypeOK
  <2> QED
    BY <2>1, <1>1, <1>3 DEF SearchShape, StackIsPath, PathDistinct, FramesOnPath
<1>9. IsLoop(cycles[1])'
  <2>1. CASE HasCycles
    <3>1. Len(cycles) \in Nat \ {0}
      BY <2>1, <1>5, EmptySeq DEF HasCycles
    <3>2. cycles'[1] = cycles[1]
      BY <3>1, <1>6
    <3>3. IsLoop(cycles[1])
      BY <2>1
    <3> QED
      BY <3>2, <3>3, <1>1, <1>3 DEF IsLoop, AllFunctions, SetOf
  <2>2. CASE ~HasCycles
    <3>1. Len(cycles) = 0
      BY <2>2 DEF HasCycles
    <3>2. cycles'[1] = c
      BY <3>1, <1>6
    <3> QED
      BY <3>2, <2>2, <1>1, <1>3, <1>4 DEF IsLoop, AllFunctions, SetOf
  <2> QED
    BY <2>1, <2>2
<1> QED
  BY <1>3, <1>6, <1>7, <1>8, <1>9 DEF HasCycles

(* A neighbour that is explored already cannot lead back to the path. *)
LEMMA SkipExploredPreserves ==
  ASSUME IInv, NEW m \in Function, SkipExplored(m)
  PROVE  IInv'
<1> USE DEF IInv
<1>1. /\ phase = "detect" /\ frames # << >> /\ m \in Top.todo
      /\ m \in visited \ recursionStack
      /\ section' = section /\ adjacency' = adjacency /\ phase' = phase
      /\ verdict' = verdict /\ cycles' = cycles /\ visited' = visited
      /\ recursionStack' = recursionStack /\ path' = path /\ roots' = roots
      /\ frames' = RestOfLoop(m)
  BY DEF SkipExplored, InDfs, graphVars
<1>2. AllFunctions' = AllFunctions /\ Defined' = Defined /\ GraphMatchesSection'
  BY <1>1, GraphStays
<1>3. /\ Len(frames) \in Nat \ {0}
      /\ frames' \in Seq(Frame) /\ Len(frames') = Len(frames)
      /\ \A i \in 1..Len(frames) :
           /\ frames'[i].node = frames[i].node
           /\ frames'[i].todo =
                IF i = Len(frames) THEN frames[i].todo \ {m} ELSE frames[i].todo
  BY <1>1, RestOfLoopProperties
<1>4. TypeOK'
  BY <1>1, <1>2, <1>3 DEF TypeOK, Frame
<1>5. FramesOnPath'
  <2>1. FramesOnPath
    BY DEF SearchShape
  <2>2. Len(frames') <= Len(path')
    BY <2>1, <1>1, <1>3 DEF FramesOnPath
  <2>3. ASSUME NEW i \in 1..Len(frames)
        PROVE  /\ path'[Len(path') - Len(frames') + i] = frames'[i].node
               /\ frames'[i].todo \subseteq adjacency'[frames'[i].node]
    <3>1. /\ path[Len(path) - Len(frames) + i] = frames[i].node
          /\ frames[i].todo \subseteq adjacency[frames[i].node]
      BY <2>1 DEF FramesOnPath
    <3>2. frames'[i].node = frames[i].node /\ frames'[i].todo \subseteq frames[i].todo
      BY <1>3
    <3>3. path' = path /\ adjacency' = adjacency /\ Len(frames') = Len(frames)
      BY <1>1, <1>3
    <3> HIDE DEF IInv
    <3> QED
      BY <3>1, <3>2, <3>3
  <2> QED
    BY <2>2, <2>3, <1>3 DEF FramesOnPath
<1>6. SearchShape'
  BY <1>1, <1>2, <1>5 DEF SearchShape, StackIsPath, PathDistinct
<1>7. HasCycles' => IsLoop(cycles[1])'
  BY <1>1, GraphStays DEF HasCycles
<1>8. ASSUME ~HasCycles PROVE NothingFoundYet'
  <2>1. NothingFoundYet /\ Explored' = Explored /\ m \in Explored
    BY <1>1, <1>8 DEF Explored
  <2>2. DOMAIN frames = 1..Len(frames) /\ DOMAIN frames' = 1..Len(frames)
    BY <1>3, <1>4, LenProperties DEF TypeOK
  <2>3. ASSUME NEW i \in 1..Len(frames)
        PROVE  LookedAt(i)' \subseteq Explored
                 \cup {frames'[j].node : j \in {i+1} \cap DOMAIN frames'}
    <3>1. LookedAt(i) \subseteq Explored \cup {frames[j].node : j \in {i+1} \cap DOMAIN frames}
      BY <2>1 DEF NothingFoundYet
    <3>2. \A j \in DOMAIN frames : frames'[j].node = frames[j].node
      BY <1>3, <2>2
    <3>3. {frames'[j].node : j \in {i+1} \cap DOMAIN frames'}
            = {frames[j].node : j \in {i+1} \cap DOMAIN frames}
      BY <2>2, <3>2
    <3>4. LookedAt(i)' \subseteq LookedAt(i) \cup {m}
      BY <1>1, <1>3 DEF LookedAt
    <3> QED
      BY <2>1, <3>1, <3>3, <3>4
  <2>4. \A S \in SUBSET Explored' : S # {} => ~Check!SelfFeeding(S, adjacency')
    BY <1>1, <2>1 DEF NothingFoundYet, Check!SelfFeeding
  <2>5. PathIsChain'
    BY <1>1, <2>1 DEF NothingFoundYet, PathIsChain
  <2>6. \A i \in 1..Len(frames') :
          LookedAt(i)' \subseteq Explored'
            \cup {frames'[j].node : j \in {i+1} \cap DOMAIN frames'}
    BY <1>3, <2>1, <2>3
  <2>7. /\ Len(path') = Len(frames')
        /\ \A f \in Explored' : adjacency'[f] \subseteq Explored'
        /\ phase' # "build" => AllFunctions' \subseteq roots' \cup visited'
    BY <1>1, <1>2, <1>3, <2>1 DEF NothingFoundYet
  <2> QED
    BY <2>4, <2>5, <2>6, <2>7 DEF NothingFoundYet
<1> QED
  BY <1>1, <1>2, <1>4, <1>6, <1>7, <1>8 DEF HasCycles

(* Leaving dfs with false: the function becomes explored.  All it calls is  *)
(* explored already, and no explored function calls it, so it closes no     *)
(* loop among the explored ones.                                            *)
LEMMA BacktrackPreserves == IInv /\ Backtrack => IInv'
<1> SUFFICES ASSUME IInv, Backtrack PROVE IInv'
  OBVIOUS
<1> USE DEF IInv
<1> DEFINE n == Top.node
<1>1. /\ phase = "detect" /\ frames # << >> /\ Top.todo = {}
      /\ section' = section /\ adjacency' = adjacency /\ phase' = phase
      /\ verdict' = verdict /\ cycles' = cycles /\ visited' = visited
      /\ roots' = roots
      /\ recursionStack' = recursionStack \ {n}
      /\ path' = SubSeq(path, 1, Len(path) - 1)
      /\ frames' = SubSeq(frames, 1, Len(frames) - 1)
  BY DEF Backtrack, InDfs, graphVars
<1>2. AllFunctions' = AllFunctions /\ Defined' = Defined /\ GraphMatchesSection'
  BY <1>1, GraphStays
<1>3. /\ Len(frames) \in Nat \ {0} /\ Len(path) \in Nat \ {0}
      /\ path \in Seq(Function) /\ path # << >> /\ path[Len(path)] = n
      /\ frames \in Seq(Frame) /\ n = frames[Len(frames)].node
  BY <1>1, TopIsLast DEF TypeOK, Frame, Top
<1> HIDE DEF n
<1>4. /\ path' \in Seq(Function) /\ Len(path') = Len(path) - 1
      /\ \A i \in 1..(Len(path) - 1) : path'[i] = path[i]
  BY <1>1, <1>3, FrontProperties
<1>5. /\ frames' \in Seq(Frame) /\ Len(frames') = Len(frames) - 1
      /\ \A i \in 1..(Len(frames) - 1) : frames'[i] = frames[i]
  BY <1>1, <1>3, FrontProperties
<1>6. TypeOK'
  BY <1>1, <1>2, <1>4, <1>5 DEF TypeOK, Frame
<1>7. SetOf(path') = SetOf(path) \ {n}
  <2>1. \A i, j \in 1..Len(path) : path[i] = path[j] => i = j
    BY DEF SearchShape, PathDistinct
  <2>2. SetOf(SubSeq(path, 1, Len(path) - 1)) = SetOf(path) \ {path[Len(path)]}
    BY <1>3, <2>1, SetOfFront
  <2> QED
    BY <1>1, <1>3, <2>2
<1>8. n \in SetOf(path)
  <2>1. Len(path) \in 1..Len(path)
    BY <1>3
  <2> QED
    BY <1>3, <2>1, SetOfElements
<1>9. SearchShape'
  <2>1. StackIsPath'
    BY <1>1, <1>7 DEF SearchShape, StackIsPath
  <2>2. PathDistinct'
    <3> SUFFICES ASSUME NEW i \in 1..(Len(path) - 1), NEW j \in 1..(Len(path) - 1),
                        path'[i] = path'[j]
                 PROVE  i = j
      BY <1>4 DEF PathDistinct
    <3>1. i \in 1..Len(path) /\ j \in 1..Len(path) /\ path[i] = path[j]
      BY <1>3, <1>4
    <3> QED
      BY <3>1 DEF SearchShape, PathDistinct
  <2>3. FramesOnPath'
    <3>1. Len(frames) <= Len(path)
      BY DEF SearchShape, FramesOnPath
    <3>2. Len(frames') <= Len(path')
      BY <1>3, <1>4, <1>5, <3>1
    <3>3. ASSUME NEW i \in 1..Len(frames')
          PROVE  /\ path'[Len(path') - Len(frames') + i] = frames'[i].node
                 /\ frames'[i].todo \subseteq adjacency'[frames'[i].node]
      <4>1. /\ i \in 1..(Len(frames) - 1) /\ i \in 1..Len(frames)
            /\ Len(path') - Len(frames') + i = Len(path) - Len(frames) + i
            /\ Len(path) - Len(frames) + i \in 1..(Len(path) - 1)
        BY <1>3, <1>4, <1>5, <3>1
      <4>2. /\ path[Len(path) - Len(frames) + i] = frames[i].node
            /\ frames[i].todo \subseteq adjacency[frames[i].node]
        BY <4>1 DEF SearchShape, FramesOnPath
      <4> QED
        BY <4>1, <4>2, <1>1, <1>4, <1>5
    <3> QED
      BY <3>2, <3>3 DEF FramesOnPath
  <2> QED
    BY <1>1, <1>2, <2>1, <2>2, <2>3 DEF SearchShape
<1>10. HasCycles' => IsLoop(cycles[1])'
  BY <1>1, GraphStays DEF HasCycles
<1>11. ASSUME ~HasCycles PROVE NothingFoundYet'
  <2>1. NothingFoundYet
    BY <1>11
  <2>2. n \in recursionStack /\ n \in visited /\ n \notin Explored
    BY <1>8 DEF SearchShape, StackIsPath, Explored
  <2>3. Explored' = Explored \cup {n}
    BY <1>1, <2>2 DEF Explored
  <2>4. adjacency[n] \subseteq Explored
    <3>1. LookedAt(Len(frames)) = adjacency[n]
      BY <1>1, <1>3 DEF LookedAt, Top
    <3>2. {Len(frames) + 1} \cap DOMAIN frames = {}
      BY <1>3, LenProperties
    <3>3. Len(frames) \in 1..Len(frames)
      BY <1>3
    <3> QED
      BY <2>1, <3>1, <3>2, <3>3 DEF NothingFoundYet
  <2>5. \A f \in Explored' : adjacency'[f] \subseteq Explored'
    BY <1>1, <2>1, <2>3, <2>4 DEF NothingFoundYet
  <2>6. ASSUME NEW S \in SUBSET Explored', S # {}, Check!SelfFeeding(S, adjacency')
        PROVE  FALSE
    <3>1. \A f \in S : \E g \in S : f \in adjacency[g]
      BY <1>1, <2>6 DEF Check!SelfFeeding
    <3>2. CASE n \in S
      <4>1. PICK g \in S : n \in adjacency[g]
        BY <3>1, <3>2
      <4>2. adjacency[g] \subseteq Explored
        BY <2>1, <2>3, <2>4, <2>6 DEF NothingFoundYet
      <4> QED
        BY <4>1, <4>2, <2>2
    <3>3. CASE n \notin S
      <4>1. S \in SUBSET Explored
        BY <2>3, <2>6, <3>3
      <4> QED
        BY <4>1, <3>1, <2>1, <2>6 DEF NothingFoundYet, Check!SelfFeeding
    <3> QED
      BY <3>2, <3>3
  <2>7. PathIsChain'
    <3>1. ASSUME NEW i \in 1..(Len(path') - 1) PROVE path'[i+1] \in adjacency'[path'[i]]
      <4>1. /\ i \in 1..(Len(path) - 1) /\ i + 1 \in 1..(Len(path) - 1)
        BY <1>3, <1>4
      <4> QED
        BY <4>1, <1>1, <1>4, <2>1 DEF NothingFoundYet, PathIsChain
    <3> QED
      BY <3>1 DEF PathIsChain
  <2>8. ASSUME NEW i \in 1..Len(frames')
        PROVE  LookedAt(i)' \subseteq Explored'
                 \cup {frames'[j].node : j \in {i+1} \cap DOMAIN frames'}
    <3>1. /\ i \in 1..(Len(frames) - 1) /\ i \in 1..Len(frames)
          /\ i + 1 \in 1..Len(frames)
      BY <1>3, <1>5
    <3>2. LookedAt(i)' = LookedAt(i)
      BY <3>1, <1>1, <1>5 DEF LookedAt
    <3>3. LookedAt(i) \subseteq Explored \cup {frames[i+1].node}
      BY <3>1, <2>1 DEF NothingFoundYet
    <3>4. CASE i + 1 = Len(frames)
      BY <3>2, <3>3, <3>4, <2>3, <1>3
    <3>5. CASE i + 1 # Len(frames)
      <4>1. i + 1 \in 1..(Len(frames) - 1)
        BY <3>1, <3>5, <1>3
      <4>2. frames'[i+1] = frames[i+1]
        BY <4>1, <1>5
      <4>3. DOMAIN frames' = 1..(Len(frames) - 1)
        BY <1>5, LenProperties
      <4>4. (i + 1) \in {i+1} \cap DOMAIN frames'
        BY <4>1, <4>3
      <4>5. frames[i+1].node \in {frames'[j].node : j \in {i+1} \cap DOMAIN frames'}
        BY <4>2, <4>4
      <4> QED
        BY <3>2, <3>3, <4>5, <2>3
    <3> QED
      BY <3>4, <3>5
  <2>9. Len(path') = Len(frames')
    BY <1>4, <1>5, <2>1 DEF NothingFoundYet
  <2>10. AllFunctions' \subseteq roots' \cup visited'
    BY <1>1, <1>2, <2>1 DEF NothingFoundYet
  <2> QED
    BY <2>5, <2>6, <2>7, <2>8, <2>9, <2>10 DEF NothingFoundYet
<1> QED
  BY <1>1, <1>2, <1>6, <1>9, <1>10, <1>11 DEF HasCycles

(* The last two actions, and stuttering, leave the search alone. *)
LEMMA FinishPreserves ==
  ASSUME IInv, FinishDetection \/ Validate \/ UNCHANGED vars
  PROVE  IInv'
<1> USE DEF IInv
<1>1. /\ section' = section /\ adjacency' = adjacency
      /\ cycles' = cycles /\ visited' = visited /\ roots' = roots
      /\ recursionStack' = recursionStack /\ path' = path /\ frames' = frames
  BY DEF FinishDetection, Validate, vars, graphVars, searchVars
<1>2. \/ phase = "detect" /\ frames = << >> /\ roots = {}
           /\ phase' = "detected" /\ verdict' = verdict
      \/ phase = "detected" /\ phase' = "done" /\ verdict' \in {"valid", "invalid"}
      \/ phase' = phase /\ verdict' = verdict
  BY DEF FinishDetection, Validate, vars, graphVars, searchVars
<1>3. AllFunctions' = AllFunctions /\ Defined' = Defined
  BY <1>1 DEF AllFunctions, Defined
<1>4. TypeOK'
  BY <1>1, <1>2, <1>3 DEF TypeOK, Phases, Verdicts
<1>5. GraphMatchesSection'
  BY <1>1, <1>2, <1>3 DEF GraphMatchesSection, Analyzed
<1>6. SearchShape'
  BY <1>1, <1>2, <1>3 DEF SearchShape, StackIsPath, PathDistinct, FramesOnPath
<1>7. HasCycles' => IsLoop(cycles[1])'
  BY <1>1, <1>3 DEF HasCycles, IsLoop
<1>8. ~HasCycles' => NothingFoundYet'
  BY <1>1, <1>2, <1>3
  DEF HasCycles, NothingFoundYet, PathIsChain, Explored, LookedAt, Check!SelfFeeding
<1> QED
  BY <1>4, <1>5, <1>6, <1>7, <1>8

(* Every step preserves the inductive invariant. *)
LEMMA StepPreservesIInv == IInv /\ [Next]_vars => IInv'
<1> SUFFICES ASSUME IInv, [Next]_vars PROVE IInv'
  OBVIOUS
<1>1. CASE Build
  BY <1>1, AnalyzePreserves DEF Build
<1>2. CASE StartDetection
  BY <1>2, StartPreserves
<1>3. CASE Search
  BY <1>3, EnterRootPreserves, SkipRootPreserves, DescendPreserves,
     ReportCyclePreserves, SkipExploredPreserves DEF Search
<1>4. CASE Backtrack
  BY <1>4, BacktrackPreserves
<1>5. CASE FinishDetection \/ Validate \/ UNCHANGED vars
  BY <1>5, FinishPreserves
<1> QED
  BY <1>1, <1>2, <1>3, <1>4, <1>5 DEF Next, Detect

-----------------------------------------------------------------------------
(* The inductive invariant holds throughout every behaviour. *)
THEOREM InvariantHolds == Spec => []IInv
<1>1. Init => IInv
  BY InitEstablishesIInv
<1>2. IInv /\ [Next]_vars => IInv'
  BY StepPreservesIInv
<1> QED
  BY <1>1, <1>2, PTL DEF Spec

(* Every variable keeps its type, and in particular every callee is itself a *)
(* node of the graph (add_edge registers both ends).                         *)
THEOREM TypeCorrect == Spec => []TypeOK
<1>1. IInv => TypeOK
  BY DEF IInv
<1> QED
  BY <1>1, InvariantHolds, PTL

(* The recursion stack and the path hold the same functions for ever, so the *)
(* start of a detected cycle is always found on the path.                    *)
THEOREM StackAndPathAgree == Spec => []StackIsPath
<1>1. IInv => StackIsPath
  BY DEF IInv, SearchShape
<1> QED
  BY <1>1, InvariantHolds, PTL

(* The first cycle detect_cycles reports is a loop of calls. *)
THEOREM FirstReportIsReal == Spec => []FirstCycleIsLoop
<1>1. IInv => FirstCycleIsLoop
  BY DEF IInv, FirstCycleIsLoop
<1> QED
  BY <1>1, InvariantHolds, PTL

(* The functions of a loop feed one another, whatever its length. *)
LEMMA LoopIsCyclic ==
  ASSUME NEW c \in Seq(Function), IsLoop(c)
  PROVE  Check!Cyclic(adjacency)
<1>1. /\ Len(c) \in Nat /\ Len(c) >= 2 /\ c[1] = c[Len(c)]
      /\ SetOf(c) \subseteq AllFunctions
      /\ \A i \in 1..(Len(c) - 1) : c[i+1] \in adjacency[c[i]]
  BY LenProperties DEF IsLoop
<1>2. SetOf(c) # {}
  BY <1>1, SetOfElements
<1>3. ASSUME NEW f \in SetOf(c) PROVE \E g \in SetOf(c) : f \in adjacency[g]
  <2>1. PICK i \in 1..Len(c) : c[i] = f
    BY SetOfElements
  <2>2. PICK j \in 1..(Len(c) - 1) : c[j+1] = f
    <3>1. CASE i = 1
      <4>1. (Len(c) - 1) \in 1..(Len(c) - 1) /\ (Len(c) - 1) + 1 = Len(c)
        BY <1>1
      <4> QED
        BY <4>1, <3>1, <2>1, <1>1
    <3>2. CASE i # 1
      <4>1. (i - 1) \in 1..(Len(c) - 1) /\ (i - 1) + 1 = i
        BY <3>2, <1>1
      <4> QED
        BY <4>1, <2>1
    <3> QED
      BY <3>1, <3>2
  <2>3. c[j] \in SetOf(c) /\ f \in adjacency[c[j]]
    BY <2>2, <1>1, SetOfElements
  <2> QED
    BY <2>3
<1> QED
  BY <1>1, <1>2, <1>3 DEF Check!Cyclic, Check!SelfFeeding, AllFunctions

(* The nodes that are not defined call nothing, so they are on no loop and the *)
(* graph is cyclic exactly when the section is.                                *)
LEMMA GraphCyclicIffSectionCyclic ==
  ASSUME IInv, phase # "build"
  PROVE  Check!Cyclic(adjacency) <=> Check!Cyclic(section)
<1>1. /\ \A f \in AllFunctions : adjacency[f] # {} => f \in Defined
      /\ \A f \in Defined : f \in AllFunctions /\ adjacency[f] = section[f]
  BY DEF IInv, GraphMatchesSection, Analyzed
<1>2. ASSUME Check!Cyclic(adjacency) PROVE Check!Cyclic(section)
  <2>1. PICK S \in SUBSET AllFunctions :
          S # {} /\ \A f \in S : \E g \in S : f \in adjacency[g]
    BY <1>2 DEF Check!Cyclic, Check!SelfFeeding, AllFunctions
  <2> DEFINE T == S \cap Defined
  <2>2. T # {}
    BY <2>1, <1>1
  <2>3. \A f \in T : \E g \in T : f \in section[g]
    BY <2>1, <1>1
  <2> QED
    BY <2>2, <2>3 DEF Check!Cyclic, Check!SelfFeeding, Defined
<1>3. ASSUME Check!Cyclic(section) PROVE Check!Cyclic(adjacency)
  <2>1. PICK S \in SUBSET Defined :
          S # {} /\ \A f \in S : \E g \in S : f \in section[g]
    BY <1>3 DEF Check!Cyclic, Check!SelfFeeding, Defined
  <2>2. S \in SUBSET AllFunctions /\ \A f \in S : \E g \in S : f \in adjacency[g]
    BY <2>1, <1>1
  <2> QED
    BY <2>1, <2>2 DEF Check!Cyclic, Check!SelfFeeding, AllFunctions
<1> QED
  BY <1>2, <1>3

(* When the search is over it has reported something exactly when the graph is *)
(* cyclic.                                                                     *)
LEMMA SearchIsExact ==
  ASSUME IInv, phase \in {"detected", "done"}
  PROVE  HasCycles <=> Check!Cyclic(adjacency)
<1> USE DEF IInv
<1>1. ASSUME HasCycles PROVE Check!Cyclic(adjacency)
  <2>1. cycles[1] \in Seq(Function)
    <3>1. cycles \in Seq(Seq(Function)) /\ cycles # << >>
      BY <1>1 DEF TypeOK, HasCycles
    <3>2. 1 \in 1..Len(cycles)
      BY <3>1, EmptySeq
    <3> QED
      BY <3>1, <3>2, ElementOfSeq
  <2> QED
    BY <1>1, <2>1, LoopIsCyclic
<1>2. ASSUME ~HasCycles PROVE ~Check!Cyclic(adjacency)
  <2>1. /\ NothingFoundYet /\ frames = << >> /\ roots = {}
    BY <1>2 DEF SearchShape
  <2>2. Len(path) = 0
    BY <2>1 DEF NothingFoundYet
  <2>3. recursionStack = {}
    BY <2>2, SetOfElements DEF SearchShape, StackIsPath, TypeOK
  <2>4. Explored = AllFunctions
    BY <2>1, <2>3 DEF Explored, NothingFoundYet, SearchShape
  <2> QED
    BY <2>1, <2>4 DEF NothingFoundYet, Check!Cyclic, AllFunctions
<1> QED
  BY <1>1, <1>2

(* The validator implements CallCheck: it gives one answer, and the right one. *)
THEOREM ValidatorImplementsCheck == Spec => AnswersCorrectly
<1>1. Init => Check!Init
  BY DEF Init, Check!Init
<1>2. IInv /\ [Next]_vars => [Check!Answer]_<<section, verdict>>
  <2> SUFFICES ASSUME IInv, [Next]_vars, ~(section' = section /\ verdict' = verdict)
               PROVE  Check!Answer
    OBVIOUS
  <2>1. Validate
    BY DEF Next, Detect, Build, Search, AnalyzeFunction, StartDetection, EnterRoot,
       SkipRoot, Descend, ReportCycle, SkipExplored, Backtrack, FinishDetection,
       vars, graphVars
  <2>2. phase = "detected" /\ verdict = "pending" /\ section' = section
    BY <2>1 DEF Validate, graphVars, IInv, SearchShape
  <2>3. HasCycles <=> Check!Cyclic(section)
    BY <2>2, SearchIsExact, GraphCyclicIffSectionCyclic
  <2>4. AllCallsDefined <=> Check!Closed(section)
    BY <2>2 DEF IInv, GraphMatchesSection, Analyzed, AllCallsDefined, Check!Closed, Defined
  <2> QED
    BY <2>1, <2>2, <2>3, <2>4 DEF Validate, Check!Answer
<1> QED
  BY <1>1, <1>2, InvariantHolds, PTL DEF Spec, AnswersCorrectly, Check!Spec

-----------------------------------------------------------------------------
(***************************************************************************)
(* The sort.                                                               *)
(***************************************************************************)

Processed == SetOf(result)
LastPopped == result[Len(result)]

\* The callers of f that Kahn's algorithm has still to subtract from its
\* in-degree: those not popped yet, and the one popped last while f is pending.
Waiting(f) ==
  {g \in AllFunctions : /\ f \in adjacency[g]
                        /\ g \notin Processed \/ (f \in pending /\ g = LastPopped)}

ResultInOrder ==
  \A i, j \in 1..Len(result) :
    /\ result[i] \in adjacency[result[j]] => j < i
    /\ result[i] = result[j] => i = j

(* Kahn's invariant: the degrees count the waiting callers, and a function *)
(* without any is on the queue or in the result, once.                     *)
KahnInv ==
  /\ DOMAIN inDegree = AllFunctions
  /\ Processed \subseteq AllFunctions
  /\ pending # {} => result # << >> /\ pending \subseteq adjacency[LastPopped]
  /\ \A f \in AllFunctions : inDegree[f] = Cardinality(Waiting(f))
  /\ \A f \in AllFunctions : Waiting(f) = {} <=> f \in SetOf(queue) \cup Processed
  /\ SetOf(queue) \subseteq AllFunctions \ Processed
  /\ \A i, j \in 1..Len(queue) : queue[i] = queue[j] => i = j
  /\ ResultInOrder

(* The invariant of the sort: the search's, and Kahn's once the drain begins. *)
SortInv ==
  /\ IInv
  /\ SortTypeOK
  /\ outcome = "unsorted" =>
       inDegree = << >> /\ queue = << >> /\ result = << >> /\ pending = {}
  /\ outcome # "unsorted" => phase = "detected"
  /\ outcome \in {"draining", "some"} => ~HasCycles /\ KahnInv
  /\ outcome = "none" => HasCycles /\ result = << >> /\ pending = {}
  /\ outcome = "some" => pending = {} /\ Processed = AllFunctions

allVars == <<vars, sortVars>>

(* Sets of functions are finite and so are the sets counted. *)
LEMMA CountedSetsFinite ==
  ASSUME IInv
  PROVE  /\ IsFiniteSet(AllFunctions)
         /\ \A S \in SUBSET AllFunctions :
              IsFiniteSet(S) /\ Cardinality(S) \in Nat /\ (Cardinality(S) = 0 <=> S = {})
<1>1. AllFunctions \in SUBSET Function
  BY DEF IInv, TypeOK
<1>2. IsFiniteSet(AllFunctions)
  BY <1>1, FunctionAssumption, FS_Subset
<1> QED
  BY <1>2, FS_Subset, FS_CardinalityType, FS_EmptySet

(* Building and searching the graph leave the sort where it has not begun. *)
LEMMA DetectKeepsSortInv ==
  ASSUME SortInv, Detect, UNCHANGED sortVars
  PROVE  SortInv'
<1>1. outcome = "unsorted"
  <2>1. phase # "detected"
    BY DEF Detect, Build, Search, AnalyzeFunction, StartDetection, EnterRoot, SkipRoot,
       Descend, ReportCycle, SkipExplored, Backtrack, FinishDetection, InDfs
  <2> QED
    BY <2>1 DEF SortInv
<1>2. IInv'
  BY StepPreservesIInv DEF SortInv, Next
<1> QED
  BY <1>1, <1>2 DEF SortInv, sortVars, SortTypeOK

(* Nor does the validator's use of the search touch the sort. *)
LEMMA ValidateKeepsSortInv ==
  ASSUME SortInv, outcome = "unsorted", Validate, UNCHANGED sortVars
  PROVE  SortInv'
<1>1. IInv'
  BY StepPreservesIInv DEF SortInv, Next
<1> QED
  BY <1>1 DEF SortInv, sortVars, SortTypeOK

(* Refusing a graph with a reported cycle starts no drain. *)
LEMMA RefuseKeepsSortInv ==
  ASSUME SortInv, Refuse, UNCHANGED vars
  PROVE  SortInv'
<1>1. IInv'
  BY StepPreservesIInv DEF SortInv
<1> QED
  BY <1>1 DEF Refuse, SortInv, SortTypeOK, Outcomes, vars, searchVars, graphVars, HasCycles

(* A listing of a finite set repeats nothing. *)
LEMMA ListingProperties ==
  ASSUME NEW S, IsFiniteSet(S), S \subseteq Function, NEW q \in Listings(S)
  PROVE  /\ q \in Seq(Function) /\ SetOf(q) = S
         /\ \A i, j \in 1..Len(q) : q[i] = q[j] => i = j
<1> DEFINE n == Cardinality(S)
<1>1. n \in Nat /\ q \in [1..n -> S] /\ SetOf(q) = S
  BY FS_CardinalityType DEF Listings
<1>2. q \in Seq(S) /\ Len(q) = n
  BY <1>1
<1>3. IsFiniteSet(1..n) /\ Cardinality(1..n) = n
  BY <1>1, FS_Interval
<1>4. q \in Surjection(1..n, S)
  BY <1>1 DEF SetOf, Surjection
<1>5. q \in Injection(1..n, S)
  BY <1>3, <1>4, FS_SurjSameCardinalityImpliesInj
<1>6. \A i, j \in 1..n : q[i] = q[j] => i = j
  BY <1>5 DEF Injection, IsInjective
<1> QED
  BY <1>1, <1>2, <1>6, SeqMonotonic

(* Counting the callers: every degree is the number of callers not drained. *)
LEMMA CountKeepsSortInv ==
  ASSUME SortInv, CountDegrees, UNCHANGED vars
  PROVE  SortInv'
<1> DEFINE Z == {f \in AllFunctions : Callers(f) = {}}
<1>1. IInv' /\ IInv
  BY StepPreservesIInv DEF SortInv
<1>2. /\ AllFunctions' = AllFunctions /\ adjacency' = adjacency /\ cycles' = cycles
      /\ phase' = "detected" /\ ~HasCycles /\ outcome' = "draining"
      /\ result' = << >> /\ pending' = {}
      /\ inDegree' = [f \in AllFunctions |-> Cardinality(Callers(f))]
      /\ queue' \in Listings(Z)
  BY DEF CountDegrees, SortInv, vars, searchVars, graphVars, AllFunctions
<1>3. IsFiniteSet(Z) /\ Z \subseteq Function
  BY <1>1, CountedSetsFinite DEF IInv, TypeOK
<1>4. /\ queue' \in Seq(Function) /\ SetOf(queue') = Z
      /\ \A i, j \in 1..Len(queue') : queue'[i] = queue'[j] => i = j
  BY <1>2, <1>3, ListingProperties
<1>5. Len(result') = 0 /\ Processed' = {}
  BY <1>2 DEF Processed, SetOf
<1>6. \A f \in AllFunctions : Waiting(f)' = Callers(f)
  BY <1>2, <1>5 DEF Waiting, Callers
<1>7. \A f \in AllFunctions : Cardinality(Callers(f)) \in Int
  BY <1>1, CountedSetsFinite DEF Callers
<1>8. KahnInv'
  <2>1. DOMAIN inDegree' = AllFunctions' /\ \A f \in AllFunctions' : inDegree'[f] = Cardinality(Waiting(f)')
    BY <1>2, <1>6
  <2>2. \A f \in AllFunctions' : Waiting(f)' = {} <=> f \in SetOf(queue)' \cup Processed'
    BY <1>2, <1>4, <1>5, <1>6
  <2>3. ResultInOrder'
    BY <1>5 DEF ResultInOrder
  <2> QED
    BY <2>1, <2>2, <2>3, <1>2, <1>4, <1>5 DEF KahnInv
<1>9. SortTypeOK'
  <2>1. DOMAIN inDegree' = AllFunctions /\ AllFunctions \subseteq Function
    BY <1>1, <1>2 DEF IInv, TypeOK
  <2>2. inDegree' \in [DOMAIN inDegree' -> Int]
    BY <1>2, <1>7, <2>1
  <2> QED
    BY <1>2, <1>4, <2>1, <2>2, EmptySeq DEF SortTypeOK, Outcomes
<1> QED
  BY <1>1, <1>2, <1>8, <1>9 DEF SortInv, HasCycles

(* Popping a node without callers left: its neighbours are due for a visit. *)
LEMMA PopKeepsSortInv ==
  ASSUME SortInv, PopNode, UNCHANGED vars
  PROVE  SortInv'
<1> DEFINE n == queue[Len(queue)]
<1>1. IInv' /\ IInv
  BY StepPreservesIInv DEF SortInv
<1>2. /\ AllFunctions' = AllFunctions /\ adjacency' = adjacency /\ cycles' = cycles
      /\ phase' = phase /\ outcome = "draining" /\ outcome' = outcome
      /\ pending = {} /\ queue # << >>
      /\ result' = Append(result, n) /\ pending' = adjacency[n]
      /\ queue' = SubSeq(queue, 1, Len(queue) - 1)
      /\ inDegree' = inDegree
  BY DEF PopNode, Draining, vars, searchVars, graphVars, AllFunctions
<1>3. KahnInv /\ SortTypeOK
  BY <1>2 DEF SortInv
<1>4. /\ Len(queue) \in Nat \ {0} /\ queue' \in Seq(Function)
      /\ Len(queue') = Len(queue) - 1
      /\ \A i \in 1..(Len(queue) - 1) : queue'[i] = queue[i]
  BY <1>2, <1>3, FrontProperties DEF SortTypeOK
<1>5. SetOf(queue') = SetOf(queue) \ {n}
  BY <1>2, <1>3, SetOfFront DEF KahnInv, SortTypeOK
<1>6. n \in SetOf(queue) /\ n \in AllFunctions \ Processed /\ n \in Function
  <2>1. Len(queue) \in 1..Len(queue) /\ queue \in Seq(Function)
    BY <1>3, <1>4 DEF SortTypeOK
  <2> QED
    BY <2>1, <1>3, SetOfElements DEF KahnInv
<1> HIDE DEF n
<1>7. /\ result' \in Seq(Function) /\ Len(result') = Len(result) + 1
      /\ \A i \in 1..Len(result) : result'[i] = result[i]
      /\ result'[Len(result) + 1] = n /\ result' # << >>
      /\ result \in Seq(Function) /\ Len(result) \in Nat
  BY <1>2, <1>3, <1>6, AppendProperties, LenProperties DEF SortTypeOK
<1>8. Processed' = Processed \cup {n} /\ LastPopped' = n
  <2>1. SetOf(result') = SetOf(result) \cup {n}
    BY <1>2, <1>6, <1>7, SetOfAppend
  <2> QED
    BY <2>1, <1>7 DEF Processed, LastPopped
<1>9. \A f \in AllFunctions : Waiting(f)' = Waiting(f)
  BY <1>2, <1>6, <1>8 DEF Waiting
<1>10. adjacency[n] \subseteq AllFunctions
  BY <1>1, <1>6 DEF IInv, TypeOK
<1>11. ResultInOrder'
  <2>1. Waiting(n) = {} /\ \A f \in Processed : Waiting(f) = {}
    BY <1>3, <1>6 DEF KahnInv
  <2>2. \A f \in Processed \cup {n} : f \notin adjacency[n]
    <3> SUFFICES ASSUME NEW f \in Processed \cup {n}, f \in adjacency[n] PROVE FALSE
      OBVIOUS
    <3>1. n \in Waiting(f)
      BY <1>6 DEF Waiting
    <3> QED
      BY <2>1, <3>1
  <2>3. \A i \in 1..Len(result) : result[i] \in Processed /\ result[i] # n
    BY <1>6, <1>7, SetOfElements DEF Processed
  <2>4. ASSUME NEW i \in 1..(Len(result) + 1), NEW j \in 1..(Len(result) + 1)
        PROVE  /\ result'[i] \in adjacency[result'[j]] => j < i
               /\ result'[i] = result'[j] => i = j
    <3>1. CASE j = Len(result) + 1
      BY <3>1, <1>7, <2>2, <2>3
    <3>2. CASE j # Len(result) + 1 /\ i = Len(result) + 1
      BY <3>2, <1>7, <2>3
    <3>3. CASE j # Len(result) + 1 /\ i # Len(result) + 1
      <4>1. i \in 1..Len(result) /\ j \in 1..Len(result)
        BY <3>3, <1>7
      <4> QED
        BY <4>1, <1>3, <1>7 DEF KahnInv, ResultInOrder
    <3> QED
      BY <3>1, <3>2, <3>3
  <2> QED
    BY <1>2, <1>7, <2>4 DEF ResultInOrder
<1>12. KahnInv'
  <2>1. \A i, j \in 1..Len(queue') : queue'[i] = queue'[j] => i = j
    <3> SUFFICES ASSUME NEW i \in 1..(Len(queue) - 1), NEW j \in 1..(Len(queue) - 1),
                        queue'[i] = queue'[j]
                 PROVE  i = j
      BY <1>4
    <3>1. i \in 1..Len(queue) /\ j \in 1..Len(queue) /\ queue[i] = queue[j]
      BY <1>4
    <3> QED
      BY <3>1, <1>3 DEF KahnInv
  <2>2. SetOf(queue)' \cup Processed' = SetOf(queue) \cup Processed
    BY <1>5, <1>6, <1>8
  <2>3. \A f \in AllFunctions : inDegree'[f] = Cardinality(Waiting(f)')
    BY <1>2, <1>3, <1>9 DEF KahnInv
  <2>4. \A f \in AllFunctions : Waiting(f)' = {} <=> f \in SetOf(queue)' \cup Processed'
    BY <1>3, <1>9, <2>2 DEF KahnInv
  <2>5. /\ DOMAIN inDegree' = AllFunctions' /\ Processed' \subseteq AllFunctions'
        /\ SetOf(queue)' \subseteq AllFunctions' \ Processed'
    BY <1>2, <1>3, <1>5, <1>6, <1>8 DEF KahnInv
  <2>6. result' # << >> /\ pending' \subseteq adjacency'[LastPopped']
    BY <1>2, <1>7, <1>8
  <2> QED
    BY <1>2, <1>11, <2>1, <2>3, <2>4, <2>5, <2>6 DEF KahnInv
<1>13. SortTypeOK'
  BY <1>1, <1>2, <1>3, <1>4, <1>7, <1>10 DEF SortTypeOK, IInv, TypeOK
<1> QED
  BY <1>1, <1>2, <1>12, <1>13 DEF SortInv, HasCycles

(* While a neighbour is pending, the node popped last is one of the callers *)
(* that its degree still counts.                                            *)
LEMMA PendingIsCounted ==
  ASSUME SortInv, outcome = "draining", NEW m \in pending
  PROVE  /\ m \in AllFunctions
         /\ LastPopped \in Processed /\ LastPopped \in AllFunctions
         /\ LastPopped \in Waiting(m)
         /\ inDegree[m] = Cardinality(Waiting(m)) /\ inDegree[m] \in Nat \ {0}
<1>1. KahnInv /\ IInv /\ result \in Seq(Function)
  BY DEF SortInv, SortTypeOK
<1>2. result # << >> /\ m \in adjacency[LastPopped]
  BY <1>1 DEF KahnInv
<1>3. LastPopped \in Processed
  <2>1. Len(result) \in 1..Len(result)
    BY <1>1, <1>2, EmptySeq
  <2> QED
    BY <1>1, <2>1, SetOfElements DEF LastPopped, Processed
<1>4. LastPopped \in AllFunctions /\ m \in AllFunctions
  BY <1>1, <1>2, <1>3 DEF KahnInv, IInv, TypeOK
<1>5. LastPopped \in Waiting(m)
  BY <1>2, <1>4 DEF Waiting
<1>6. Waiting(m) \in SUBSET AllFunctions
  BY DEF Waiting
<1>7. inDegree[m] = Cardinality(Waiting(m))
  BY <1>1, <1>4 DEF KahnInv
<1> QED
  BY <1>1, <1>3, <1>4, <1>5, <1>6, <1>7, CountedSetsFinite

(* Visiting a neighbour of the popped node takes that one caller off its count. *)
LEMMA VisitKeepsSortInv ==
  ASSUME SortInv, NEW m \in Function, VisitNeighbour(m), UNCHANGED vars
  PROVE  SortInv'
<1>1. IInv' /\ IInv
  BY StepPreservesIInv DEF SortInv
<1>2. /\ AllFunctions' = AllFunctions /\ adjacency' = adjacency /\ cycles' = cycles
      /\ phase' = phase /\ outcome = "draining" /\ outcome' = outcome
      /\ m \in pending /\ pending' = pending \ {m}
      /\ result' = result
      /\ inDegree' = [inDegree EXCEPT ![m] = @ - 1]
      /\ queue' = IF inDegree'[m] = 0 THEN Append(queue, m) ELSE queue
  BY DEF VisitNeighbour, Draining, vars, searchVars, graphVars, AllFunctions
<1>3. KahnInv /\ SortTypeOK
  BY <1>2 DEF SortInv
<1>4. /\ m \in AllFunctions /\ LastPopped \in Processed /\ LastPopped \in Waiting(m)
      /\ inDegree[m] = Cardinality(Waiting(m)) /\ inDegree[m] \in Nat \ {0}
  BY <1>2, PendingIsCounted
<1>5. /\ DOMAIN inDegree = AllFunctions /\ inDegree \in [AllFunctions -> Int]
      /\ AllFunctions \subseteq Function
  BY <1>1, <1>3 DEF KahnInv, SortTypeOK, IInv, TypeOK
<1>6. /\ inDegree' \in [AllFunctions -> Int] /\ inDegree'[m] = inDegree[m] - 1
      /\ \A f \in AllFunctions \ {m} : inDegree'[f] = inDegree[f]
  BY <1>2, <1>4, <1>5
<1>7. Processed' = Processed /\ LastPopped' = LastPopped
  BY <1>2 DEF Processed, LastPopped
<1>8. \A f \in AllFunctions \ {m} : Waiting(f)' = Waiting(f)
  BY <1>2, <1>7 DEF Waiting
<1>9. Waiting(m)' = Waiting(m) \ {LastPopped}
  BY <1>2, <1>4, <1>7 DEF Waiting
<1>10. \A f \in AllFunctions : inDegree'[f] = Cardinality(Waiting(f)')
  <2>1. IsFiniteSet(Waiting(m))
    <3>1. Waiting(m) \in SUBSET AllFunctions
      BY DEF Waiting
    <3> QED
      BY <3>1, <1>1, CountedSetsFinite
  <2>2. Cardinality(Waiting(m)') = Cardinality(Waiting(m)) - 1
    BY SMTT(20), <1>4, <1>9, <2>1, FS_RemoveElement
  <2>3. ASSUME NEW f \in AllFunctions \ {m} PROVE inDegree'[f] = Cardinality(Waiting(f)')
    BY <1>3, <1>6, <1>8 DEF KahnInv
  <2> QED
    BY <2>2, <2>3, <1>4, <1>6
<1>11. inDegree'[m] = 0 <=> Waiting(m)' = {}
  <2>1. Waiting(m)' \in SUBSET AllFunctions
    BY <1>9 DEF Waiting
  <2> QED
    BY <2>1, <1>1, <1>4, <1>10, CountedSetsFinite
<1>12. m \notin SetOf(queue) \cup Processed
  BY <1>3, <1>4 DEF KahnInv
<1>13. queue \in Seq(Function) /\ Len(queue) \in Nat
  BY <1>3, LenProperties DEF SortTypeOK
<1>14. /\ queue' \in Seq(Function)
       /\ SetOf(queue') = SetOf(queue) \cup (IF inDegree'[m] = 0 THEN {m} ELSE {})
       /\ \A i, j \in 1..Len(queue') : queue'[i] = queue'[j] => i = j
  <2>1. CASE inDegree'[m] # 0
    BY <2>1, <1>2, <1>3, <1>13 DEF KahnInv
  <2>2. CASE inDegree'[m] = 0
    <3>1. queue' = Append(queue, m)
      BY <2>2, <1>2
    <3>2. /\ queue' \in Seq(Function) /\ Len(queue') = Len(queue) + 1
          /\ \A i \in 1..Len(queue) : queue'[i] = queue[i]
          /\ queue'[Len(queue) + 1] = m
      BY <3>1, <1>13, AppendProperties
    <3>3. SetOf(queue') = SetOf(queue) \cup {m}
      BY <3>1, <1>13, SetOfAppend
    <3>4. \A i \in 1..Len(queue) : queue[i] # m
      BY <1>12, <1>13, SetOfElements
    <3>5. ASSUME NEW i \in 1..(Len(queue) + 1), NEW j \in 1..(Len(queue) + 1),
                 queue'[i] = queue'[j]
          PROVE  i = j
      <4>1. CASE i = Len(queue) + 1 \/ j = Len(queue) + 1
        BY <4>1, <1>13, <3>2, <3>4, <3>5
      <4>2. CASE i \in 1..Len(queue) /\ j \in 1..Len(queue)
        BY <4>2, <1>3, <3>2, <3>5 DEF KahnInv
      <4> QED
        BY <4>1, <4>2, <1>13
    <3> QED
      BY <2>2, <3>2, <3>3, <3>5
  <2> QED
    BY <2>1, <2>2
<1>15. KahnInv'
  <2>1. \A f \in AllFunctions : Waiting(f)' = {} <=> f \in SetOf(queue)' \cup Processed'
    <3>1. ASSUME NEW f \in AllFunctions \ {m}
          PROVE  Waiting(f)' = {} <=> f \in SetOf(queue)' \cup Processed'
      BY <1>3, <1>7, <1>8, <1>14 DEF KahnInv
    <3>2. Waiting(m)' = {} <=> m \in SetOf(queue)' \cup Processed'
      BY <1>7, <1>11, <1>12, <1>14
    <3> QED
      BY <3>1, <3>2
  <2>2. SetOf(queue)' \subseteq AllFunctions \ Processed
    BY <1>3, <1>4, <1>12, <1>14 DEF KahnInv
  <2>3. pending' # {} => result' # << >> /\ pending' \subseteq adjacency'[LastPopped']
    BY <1>2, <1>3, <1>7 DEF KahnInv
  <2>4. ResultInOrder'
    BY <1>2, <1>3 DEF KahnInv, ResultInOrder
  <2>5. DOMAIN inDegree' = AllFunctions
    BY <1>6
  <2> QED
    BY <1>2, <1>3, <1>7, <1>10, <1>14, <2>1, <2>2, <2>3, <2>4, <2>5 DEF KahnInv
<1>16. SortTypeOK'
  BY <1>2, <1>3, <1>5, <1>6, <1>14 DEF SortTypeOK
<1> QED
  BY <1>1, <1>2, <1>15, <1>16 DEF SortInv, HasCycles

(* The drained queue of an accepted graph leaves no function behind: the ones *)
(* left would all have a caller among themselves.                             *)
LEMMA DrainIsComplete ==
  ASSUME SortInv, outcome = "draining", pending = {}, queue = << >>
  PROVE  Processed = AllFunctions /\ Len(result) = Cardinality(AllFunctions)
<1>1. KahnInv /\ IInv /\ ~HasCycles /\ phase = "detected" /\ SortTypeOK
  BY DEF SortInv
<1>2. SetOf(queue) = {}
  BY DEF SetOf
<1> DEFINE U == AllFunctions \ Processed
<1>3. \A f \in U : \E g \in U : f \in adjacency[g]
  <2> SUFFICES ASSUME NEW f \in U PROVE \E g \in U : f \in adjacency[g]
    OBVIOUS
  <2>1. Waiting(f) # {}
    BY <1>1, <1>2 DEF KahnInv
  <2> QED
    BY <2>1 DEF Waiting
<1>4. U = {}
  BY <1>1, <1>3, SearchIsExact DEF Check!Cyclic, Check!SelfFeeding, AllFunctions
<1>5. Processed = AllFunctions
  BY <1>1, <1>4 DEF KahnInv
<1>6. result \in Seq(Function) /\ Len(result) \in Nat /\ DOMAIN result = 1..Len(result)
  BY <1>1, LenProperties DEF SortTypeOK
<1>7. result \in Bijection(1..Len(result), Processed)
  <2>1. result \in [1..Len(result) -> Processed]
    BY <1>6, LenProperties, SetOfElements DEF Processed
  <2>2. result \in Surjection(1..Len(result), Processed)
    BY <2>1, <1>6 DEF Surjection, Processed, SetOf
  <2>3. result \in Injection(1..Len(result), Processed)
    BY <2>1, <1>1 DEF Injection, IsInjective, KahnInv, ResultInOrder
  <2> QED
    BY <2>2, <2>3 DEF Bijection
<1>8. IsFiniteSet(1..Len(result)) /\ Cardinality(1..Len(result)) = Len(result)
  <2> DEFINE n == Len(result)
  <2>1. n \in Nat
    BY <1>6
  <2> HIDE DEF n
  <2>2. IsFiniteSet(1..n) /\ Cardinality(1..n) = IF 1 > n THEN 0 ELSE n - 1 + 1
    BY <2>1, FS_Interval
  <2>3. (IF 1 > n THEN 0 ELSE n - 1 + 1) = n
    BY <2>1
  <2> QED
    BY <2>2, <2>3 DEF n
<1>9. Cardinality(Processed) = Cardinality(1..Len(result))
  BY <1>7, <1>8, FS_Bijection DEF ExistsBijection
<1> QED
  BY <1>5, <1>8, <1>9

(* The drain of a graph without cycles ends with every function listed. *)
LEMMA FinishKeepsSortInv ==
  ASSUME SortInv, FinishSort, UNCHANGED vars
  PROVE  SortInv'
<1>1. IInv'
  BY StepPreservesIInv DEF SortInv
<1>2. /\ outcome = "draining" /\ pending = {} /\ queue = << >>
      /\ inDegree' = inDegree /\ queue' = queue /\ result' = result /\ pending' = pending
      /\ adjacency' = adjacency /\ phase' = phase /\ cycles' = cycles
      /\ AllFunctions' = AllFunctions
  BY DEF FinishSort, Draining, vars, searchVars, graphVars, AllFunctions
<1>3. Processed = AllFunctions /\ Len(result) = Cardinality(AllFunctions)
  BY <1>2, DrainIsComplete
<1>4. outcome' = "some" /\ Processed' = AllFunctions'
  BY <1>2, <1>3 DEF FinishSort, Processed
<1>5. KahnInv /\ ~HasCycles
  BY <1>2 DEF SortInv
<1>6. KahnInv'
  BY <1>2, <1>5 DEF KahnInv, Processed, LastPopped, Waiting, ResultInOrder
<1> QED
  BY <1>1, <1>2, <1>4, <1>5, <1>6 DEF SortInv, SortTypeOK, Outcomes, HasCycles

(* Every step preserves the invariant of the sort. *)
LEMMA StepKeepsSortInv == SortInv /\ [SortNext]_allVars => SortInv'
<1> SUFFICES ASSUME SortInv, [SortNext]_allVars PROVE SortInv'
  OBVIOUS
<1>1. CASE Detect /\ UNCHANGED sortVars
  BY <1>1, DetectKeepsSortInv
<1>2. CASE outcome = "unsorted" /\ Validate /\ UNCHANGED sortVars
  BY <1>2, ValidateKeepsSortInv
<1>3. CASE Sort /\ UNCHANGED vars
  BY <1>3, RefuseKeepsSortInv, CountKeepsSortInv, PopKeepsSortInv,
     VisitKeepsSortInv, FinishKeepsSortInv DEF Sort
<1>4. CASE UNCHANGED allVars
  <2>1. IInv' /\ UNCHANGED <<vars, sortVars>>
    BY <1>4, StepPreservesIInv DEF SortInv, allVars
  <2> QED
    BY <2>1 DEF SortInv, sortVars, vars, searchVars, graphVars, SortTypeOK, KahnInv,
       Processed, LastPopped, Waiting, ResultInOrder, AllFunctions, HasCycles
<1> QED
  BY <1>1, <1>2, <1>3, <1>4 DEF SortNext, allVars

(* The first state satisfies it: nothing is counted or listed. *)
LEMMA InitEstablishesSortInv == SortInit => SortInv
<1> SUFFICES ASSUME SortInit PROVE SortInv
  OBVIOUS
<1>1. IInv
  BY InitEstablishesIInv DEF SortInit
<1>2. SortTypeOK
  BY EmptySeq DEF SortInit, SortTypeOK, Outcomes
<1> QED
  BY <1>1, <1>2 DEF SortInit, SortInv

-----------------------------------------------------------------------------
(* The invariant of the sort holds throughout every behaviour. *)
THEOREM SortInvariantHolds == SortSpec => []SortInv
<1>1. SortInit => SortInv
  BY InitEstablishesSortInv
<1>2. SortInv /\ [SortNext]_allVars => SortInv'
  BY StepKeepsSortInv
<1> QED
  BY <1>1, <1>2, PTL DEF SortSpec, allVars

(* No in-degree is decremented at zero: usize never wraps. *)
THEOREM DegreesNeverUnderflow == SortSpec => []NoUnderflow
<1>1. SortInv => NoUnderflow
  <2> SUFFICES ASSUME SortInv, NEW m \in pending PROVE inDegree[m] >= 1
    BY DEF NoUnderflow
  <2>1. outcome = "draining"
    BY DEF SortInv, SortTypeOK, Outcomes
  <2> QED
    BY <2>1, PendingIsCounted
<1> QED
  BY <1>1, SortInvariantHolds, PTL

(* The execution order lists every caller before its callees, once. *)
THEOREM OrderIsTopological == SortSpec => []CallersFirst
<1>1. SortInv => CallersFirst
  <2> SUFFICES ASSUME SortInv PROVE CallersFirst
    OBVIOUS
  <2>1. result \in Seq(Function) /\ DOMAIN result = 1..Len(result)
    BY LenProperties DEF SortInv, SortTypeOK
  <2>2. ResultInOrder \/ result = << >>
    BY DEF SortInv, SortTypeOK, Outcomes, KahnInv
  <2> QED
    BY <2>1, <2>2 DEF CallersFirst, ResultInOrder
<1> QED
  BY <1>1, SortInvariantHolds, PTL

(* get_topological_sort refuses exactly the cyclic graphs and returns all the *)
(* functions otherwise.                                                       *)
THEOREM RefusesExactlyCyclic == SortSpec => []NoneIffCyclic
<1>1. SortInv => NoneIffCyclic
  <2> SUFFICES ASSUME SortInv PROVE NoneIffCyclic
    OBVIOUS
  <2>1. IInv /\ (outcome \in {"none", "some"} => phase = "detected")
    BY DEF SortInv
  <2> QED
    BY <2>1, SearchIsExact DEF NoneIffCyclic, SortInv, Processed
<1> QED
  BY <1>1, SortInvariantHolds, PTL

=============================================================================
