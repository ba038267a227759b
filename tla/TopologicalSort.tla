--------------------------- MODULE TopologicalSort ---------------------------
(***************************************************************************)
(* CallGraph::get_topological_sort, as get_execution_order_doc runs it:    *)
(* build the graph, refuse it when detect_cycles reports anything, and     *)
(* drain it with Kahn's algorithm otherwise.  The queue is a Vec used as a *)
(* stack; it is first filled, and its neighbours are visited, in the order *)
(* of hash tables, which is arbitrary.                                     *)
(***************************************************************************)
EXTENDS CallGraph, Integers, FiniteSets

ASSUME FunctionAssumption == IsFiniteSet(Function)

VARIABLES
  outcome,    \* "unsorted", "draining", or the Option returned: "none", "some"
  inDegree,   \* in_degree
  queue,
  result,
  pending     \* neighbours of the node popped last, still to be visited

sortVars == <<outcome, inDegree, queue, result, pending>>

Outcomes == {"unsorted", "draining", "none", "some"}

Callers(f) == {g \in AllFunctions : f \in adjacency[g]}

\* The ways to list a finite set without repetition.
Listings(S) == {q \in [1..Cardinality(S) -> S] : SetOf(q) = S}

SortInit ==
  /\ Init
  /\ outcome = "unsorted"
  /\ inDegree = << >> /\ queue = << >> /\ result = << >> /\ pending = {}

\* `if self.has_cycles() { return None; }`
Refuse ==
  /\ phase = "detected" /\ outcome = "unsorted"
  /\ HasCycles
  /\ outcome' = "none"
  /\ UNCHANGED <<inDegree, queue, result, pending>>

\* Count the callers of every node and enqueue the nodes without any.
CountDegrees ==
  /\ phase = "detected" /\ outcome = "unsorted"
  /\ ~HasCycles
  /\ outcome' = "draining"
  /\ inDegree' = [f \in AllFunctions |-> Cardinality(Callers(f))]
  /\ queue' \in Listings({f \in AllFunctions : Callers(f) = {}})
  /\ UNCHANGED <<result, pending>>

Draining == outcome = "draining"

\* Faulty variant: the last node of the queue is left there.
PopAllButOne ==
  /\ Draining /\ pending = {} /\ Len(queue) > 1
  /\ LET node == queue[Len(queue)] IN
       /\ result' = Append(result, node)
       /\ pending' = adjacency[node]
  /\ queue' = SubSeq(queue, 1, Len(queue) - 1)
  /\ UNCHANGED <<outcome, inDegree>>

PopNode ==
  /\ Draining /\ pending = {} /\ queue # << >>
  /\ LET node == queue[Len(queue)] IN
       /\ result' = Append(result, node)
       /\ pending' = adjacency[node]
  /\ queue' = SubSeq(queue, 1, Len(queue) - 1)
  /\ UNCHANGED <<outcome, inDegree>>

\* Faulty variants: a neighbour is counted down again; one is pushed while it
\* has callers left; one is never pushed.
VisitAgain(m) ==
  /\ Draining /\ m \in pending
  /\ inDegree' = [inDegree EXCEPT ![m] = @ - 1]
  /\ UNCHANGED <<outcome, queue, result, pending>>

PushEarly(m) ==
  /\ Draining /\ m \in pending
  /\ pending' = pending \ {m}
  /\ inDegree' = [inDegree EXCEPT ![m] = @ - 1]
  /\ queue' = Append(queue, m)
  /\ UNCHANGED <<outcome, result>>

PushNever(m) ==
  /\ Draining /\ m \in pending
  /\ pending' = pending \ {m}
  /\ inDegree' = [inDegree EXCEPT ![m] = @ - 1]
  /\ UNCHANGED <<outcome, queue, result>>

\* `*degree -= 1` on a usize, and the push of a node that has no caller left.
VisitNeighbour(m) ==
  /\ Draining /\ m \in pending
  /\ pending' = pending \ {m}
  /\ inDegree' = [inDegree EXCEPT ![m] = @ - 1]
  /\ queue' = IF inDegree'[m] = 0 THEN Append(queue, m) ELSE queue
  /\ UNCHANGED <<outcome, result>>

FinishSort ==
  /\ Draining /\ pending = {} /\ queue = << >>
  /\ outcome' = IF Len(result) = Cardinality(AllFunctions) THEN "some" ELSE "none"
  /\ UNCHANGED <<inDegree, queue, result, pending>>

Sort ==
  Refuse \/ CountDegrees \/ PopNode \/ (\E m \in Function : VisitNeighbour(m)) \/ FinishSort

\* The detection is run by the validator, or by the sort.
SortNext ==
  \/ Detect /\ UNCHANGED sortVars
  \/ outcome = "unsorted" /\ Validate /\ UNCHANGED sortVars
  \/ Sort /\ UNCHANGED vars

SortSpec == SortInit /\ [][SortNext]_<<vars, sortVars>> /\ WF_<<vars, sortVars>>(SortNext)

-----------------------------------------------------------------------------
(* The types of the variables of the sort; degrees may be any integer here.  *)
SortTypeOK ==
  /\ outcome \in Outcomes
  /\ DOMAIN inDegree \subseteq Function
  /\ inDegree \in [DOMAIN inDegree -> Int]
  /\ queue \in Seq(Function)
  /\ result \in Seq(Function)
  /\ pending \in SUBSET Function

(* in_degree is a usize: the subtraction would wrap (or panic, in a debug   *)
(* build) at zero.  It never happens: a node about to be decremented still  *)
(* has a caller that was counted.                                           *)
NoUnderflow == \A m \in pending : inDegree[m] >= 1

(* No function comes before one that calls it, and none is listed twice, at *)
(* any point of the drain.                                                  *)
CallersFirst ==
  \A i, j \in DOMAIN result :
    /\ result[i] \in adjacency[result[j]] => j < i
    /\ i # j => result[i] # result[j]

(* "Returns None if the graph contains cycles", and only then: an accepted  *)
(* graph is drained completely, so the None after Kahn's loop is dead code. *)
NoneIffCyclic ==
  /\ outcome = "none" => Check!Cyclic(adjacency)
  /\ outcome = "some" => ~Check!Cyclic(adjacency) /\ SetOf(result) = AllFunctions

(* The search comes to an end on every graph, cyclic ones included, and so   *)
(* does the drain: the validator answers, or the sort ends with an order or  *)
(* with None.                                                                *)
SortTerminates == <>(verdict # "pending" \/ outcome \in {"none", "some"})
=============================================================================
