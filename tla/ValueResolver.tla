----------------------------- MODULE ValueResolver -----------------------------
(* The resolution of a @DATA section (value_resolver.rs, ast_walker.rs):     *)
(* literals and aliases go to data_context, then the calls are run in passes *)
(* until none is left or a pass resolves none, then the names that are still *)
(* in the AST are looked up.                                                 *)
(*                                                                           *)
(* A document is its properties in order. A property has a location, its     *)
(* table (Root for a flat property) and its name, and holds a literal, the   *)
(* name of another property (an alias), or a call of a function with one     *)
(* argument: a literal, a name, or a call in its turn (inner).               *)
EXTENDS FunctionInterpreter, FiniteSets

CONSTANTS Documents,
          Root,
          MaxAliasPasses,   \* 8
          MinPasses,        \* MIN_CAPACITY * 4
          MaxPasses         \* MAX_RESOLUTION_ITERATIONS

\* "DATA.a" or "DATA.t.a"; a name alone is the location of nothing.
Location   == {v \in Value : Len(v) = 2 /\ v[2] # NoName}
Bare(name) == <<name>>

\* The analysis refuses a table, a property or a field that is there twice
\* (data_section_analyzer.rs:295, 403 and 514), so locations are distinct.
ASSUME DocumentAssumption ==
  /\ \A d \in Documents :
       /\ d \in Seq([at : Location, kind : {"literal", "alias", "call"},
                     callee : STRING, reads : STRING, inner : STRING])
       /\ \A i, j \in DOMAIN d : d[i].at = d[j].at => i = j
       /\ \A i \in DOMAIN d :
            /\ d[i].kind = "literal" => d[i].reads = NoName
            /\ d[i].kind = "alias" => d[i].reads # NoName
            /\ d[i].kind # "call" => d[i].inner = NoName
  /\ {MaxAliasPasses, MinPasses, MaxPasses} \subseteq Nat

VARIABLES document,
          data_context,   \* the values of locations
          ast,            \* the values that took the place of calls and names
          done,           \* the calls that are over
          failures,       \* those that ended with an error
          next, progress, \* the place in a pass, and whether it changed anything
          iteration,      \* passes so far
          circular,       \* CircularDependency was reported
          phase,
          reads,          \* of each call, the location it read, and its value
          misled          \* (history) what came before decided how a call went

resolverVars == <<data_context, ast, done, failures, next, progress, iteration,
                  circular, phase, reads, misled>>
vars         == <<document, resolverVars, interpreterVars>>

Phases == {"aliases", "pass", "calls", "argument", "running", "identifiers", "over"}

With(f, x, y) == [z \in DOMAIN f \cup {x} |-> IF z = x THEN y ELSE f[z]]

\* The locations among these that a name means: any that ends with it.
Named(name, locations) == {l \in locations : l[2] = name}

Property(i)   == document[i]
Locations     == {Property(i).at : i \in DOMAIN document}

\* The walk finds the call of property i as 2i - 1, and the one in its argument
\* as 2i, at the same location.
Slots        == 1 .. 2 * Len(document)
Of(k)        == Property((k + 1) \div 2)
IsInner(k)   == k % 2 = 0
Calls        == {k \in Slots : Of(k).kind = "call" /\ (IsInner(k) => Of(k).inner # NoName)}
Pending      == Calls \ done
Callee(k)    == IF IsInner(k) THEN Of(k).inner ELSE Of(k).callee
HasInner(k)  == ~IsInner(k) /\ Of(k).inner # NoName

MaxOf(a, b)   == IF a > b THEN a ELSE b
MinOf(a, b)   == IF a < b THEN a ELSE b
MaxIterations == MinOf(MaxOf(3 * Cardinality(Calls), MinPasses), MaxPasses)

\* What the names of a call are mapped to: in a table its properties, at the
\* root the property itself.
ScopeContext(k) ==
  IF Of(k).at[1] = Root THEN {Of(k).at}
  ELSE {l \in Locations : l[1] = Of(k).at[1]}

Init ==
  /\ document \in Documents
  /\ data_context = [l \in {Property(i).at : i \in {j \in DOMAIN document :
                                                    Property(j).kind = "literal"}} |-> l]
  /\ ast = << >> /\ reads = << >>
  /\ done = {} /\ failures = {}
  /\ next = 1 /\ progress = FALSE /\ iteration = 1
  /\ circular = FALSE /\ misled = FALSE
  /\ phase = "aliases"
  /\ InterpreterInit

-----------------------------------------------------------------------------
(* Phase 2: aliases. *)

IsOpenAlias(p) == p.kind = "alias" /\ p.at \notin DOMAIN data_context

ResolveAlias(l) ==
  /\ phase = "aliases" /\ next <= Len(document)
  /\ IsOpenAlias(Property(next))
  /\ l \in Named(Property(next).reads, DOMAIN data_context)
  /\ data_context' = With(data_context, Property(next).at, data_context[l])
  /\ progress' = TRUE
  /\ next' = next + 1
  /\ UNCHANGED <<document, ast, done, failures, iteration, circular, phase, reads,
                 misled, interpreterVars>>

PassAlias ==
  /\ phase = "aliases" /\ next <= Len(document)
  /\ ~ /\ IsOpenAlias(Property(next))
       /\ Named(Property(next).reads, DOMAIN data_context) # {}
  /\ next' = next + 1
  /\ UNCHANGED <<document, data_context, ast, done, failures, progress, iteration,
                 circular, phase, reads, misled, interpreterVars>>

EndAliasPass ==
  /\ phase = "aliases" /\ next > Len(document)
  /\ next' = 1 /\ progress' = FALSE
  /\ IF progress /\ iteration < MaxAliasPasses
     THEN iteration' = iteration + 1 /\ UNCHANGED phase
     ELSE iteration' = 0 /\ phase' = "pass"
  /\ UNCHANGED <<document, data_context, ast, done, failures, circular, reads,
                 misled, interpreterVars>>

-----------------------------------------------------------------------------
(* Phase 4: the calls. *)

StartPass ==
  /\ phase = "pass"
  /\ IF Pending = {}
     THEN phase' = (IF failures = {} THEN "identifiers" ELSE "over")
          /\ UNCHANGED <<circular, iteration>>
     ELSE IF iteration >= MaxIterations
     THEN phase' = "over" /\ circular' = TRUE /\ UNCHANGED iteration
     ELSE phase' = "calls" /\ iteration' = iteration + 1 /\ UNCHANGED circular
  /\ next' = 1 /\ progress' = FALSE
  /\ UNCHANGED <<document, data_context, ast, done, failures, reads, misled, interpreterVars>>

\* Faulty variant: only a flat property's location answers to a name.
BlockedOffRoot(k) ==
  Of(k).reads # NoName /\ <<Root, Of(k).reads>> \notin DOMAIN data_context

\* The name of the argument is in no location of the context.
Blocked(k) == Of(k).reads # NoName /\ Named(Of(k).reads, DOMAIN data_context) = {}

\* Faulty variant: a pass stops at a call that is blocked.
PassOverDone ==
  /\ phase = "calls" /\ next \in Slots
  /\ next \notin Pending
  /\ next' = next + 1
  /\ UNCHANGED <<document, data_context, ast, done, failures, progress, iteration,
                 circular, phase, reads, misled, interpreterVars>>

PassOver ==
  /\ phase = "calls" /\ next \in Slots
  /\ next \notin Pending \/ Blocked(next)
  /\ next' = next + 1
  /\ UNCHANGED <<document, data_context, ast, done, failures, progress, iteration,
                 circular, phase, reads, misled, interpreterVars>>

Ready == phase = "calls" /\ next \in Pending /\ ~Blocked(next)

\* The call is over with an error, which is no progress.
GiveUp ==
  /\ done' = done \cup {next} /\ failures' = failures \cup {next}
  /\ next' = next + 1
  /\ phase' = "calls"
  /\ UNCHANGED <<document, data_context, ast, progress, iteration, circular, reads>>

\* validate_function_scope.
RefuseCall ==
  /\ Ready
  /\ Callee(next) \notin Function
  /\ GiveUp /\ UNCHANGED <<misled, interpreterVars>>

\* The scope maps the name to a location that has no value yet, but another one
\* that the name could mean has: had that come later, the call would have waited.
MissInScope ==
  /\ Ready
  /\ Callee(next) \in Function
  /\ \E l \in Named(Of(next).reads, ScopeContext(next)) : l \notin DOMAIN data_context
  /\ GiveUp /\ UNCHANGED interpreterVars
  /\ misled' = TRUE

\* Earlier calls have left a level or a lambda to later ones.
Used == recursion_depth # 0 \/ DOMAIN lambda_registry # {}

\* The argument is read and the innermost call begins.
Begin(argument) ==
  /\ IF HasInner(next)
     THEN phase' = "argument" /\ Evaluate(Of(next).inner, NoName, argument)
     ELSE phase' = "running" /\ Execute(Callee(next), argument)
  /\ misled' = (misled \/ Used)
  /\ UNCHANGED <<document, data_context, ast, done, failures, next, progress,
                 iteration, circular>>

CallWithLiteral ==
  /\ Ready
  /\ Callee(next) \in Function
  /\ Of(next).reads = NoName
  /\ Begin(<<"literal">>) /\ UNCHANGED reads

\* A name that the scope does not map means any location that ends with it.
CallWithName(l) ==
  /\ Ready
  /\ Callee(next) \in Function
  /\ LET name   == Of(next).reads
         mapped == Named(name, ScopeContext(next))
     IN /\ l \in DOMAIN data_context
        /\ l \in (IF mapped # {} THEN mapped ELSE Named(name, DOMAIN data_context))
  /\ Begin(data_context[l])
  /\ reads' = With(reads, next, [from |-> l, value |-> data_context[l]])

Work ==
  /\ phase \in {"argument", "running"}
  /\ Interpret
  /\ UNCHANGED <<document, resolverVars>>

Returned == ~Running /\ value # NoValue

CallWithResult ==
  /\ phase = "argument" /\ Returned
  /\ phase' = "running"
  /\ Execute(Of(next).callee, value)
  /\ UNCHANGED <<document, data_context, ast, done, failures, next, progress,
                 iteration, circular, reads, misled>>

\* Faulty variant: the value goes to the flat property of the name.
SucceedAtRoot ==
  /\ phase = "running" /\ Returned
  /\ data_context' = With(data_context, <<Root, Of(next).at[2]>>, value)
  /\ ast' = IF IsInner(next) THEN ast ELSE With(ast, Of(next).at, value)
  /\ done' = done \cup {next}
  /\ progress' = TRUE
  /\ next' = next + 1
  /\ phase' = "calls"
  /\ value' = NoValue
  /\ UNCHANGED <<document, failures, iteration, circular, reads, misled,
                 recursion_depth, lambda_registry, frames, failed>>

\* The value goes to the location of the call, and takes the place of the call
\* in the AST, where only the outer one is found.
Succeed ==
  /\ phase = "running" /\ Returned
  /\ data_context' = With(data_context, Of(next).at, value)
  /\ ast' = IF IsInner(next) THEN ast ELSE With(ast, Of(next).at, value)
  /\ done' = done \cup {next}
  /\ progress' = TRUE
  /\ next' = next + 1
  /\ phase' = "calls"
  /\ value' = NoValue
  /\ UNCHANGED <<document, failures, iteration, circular, reads, misled,
                 recursion_depth, lambda_registry, frames, failed>>

Fail ==
  /\ phase \in {"argument", "running"} /\ failed
  /\ GiveUp
  /\ failed' = FALSE
  /\ UNCHANGED <<misled, recursion_depth, lambda_registry, frames, value>>

\* Faulty variant: what one pass leaves is taken for circular.
EndOnlyPass ==
  /\ phase = "calls" /\ next > 2 * Len(document)
  /\ IF Pending # {} THEN phase' = "over" /\ circular' = TRUE
     ELSE phase' = "pass" /\ UNCHANGED circular
  /\ UNCHANGED <<document, data_context, ast, done, failures, next, progress,
                 iteration, reads, misled, interpreterVars>>

EndPass ==
  /\ phase = "calls" /\ next > 2 * Len(document)
  /\ IF ~progress /\ Pending # {} THEN phase' = "over" /\ circular' = TRUE
     ELSE phase' = "pass" /\ UNCHANGED circular
  /\ UNCHANGED <<document, data_context, ast, done, failures, next, progress,
                 iteration, reads, misled, interpreterVars>>

-----------------------------------------------------------------------------
(* Phase 5: the names that stand in the AST. They are looked up as they are, *)
(* not by the end of a location.                                             *)

AliasProperties == {i \in DOMAIN document : Property(i).kind = "alias"}
Replaceable == {i \in AliasProperties :
                  Property(i).at \notin DOMAIN ast /\ Bare(Property(i).reads) \in DOMAIN data_context}

\* A pass over them; one that replaces none is the last. (Their limit, of 8 or
\* more passes, is out of reach.)
ReplaceNames ==
  /\ phase = "identifiers"
  /\ IF Replaceable = {} THEN phase' = "over" /\ UNCHANGED <<ast, data_context>>
     ELSE LET found == [l \in {Property(i).at : i \in Replaceable} |->
                          data_context[Bare(Property(CHOOSE i \in Replaceable : Property(i).at = l).reads)]]
              fill(f) == [l \in DOMAIN f \cup DOMAIN found |->
                            IF l \in DOMAIN found THEN found[l] ELSE f[l]]
          IN ast' = fill(ast) /\ data_context' = fill(data_context) /\ UNCHANGED phase
  /\ UNCHANGED <<document, done, failures, next, progress, iteration, circular, reads,
                 misled, interpreterVars>>

Aliases == PassAlias \/ EndAliasPass \/ \E l \in DOMAIN data_context : ResolveAlias(l)

Run ==
  \/ CallWithLiteral \/ CallWithResult \/ Work \/ Succeed \/ Fail
  \/ \E l \in DOMAIN data_context : CallWithName(l)

Next == Aliases \/ StartPass \/ PassOver \/ RefuseCall \/ MissInScope \/ Run \/ EndPass
        \/ ReplaceNames

Spec == Init /\ [][Next]_vars /\ WF_vars(Next)

-----------------------------------------------------------------------------
(* Properties. *)

(* Types, and what an idle interpreter looks like. *)
TypeOK ==
  /\ document \in Documents
  /\ \A l \in DOMAIN data_context : data_context[l] \in Value
  /\ {done, failures} \subseteq SUBSET Slots /\ failures \subseteq done
  /\ next \in Nat /\ iteration \in Nat
  /\ progress \in BOOLEAN /\ circular \in BOOLEAN /\ misled \in BOOLEAN
  /\ phase \in Phases
  /\ recursion_depth \in Int
  /\ \A n \in DOMAIN lambda_registry : lambda_registry[n] \in Label
  /\ frames \in Seq(Frame)
  /\ value \in Value
  /\ failed \in BOOLEAN
  /\ phase \in {"argument", "running"} => next \in Pending
  /\ phase \notin {"argument", "running"} => ~Running /\ value = NoValue /\ ~failed
  /\ failed => ~Running /\ value = NoValue

(* "CircularDependency: n calls unresolvable" is said only when each of them *)
(* waits for a name that no location has, so that no other order would help, *)
(* or when the passes are used up, each by a call that was resolved.         *)
StuckIsReal ==
  circular =>
    \/ \A k \in Pending :
         Of(k).reads # NoName /\ Named(Of(k).reads, DOMAIN data_context) = {}
    \/ iteration = MaxIterations /\ Cardinality(done \ failures) >= iteration

Source(i) == {j \in DOMAIN document : Property(j).at[2] = Property(i).reads}

\* What the compiled document has: literals, and what took the place of calls
\* and names. A name that is left is dropped (dix_value.rs:320).
Shows(i) == Property(i).kind = "literal" \/ Property(i).at \in DOMAIN ast
Shown(i) == IF Property(i).at \in DOMAIN ast THEN ast[Property(i).at] ELSE Property(i).at

\* j is i, or the chain of aliases from i may lead to it.
LeadsTo(i, j) ==
  \A S \in SUBSET DOMAIN document :
    i \in S /\ (\A a \in S \cap AliasProperties : Source(a) \subseteq S) => j \in S

(* What a call computed with is what the document shows in the end: at the   *)
(* location that it read, or, if that is an alias, which shows nothing, at   *)
(* one that the alias leads to. No later call writes it. (A call in an       *)
(* argument does: it is run again after the outer one, and leaves its own    *)
(* value at their location.) Which of several locations a name means is left *)
(* open here as it is in the code, by the order of a hash map.               *)
ReadsAreFinal ==
  phase = "over" =>
    \A k \in DOMAIN reads \cap (done \ failures) :
      \E i \in DOMAIN document :
        /\ Property(i).at = reads[k].from
        /\ Property(i).inner = NoName =>
             \E j \in DOMAIN document :
               LeadsTo(i, j) /\ Shows(j) /\ Shown(j) = reads[k].value

(* A set of properties that can never have a value: each reads a name that   *)
(* is missing or belongs to one of the set, or is an alias of a call, or is  *)
(* a call that failed, unless the call in its argument has left a value.     *)
Starved(S) ==
  \A i \in S :
    \/ 2 * i - 1 \in failures
    \/ /\ Property(i).reads # NoName
       /\ \A j \in Source(i) :
            \/ j \in S /\ 2 * j \notin done \ failures
            \/ Property(i).kind = "alias" /\ Property(j).kind = "call"

\* The scope of a call has the name it reads only if no other location has it.
Unshadowed ==
  \A k \in Calls :
    Named(Of(k).reads, ScopeContext(k)) # {} => Named(Of(k).reads, Locations) \subseteq ScopeContext(k)

(* When all passes are over exactly the calls that could be resolved have    *)
(* been, in whatever order they stand, as long as none was misled: then each *)
(* failure is the function's own, in an interpreter as new. (Aliases may be  *)
(* no more than the passes over them: a chain is taken a link a pass at the  *)
(* worst.) And none is misled by the order of the document where no name is  *)
(* shadowed and no call leaves a level or a lambda behind.                   *)
ResolvesWhatItCan ==
  phase = "over" =>
    /\ Unshadowed /\ ~Used => ~misled
    /\ /\ ~misled /\ iteration < MaxIterations
       /\ Cardinality(AliasProperties) <= MaxAliasPasses
       =>
         \A i \in DOMAIN document : Property(i).kind = "call" =>
           (2 * i - 1 \in done \ failures
             <=> ~ \E S \in SUBSET DOMAIN document : i \in S /\ Starved(S))

(* As long as no call has failed, each call starts at depth zero, so that    *)
(* the limit of recursion means the same for the last call as for the first. *)
DepthReturns == ~Running /\ ~failed /\ failures = {} => recursion_depth = 0

(* The resolution ends, whatever its document.                               *)
ResolutionEnds == <>(phase = "over")
=============================================================================
