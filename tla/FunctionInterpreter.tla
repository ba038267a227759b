-------------------------- MODULE FunctionInterpreter --------------------------
(* The evaluation of QuickFunctions (function_interpreter.rs). One           *)
(* interpreter serves all calls of a resolution: its depth and its lambdas   *)
(* go from one call to the next.                                             *)
(*                                                                           *)
(* Body gives the statements that an evaluation of a function meets: of an   *)
(* `if` or a `chk`, those of the branch that its condition takes. A lambda's *)
(* body only computes. A value is known by what made it: the label of an     *)
(* expression, followed by the argument it was computed from. So the way     *)
(* through a function, and whether it fails, is the same for each argument.  *)
EXTENDS Integers, Sequences

CONSTANTS Function,        \* the names that @QUICKFUNCS and the imports define
          Statement,       \* statements, with those of their branches
          Label,           \* what made a value
          Body,
          RecursionLimit   \* of each function, from its size

Kinds    == {"return", "eval", "bind", "branch", "fail"}
NoName   == ""
NoValue  == << >>
Null     == <<"null">>

ASSUME BodyAssumption ==
  /\ Body \in [Function -> Seq(Statement)]
  /\ RecursionLimit \in [Function -> Nat]
  /\ {"null", "literal"} \subseteq Label
  /\ \A s \in Statement :
       /\ s.kind \in Kinds
       /\ s.local \in Label \cup {NoName} /\ s.label \in Label
       /\ s.body \in Seq(Statement)

VARIABLES recursion_depth, lambda_registry,
          frames,   \* the lists of statements that are being executed
          value,    \* what the last statement, list or call came to
          failed    \* an error is on its way out

interpreterVars == <<recursion_depth, lambda_registry, frames, value, failed>>

InterpreterInit ==
  /\ recursion_depth = 0
  /\ lambda_registry = << >>
  /\ frames = << >>
  /\ value = NoValue
  /\ failed = FALSE

Top     == frames[Len(frames)]
Current == Head(Top.todo)

Running == frames # << >>

Value == Seq(Label)
Frame == [list : {"function", "branch"}, todo : Seq(Statement), last : Value,
          argument : Value, depth : Int]

\* `?` leaves every active list, and no count is given back.
Abandon ==
  /\ frames' = << >>
  /\ failed' = TRUE
  /\ value' = NoValue
  /\ UNCHANGED <<recursion_depth, lambda_registry>>

Pushed(list, todo, argument, depth) ==
  Append(frames, [list |-> list, todo |-> todo, last |-> Null,
                  argument |-> argument, depth |-> depth])

Execute(f, argument) ==
  IF recursion_depth + 1 > RecursionLimit[f]
  THEN Abandon
  ELSE /\ recursion_depth' = recursion_depth + 1
       /\ frames' = Pushed("function", Body[f], argument, recursion_depth + 1)
       /\ value' = NoValue
       /\ UNCHANGED <<lambda_registry, failed>>

Yield(v) ==
  /\ value' = v
  /\ UNCHANGED <<recursion_depth, lambda_registry, frames, failed>>

\* A name is looked for among the lambdas that were ever bound to it, then it
\* is the lambda in a local variable or parameter, then a function. (An import's
\* function that is called as alias.name is looked for in its namespace only:
\* its name here is the qualified one, which no lambda and no variable has.)
Evaluate(name, local, argument) ==
  \/ /\ name \in DOMAIN lambda_registry
     /\ Yield(<<lambda_registry[name]>> \o argument)
  \/ /\ name \notin DOMAIN lambda_registry
     /\ local # NoName
     /\ Yield(<<local>> \o argument)
  \/ /\ name \notin DOMAIN lambda_registry
     /\ local = NoName
     /\ IF name \in Function THEN Execute(name, argument) ELSE Abandon

\* The next statement of the innermost list.
At(kinds) ==
  /\ Running /\ value = NoValue
  /\ Top.todo # << >>
  /\ Current.kind \in kinds

Compute ==
  /\ At({"return", "eval"})
  /\ Current.callee = NoName
  /\ Yield(<<Current.label>> \o Top.argument)

CallByName ==
  /\ At({"return", "eval"})
  /\ Current.callee # NoName
  /\ Evaluate(Current.callee, Current.local, Top.argument)

\* A declaration or an assignment of a lambda also registers it by name.
BindLambda ==
  /\ At({"bind"})
  /\ value' = <<Current.label>>
  /\ lambda_registry' =
       [n \in DOMAIN lambda_registry \cup {Current.callee} |->
          IF n = Current.callee THEN Current.label ELSE lambda_registry[n]]
  /\ UNCHANGED <<recursion_depth, frames, failed>>

TakeBranch ==
  /\ At({"branch"})
  /\ frames' = Pushed("branch", Current.body, Top.argument, recursion_depth)
  /\ UNCHANGED <<recursion_depth, lambda_registry, value, failed>>

Raise == At({"fail"}) /\ Abandon

\* The innermost list is over; a function gives its level back.
Leave(v) ==
  /\ frames' = SubSeq(frames, 1, Len(frames) - 1)
  /\ recursion_depth' = IF Top.list = "function" THEN recursion_depth - 1
                        ELSE recursion_depth
  /\ value' = v
  /\ UNCHANGED <<lambda_registry, failed>>

\* A statement has its value. A `return` ends the list it stands in, which is
\* the function's only where it stands at the function's top level.
EndStatement ==
  /\ Running /\ value # NoValue /\ Top.todo # << >>
  /\ IF Current.kind = "return"
     THEN Leave(value)
     ELSE /\ frames' = [frames EXCEPT ![Len(frames)].todo = Tail(@),
                                      ![Len(frames)].last = value]
          /\ value' = NoValue
          /\ UNCHANGED <<recursion_depth, lambda_registry, failed>>

\* Faulty variant: a list that ends without `return` keeps its level.
EndListAtDepth ==
  /\ Running /\ value = NoValue
  /\ Top.todo = << >>
  /\ frames' = SubSeq(frames, 1, Len(frames) - 1)
  /\ value' = Top.last
  /\ UNCHANGED <<recursion_depth, lambda_registry, failed>>

EndList ==
  /\ Running /\ value = NoValue
  /\ Top.todo = << >>
  /\ Leave(Top.last)

Interpret ==
  Compute \/ CallByName \/ BindLambda \/ TakeBranch \/ Raise \/ EndStatement \/ EndList
=============================================================================
