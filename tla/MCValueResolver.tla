---------------------------- MODULE MCValueResolver ----------------------------
(* Six functions: one that computes, one that fails, one that calls another, *)
(* one with a `return` in a branch, one that binds a lambda to `fn`, and one *)
(* whose parameter `fn` holds a lambda.                                      *)
EXTENDS ValueResolver

Stmt(kind, callee, local, label, body) ==
  [kind |-> kind, callee |-> callee, local |-> local, label |-> label, body |-> body]
Return(label)     == Stmt("return", NoName, NoName, label, << >>)
Eval(f, local)    == Stmt("eval", f, local, "called", << >>)
Branch(body)      == Stmt("branch", NoName, NoName, "branch", body)

MCFunction == {"plain", "failing", "nesting", "early", "binder", "apply"}

MCBody ==
  [f \in MCFunction |->
     CASE f = "plain"   -> <<Return("plain")>>
       [] f = "failing" -> <<Eval("plain", NoName), Stmt("fail", NoName, NoName, "fail", << >>)>>
       [] f = "nesting" -> <<Eval("plain", NoName)>>
       [] f = "early"   -> <<Branch(<<Return("then")>>), Return("after")>>
       [] f = "binder"  -> <<Stmt("bind", "fn", NoName, "lambda", << >>), Eval("fn", NoName)>>
       [] f = "apply"   -> <<Stmt("return", "fn", "argument's", "apply", << >>)>>]

MCStatement ==
  UNION {{MCBody[f][n] : n \in DOMAIN MCBody[f]} : f \in MCFunction} \cup {Return("then")}

MCLabel == STRING

MCLimit == [f \in MCFunction |-> 2]

Flat(n)  == <<Root, n>>
Field(n) == <<"t", n>>

Literal(l)      == [at |-> l, kind |-> "literal", callee |-> NoName, reads |-> NoName, inner |-> NoName]
Alias(l, n)     == [Literal(l) EXCEPT !.kind = "alias", !.reads = n]
Call(l, f, n, g) == [Literal(l) EXCEPT !.kind = "call", !.callee = f, !.reads = n, !.inner = g]

\* Flat properties come before tables.
Orders == {<<Flat("a"), Flat("b"), Field("a")>>, <<Flat("a"), Field("b"), Field("a")>>,
           <<Flat("b"), Flat("a"), Flat("c")>>, <<Flat("a"), Field("a"), Field("b")>>}

\* Every way to read; the functions that matter to the interpreter.
Readers(l) == {Literal(l)} \cup {Alias(l, n) : n \in {"a", "b", "c"}}
                \cup {Call(l, "plain", n, g) : n \in {NoName, "a", "b", "c"}, g \in {NoName, "plain"}}
Runners(l) == {Call(l, f, n, NoName) : f \in MCFunction, n \in {NoName, "a"}}
                \cup {Literal(l), Call(l, "plain", NoName, "failing"),
                      Call(l, "plain", NoName, "unknown"), Call(l, "failing", NoName, "plain")}

Document(P(_)) == UNION {{<<x, y, z>> : x \in P(o[1]), y \in P(o[2]), z \in P(o[3])} : o \in Orders}

MCDocuments == Document(Readers) \cup Document(Runners)

(* "return: return a value from a QuickFunc": the value of a function is     *)
(* that of the first `return` that its evaluation meets.                     *)
RECURSIVE Met(_)
Met(list) ==
  IF list = << >> THEN << >>
  ELSE (IF Head(list).kind = "branch" THEN Met(Head(list).body) ELSE <<Head(list)>>)
       \o Met(Tail(list))

ReturnsEndFunctions ==
  phase = "over" =>
    \A i \in DOMAIN document : 2 * i - 1 \in Calls \cap (done \ failures) =>
      LET met     == Met(Body[Property(i).callee])
          returns == {n \in DOMAIN met : met[n].kind = "return"}
          first   == CHOOSE n \in returns : \A m \in returns : n <= m
      IN returns # {} /\ met[first].callee = NoName
           => ast[Property(i).at][1] = met[first].label

(* "Phase 5: Remaining Identifier reference resolution.": when it is over, a *)
(* name of a property that has a value has given way to that value.          *)
AliasesAreShown ==
  phase = "over" /\ failures = {} /\ ~circular =>
    \A i \in AliasProperties : Property(i).at \in DOMAIN data_context => Shows(i)
=============================================================================
