-------------------------- MODULE ValueResolverProofs --------------------------
(***************************************************************************)
(* Proofs about ValueResolver, for any documents, functions and limits:    *)
(* the depth of the interpreter comes back to zero after every call as     *)
(* long as none has failed, calls are reported as circular only when each  *)
(* waits for a name that nothing has, what a call has read is shown where  *)
(* it was read or where the alias there leads to, and when the passes are  *)
(* over exactly the calls that could be resolved have been, unless one was *)
(* misled.                                                                 *)
(***************************************************************************)
EXTENDS ValueResolver, FiniteSetTheorems, SequenceTheorems, TLAPS

(* A call began at depth b: the innermost list knows the depth, every        *)
(* function on the way to it counts for one, and the outermost list is a     *)
(* function's.                                                               *)
Shape(b) ==
  /\ ~Running => recursion_depth = b
  /\ Running => /\ recursion_depth = Top.depth
                /\ frames[1].depth = b + 1 /\ frames[1].list = "function"
  /\ \A i \in 1..Len(frames) : frames[i].depth > b
  /\ \A i \in 2..Len(frames) :
       frames[i].depth = frames[i-1].depth + (IF frames[i].list = "function" THEN 1 ELSE 0)

\* A call that fails may keep levels, and gives back none that it did not take.
Kept(b) == Shape(b) \/ (failed /\ ~Running /\ recursion_depth >= b)

DepthInv == failures = {} /\ ~failed => Shape(0)

(* What the interpreter's steps keep.                                        *)
InterpreterTypes ==
  /\ recursion_depth \in Int
  /\ \A n \in DOMAIN lambda_registry : lambda_registry[n] \in Label
  /\ frames \in Seq(Frame)
  /\ value \in Value
  /\ failed \in BOOLEAN
  /\ failed => ~Running /\ value = NoValue

-----------------------------------------------------------------------------
LEMMA AtLeastBase ==
  ASSUME InterpreterTypes, NEW b \in Int, Shape(b)
  PROVE  recursion_depth >= b
<1>1. CASE Running
  <2>1. Len(frames) \in 1..Len(frames) /\ frames[Len(frames)].depth \in Int
    <3>1. frames \in Seq(Frame) /\ frames # << >>
      BY <1>1 DEF InterpreterTypes, Running
    <3>2. Len(frames) \in 1..Len(frames) /\ frames[Len(frames)] \in Frame
      BY <3>1
    <3> QED
      BY <3>2 DEF Frame
  <2> QED
    BY <1>1, <2>1 DEF Shape, Top
<1>2. CASE ~Running
  BY <1>2 DEF Shape
<1> QED
  BY <1>1, <1>2

LEMMA AbandonTypes ==
  ASSUME InterpreterTypes, NEW b \in Int, Abandon
  PROVE  InterpreterTypes' /\ (Shape(b) => Kept(b)')
<1>1. InterpreterTypes' /\ failed' /\ ~Running' /\ recursion_depth' = recursion_depth
  BY DEF InterpreterTypes, Abandon, Running, NoValue, Value
<1> QED
  BY <1>1, AtLeastBase DEF Kept

LEMMA OneIsSeq ==
  ASSUME NEW S, NEW x \in S
  PROVE  <<x>> \in Seq(S)
OBVIOUS

LEMMA NullIsValue == Null \in Value
<1>1. "null" \in Label
  BY BodyAssumption
<1> QED
  BY <1>1, OneIsSeq DEF Null, Value

LEMMA PushedIsFrames ==
  ASSUME frames \in Seq(Frame), NEW list \in {"function", "branch"},
         NEW todo \in Seq(Statement), NEW argument \in Value, NEW depth \in Int
  PROVE  /\ Pushed(list, todo, argument, depth) \in Seq(Frame)
         /\ Len(Pushed(list, todo, argument, depth)) = Len(frames) + 1
         /\ \A i \in 1..Len(frames) : Pushed(list, todo, argument, depth)[i] = frames[i]
         /\ Pushed(list, todo, argument, depth)[Len(frames) + 1].list = list
         /\ Pushed(list, todo, argument, depth)[Len(frames) + 1].depth = depth
<1> DEFINE f == [list |-> list, todo |-> todo, last |-> Null,
                 argument |-> argument, depth |-> depth]
<1>1. f \in Frame
  BY NullIsValue DEF Frame
<1>2. Pushed(list, todo, argument, depth) = Append(frames, f)
  BY DEF Pushed
<1>3. f.list = list /\ f.depth = depth
  OBVIOUS
<1> HIDE DEF f
<1> QED
  BY <1>1, <1>2, <1>3

LEMMA ExecuteKeeps ==
  ASSUME InterpreterTypes, NEW b \in Int, ~failed, NEW f \in Function, NEW argument \in Value,
         Execute(f, argument)
  PROVE  InterpreterTypes' /\ (Shape(b) => Kept(b)')
<1>1. CASE recursion_depth + 1 > RecursionLimit[f]
  BY <1>1, AbandonTypes DEF Execute
<1>2. CASE ~(recursion_depth + 1 > RecursionLimit[f])
  <2> DEFINE n == Len(frames) + 1
  <2>1. /\ recursion_depth' = recursion_depth + 1
        /\ frames' = Pushed("function", Body[f], argument, recursion_depth + 1)
        /\ value' = NoValue
        /\ UNCHANGED <<lambda_registry, failed>>
    BY <1>2 DEF Execute
  <2>2. Body[f] \in Seq(Statement) /\ recursion_depth + 1 \in Int
    BY BodyAssumption DEF InterpreterTypes
  <2>3. frames \in Seq(Frame) /\ Len(frames) \in Nat
    BY DEF InterpreterTypes
  <2>4. /\ frames' \in Seq(Frame)
        /\ Len(frames') = n
        /\ \A i \in 1..Len(frames) : frames'[i] = frames[i]
        /\ frames'[n].list = "function"
        /\ frames'[n].depth = recursion_depth + 1
    BY <2>1, <2>2, <2>3, PushedIsFrames
  <2>5. InterpreterTypes'
    BY <2>1, <2>2, <2>4 DEF InterpreterTypes, NoValue, Value
  <2>6. ASSUME Shape(b) PROVE Shape(b)'
    <3>1. frames' # << >> /\ Running'
      BY <2>3, <2>4 DEF Running
    <3>2. recursion_depth' = Top'.depth
      BY <2>1, <2>4 DEF Top
    <3>3. frames'[1].depth = b + 1 /\ frames'[1].list = "function"
      <4>1. CASE Running
        BY <4>1, <2>3, <2>4, <2>6 DEF Shape, Running
      <4>2. CASE ~Running
        BY <4>2, <2>3, <2>4, <2>6 DEF Shape, Running
      <4> QED
        BY <4>1, <4>2
    <3>4. ASSUME NEW i \in 2..Len(frames')
          PROVE  frames'[i].depth
                   = frames'[i-1].depth + (IF frames'[i].list = "function" THEN 1 ELSE 0)
      <4>1. CASE i \in 2..Len(frames)
        BY <4>1, <2>3, <2>4, <2>6 DEF Shape
      <4>2. CASE i = n
        <5>1. Running /\ i - 1 = Len(frames) /\ i - 1 \in 1..Len(frames)
          BY <4>2, <3>4, <2>3, <2>4 DEF Running
        <5>2. recursion_depth = frames[i-1].depth
          BY <5>1, <2>6 DEF Shape, Top
        <5> QED
          BY <5>1, <5>2, <4>2, <2>4
      <4> QED
        BY <4>1, <4>2, <2>3, <2>4, <3>4
    <3>5. \A i \in 1..Len(frames') : frames'[i].depth > b
      BY <2>3, <2>4, <2>6, AtLeastBase DEF Shape, InterpreterTypes
    <3> QED
      BY <3>1, <3>2, <3>3, <3>4, <3>5 DEF Shape
  <2> QED
    BY <2>5, <2>6 DEF Kept
<1> QED
  BY <1>1, <1>2

LEMMA YieldKeeps ==
  ASSUME InterpreterTypes, NEW b \in Int, ~failed, NEW v \in Value, Yield(v)
  PROVE  InterpreterTypes' /\ (Shape(b) => Shape(b)')
BY DEF InterpreterTypes, Yield, Shape, Running, Top

LEMMA LabelledIsValue ==
  ASSUME NEW label \in Label, NEW argument \in Value
  PROVE  <<label>> \o argument \in Value
BY OneIsSeq, ConcatProperties DEF Value

LEMMA EvaluateKeeps ==
  ASSUME InterpreterTypes, NEW b \in Int, ~failed,
         NEW name, NEW local \in Label \cup {NoName}, NEW argument \in Value,
         Evaluate(name, local, argument)
  PROVE  InterpreterTypes' /\ (Shape(b) => Kept(b)')
<1>1. CASE name \in DOMAIN lambda_registry /\ Yield(<<lambda_registry[name]>> \o argument)
  BY <1>1, LabelledIsValue, YieldKeeps DEF InterpreterTypes, Kept
<1>2. CASE local # NoName /\ Yield(<<local>> \o argument)
  BY <1>2, LabelledIsValue, YieldKeeps DEF Kept
<1>3. CASE name \in Function /\ Execute(name, argument)
  BY <1>3, ExecuteKeeps
<1>4. CASE Abandon
  BY <1>4, AbandonTypes
<1> QED
  BY <1>1, <1>2, <1>3, <1>4 DEF Evaluate

LEMMA TopIsFrame ==
  ASSUME InterpreterTypes, Running
  PROVE  /\ Len(frames) \in Nat /\ Len(frames) >= 1
         /\ Top \in Frame
         /\ Top.todo # << >> => Current \in Statement
<1>1. frames \in Seq(Frame) /\ frames # << >>
  BY DEF InterpreterTypes, Running
<1> HIDE DEF Frame
<1>2. Len(frames) \in Nat /\ Len(frames) >= 1
  BY <1>1
<1>3. Top \in Frame
  BY <1>1, <1>2 DEF Top
<1>4. Top.todo \in Seq(Statement)
  BY <1>3 DEF Frame
<1> QED
  BY <1>2, <1>3, <1>4 DEF Current

LEMMA LeaveKeeps ==
  ASSUME InterpreterTypes, NEW b \in Int, Running, ~failed, NEW v \in Value, Leave(v)
  PROVE  InterpreterTypes' /\ (Shape(b) => Shape(b)')
<1> DEFINE n == Len(frames)
<1>1. n \in Nat /\ n >= 1 /\ frames \in Seq(Frame) /\ Top \in Frame
  BY TopIsFrame DEF InterpreterTypes
<1>2. /\ frames' = SubSeq(frames, 1, n - 1)
      /\ recursion_depth' = IF Top.list = "function" THEN recursion_depth - 1
                            ELSE recursion_depth
      /\ value' = v
      /\ UNCHANGED <<lambda_registry, failed>>
  BY DEF Leave
<1>3. /\ frames' \in Seq(Frame)
      /\ Len(frames') = n - 1
      /\ \A i \in 1..(n - 1) : frames'[i] = frames[i]
  <2>1. n - 1 \in Int /\ \A i \in 1..(n - 1) : frames[i] \in Frame
    BY <1>1
  <2>2. /\ SubSeq(frames, 1, n - 1) \in Seq(Frame)
        /\ Len(SubSeq(frames, 1, n - 1)) = IF 1 <= n - 1 THEN n - 1 - 1 + 1 ELSE 0
        /\ \A i \in 1..(n - 1 - 1 + 1) : SubSeq(frames, 1, n - 1)[i] = frames[1 + i - 1]
    <3> HIDE DEF n, Frame
    <3> QED
      BY <2>1, SubSeqProperties
  <2> HIDE DEF n
  <2>3. \A i \in 1..(n - 1) : i \in 1..(n - 1 - 1 + 1) /\ 1 + i - 1 = i
    BY <1>1
  <2>4. (IF 1 <= n - 1 THEN n - 1 - 1 + 1 ELSE 0) = n - 1
    BY <1>1
  <2> QED
    BY <1>2, <2>2, <2>3, <2>4
<1>4. InterpreterTypes'
  BY <1>1, <1>2, <1>3 DEF InterpreterTypes
<1>5. ASSUME Shape(b) PROVE Shape(b)'
  <2>1. /\ recursion_depth = frames[n].depth
        /\ frames[1].depth = b + 1 /\ frames[1].list = "function"
        /\ recursion_depth' = IF frames[n].list = "function" THEN recursion_depth - 1
                              ELSE recursion_depth
    BY <1>2, <1>5 DEF Shape, Top
  <2>2. CASE n = 1
    <3>1. frames' = << >> /\ recursion_depth' = b
      BY <1>2, <1>3, <2>1, <2>2
    <3>2. ~Running' /\ Len(frames') = 0
      BY <3>1 DEF Running
    <3> QED
      BY <3>1, <3>2 DEF Shape
  <2>3. CASE n > 1
    <3>1. Running'
      BY <1>3, <1>1, <2>3 DEF Running
    <3>2. frames[n].depth = frames[n-1].depth + (IF frames[n].list = "function" THEN 1 ELSE 0)
      BY <1>1, <1>5, <2>3 DEF Shape
    <3>3. frames[n-1].depth \in Int /\ frames[n].depth \in Int
      <4>1. frames[n-1] \in Frame /\ frames[n] \in Frame
        BY <1>1, <2>3
      <4> QED
        BY <4>1 DEF Frame
    <3>4. recursion_depth' = frames[n-1].depth
      BY <2>1, <3>2, <3>3
    <3>5. Top' = frames[n-1]
      BY <1>1, <1>3, <2>3 DEF Top
    <3>6. frames'[1] = frames[1]
      BY <1>1, <1>3, <2>3
    <3>7. \A i \in 2..Len(frames') :
            i \in 2..n /\ frames'[i] = frames[i] /\ frames'[i-1] = frames[i-1]
      BY <1>1, <1>3
    <3>8. Running' => /\ recursion_depth' = Top'.depth
                      /\ frames'[1].depth = b + 1 /\ frames'[1].list = "function"
      BY <2>1, <3>4, <3>5, <3>6
    <3>9. ASSUME NEW i \in 2..Len(frames')
          PROVE  frames'[i].depth
                   = frames'[i-1].depth + (IF frames'[i].list = "function" THEN 1 ELSE 0)
      BY <1>5, <3>7 DEF Shape
    <3>10. \A i \in 1..Len(frames') : frames'[i].depth > b
      BY <1>1, <1>3, <1>5 DEF Shape
    <3> QED
      BY <3>1, <3>8, <3>9, <3>10 DEF Shape
  <2>4. n = 1 \/ n > 1
    <3>1. n \in Nat /\ n >= 1
      BY <1>1
    <3> HIDE DEF n
    <3> QED
      BY <3>1
  <2> QED
    BY <2>2, <2>3, <2>4
<1> QED
  BY <1>4, <1>5

LEMMA TakeBranchKeeps ==
  ASSUME InterpreterTypes, NEW b \in Int, ~failed, TakeBranch
  PROVE  InterpreterTypes' /\ (Shape(b) => Shape(b)')
<1> DEFINE n == Len(frames) + 1
<1>1. /\ Running /\ value = NoValue /\ Top.todo # << >>
      /\ frames' = Pushed("branch", Current.body, Top.argument, recursion_depth)
      /\ UNCHANGED <<recursion_depth, lambda_registry, value, failed>>
  BY DEF TakeBranch, At
<1>2. Current.body \in Seq(Statement) /\ Top.argument \in Value
  BY <1>1, TopIsFrame, BodyAssumption DEF Frame
<1>3. frames \in Seq(Frame) /\ Len(frames) \in Nat /\ Len(frames) >= 1
  BY <1>1, TopIsFrame DEF InterpreterTypes
<1>4. /\ frames' \in Seq(Frame)
      /\ Len(frames') = n
      /\ \A i \in 1..Len(frames) : frames'[i] = frames[i]
      /\ frames'[n].list = "branch"
      /\ frames'[n].depth = recursion_depth
  BY <1>1, <1>2, <1>3, PushedIsFrames DEF InterpreterTypes
<1>5. InterpreterTypes'
  BY <1>1, <1>4 DEF InterpreterTypes
<1>6. ASSUME Shape(b) PROVE Shape(b)'
  <2>1. Running' /\ recursion_depth' = Top'.depth
    BY <1>1, <1>3, <1>4 DEF Running, Top
  <2>2. frames'[1].depth = b + 1 /\ frames'[1].list = "function"
    BY <1>1, <1>3, <1>4, <1>6 DEF Shape
  <2>3. ASSUME NEW i \in 2..Len(frames')
        PROVE  frames'[i].depth
                 = frames'[i-1].depth + (IF frames'[i].list = "function" THEN 1 ELSE 0)
    <3>1. CASE i \in 2..Len(frames)
      BY <3>1, <1>3, <1>4, <1>6 DEF Shape
    <3>2. CASE i = n
      <4>1. frames'[i-1].depth = recursion_depth /\ recursion_depth \in Int
        BY <3>2, <1>1, <1>3, <1>4, <1>6 DEF Shape, Top, InterpreterTypes
      <4> QED
        BY <4>1, <3>2, <1>4
    <3> QED
      BY <3>1, <3>2, <1>3, <1>4, <2>3
  <2>4. \A i \in 1..Len(frames') : frames'[i].depth > b
    <3>1. recursion_depth = Top.depth /\ Top.depth > b
      BY <1>1, <1>3, <1>6 DEF Shape, Top
    <3> QED
      BY <1>3, <1>4, <1>6, <3>1 DEF Shape
  <2> QED
    BY <2>1, <2>2, <2>3, <2>4 DEF Shape
<1> QED
  BY <1>5, <1>6

LEMMA EndStatementKeeps ==
  ASSUME InterpreterTypes, NEW b \in Int, ~failed, EndStatement
  PROVE  InterpreterTypes' /\ (Shape(b) => Shape(b)')
<1> DEFINE n == Len(frames)
<1>1. Running /\ Top.todo # << >> /\ value \in Value
  BY DEF EndStatement, InterpreterTypes
<1>2. CASE Leave(value)
  BY <1>1, <1>2, LeaveKeeps
<1>3. CASE /\ frames' = [frames EXCEPT ![n].todo = Tail(@), ![n].last = value]
           /\ value' = NoValue
           /\ UNCHANGED <<recursion_depth, lambda_registry, failed>>
  <2>1. n \in Nat /\ n >= 1 /\ frames \in Seq(Frame) /\ n \in DOMAIN frames
    BY <1>1, TopIsFrame DEF InterpreterTypes
  <2>2. frames[n] \in Frame /\ frames[n].todo \in Seq(Statement) /\ frames[n].todo # << >>
    <3>1. frames[n] \in Frame
      BY <2>1
    <3>2. frames[n].todo # << >>
      BY <1>1 DEF Top
    <3> QED
      BY <3>1, <3>2 DEF Frame
  <2>3. Tail(frames[n].todo) \in Seq(Statement)
    BY <2>2
  <2> DEFINE g == [frames[n] EXCEPT !.todo = Tail(@), !.last = value]
  <2>4. g \in Frame /\ g.depth = frames[n].depth /\ g.list = frames[n].list
    BY <2>2, <2>3, <1>1 DEF Frame
  <2>5. frames' = [frames EXCEPT ![n] = g]
    BY <1>3, <2>1
  <2> HIDE DEF g
  <2>6. /\ frames' \in Seq(Frame) /\ Len(frames') = n
        /\ \A i \in 1..n : frames'[i].depth = frames[i].depth /\ frames'[i].list = frames[i].list
    BY <2>1, <2>4, <2>5
  <2>7. InterpreterTypes'
    <3>1. value' \in Value /\ ~failed'
      BY <1>3 DEF NoValue, Value
    <3> QED
      BY <1>3, <2>6, <3>1 DEF InterpreterTypes
  <2>8. ASSUME Shape(b) PROVE Shape(b)'
    <3>1. Running' /\ Top'.depth = Top.depth
      BY <2>1, <2>6 DEF Running, Top
    <3>2. \A i \in 2..n : i \in 1..n /\ i - 1 \in 1..n
      BY <2>1
    <3> QED
      BY <1>1, <1>3, <2>1, <2>6, <2>8, <3>1, <3>2 DEF Shape
  <2> QED
    BY <2>7, <2>8
<1> QED
  BY <1>2, <1>3 DEF EndStatement

(* Every step of the interpreter keeps its types, and its shape unless it    *)
(* fails.                                                                    *)
LEMMA InterpretKeeps ==
  ASSUME InterpreterTypes, NEW b \in Int, Interpret
  PROVE  InterpreterTypes' /\ (Shape(b) => Kept(b)')
<1>0. Running /\ ~failed
  BY DEF InterpreterTypes, Interpret, Compute, CallByName, BindLambda, TakeBranch, Raise,
         EndStatement, EndList, At
<1>1. Top \in Frame /\ (Top.todo # << >> => Current \in Statement)
  BY <1>0, TopIsFrame
<1>2. Top.argument \in Value /\ Top.last \in Value
  BY <1>1 DEF Frame
<1>3. CASE Compute
  <2>1. Current.label \in Label
    BY <1>1, <1>3, BodyAssumption DEF Compute, At
  <2> QED
    BY <1>0, <1>2, <1>3, <2>1, LabelledIsValue, YieldKeeps DEF Compute, Kept
<1>4. CASE CallByName
  <2>1. Current.local \in Label \cup {NoName}
    BY <1>1, <1>4, BodyAssumption DEF CallByName, At
  <2> QED
    BY <1>0, <1>2, <1>4, <2>1, EvaluateKeeps DEF CallByName
<1>5. CASE BindLambda
  <2>1. Current.label \in Label
    BY <1>1, <1>5, BodyAssumption DEF BindLambda, At
  <2>2. \A m \in DOMAIN lambda_registry' : lambda_registry'[m] \in Label
    BY <1>5, <2>1 DEF BindLambda, InterpreterTypes
  <2>3. value' \in Value
    BY <1>5, <2>1, OneIsSeq DEF BindLambda, Value
  <2> QED
    BY <1>0, <1>5, <2>2, <2>3 DEF BindLambda, InterpreterTypes, Shape, Kept, Running, Top
<1>6. CASE TakeBranch
  BY <1>0, <1>6, TakeBranchKeeps DEF Kept
<1>7. CASE Raise
  BY <1>7, AbandonTypes DEF Raise
<1>8. CASE EndStatement
  BY <1>0, <1>8, EndStatementKeeps DEF Kept
<1>9. CASE EndList
  BY <1>0, <1>2, <1>9, LeaveKeeps DEF EndList, Kept
<1> QED
  BY <1>3, <1>4, <1>5, <1>6, <1>7, <1>8, <1>9 DEF Interpret

-----------------------------------------------------------------------------
(* The resolver. A call in an argument is run for a function that exists.    *)
Callable == phase = "argument" => Of(next).callee \in Function

InPass == phase \in {"calls", "argument", "running"}

(* In a pass, what it has gone by waits for a name until some call succeeds; *)
(* and each pass that has ended with calls left has made one succeed.        *)
PassInv ==
  /\ InPass \/ phase = "pass" => iteration <= MaxIterations
  /\ InPass /\ ~progress =>
       /\ Cardinality(done \ failures) >= iteration - 1
       /\ \A k \in Pending : k < next => Blocked(k)
  /\ InPass /\ progress => Cardinality(done \ failures) >= iteration
  /\ phase = "pass" => Pending = {} \/ Cardinality(done \ failures) >= iteration
  /\ circular => phase = "over" /\ StuckIsReal

LEMMA DocumentTypes ==
  ASSUME TypeOK
  PROVE  /\ Len(document) \in Nat
         /\ \A i \in DOMAIN document : document[i].at \in Value
         /\ IsFiniteSet(Slots) /\ IsFiniteSet(Calls) /\ IsFiniteSet(done \ failures)
         /\ Cardinality(done \ failures) \in Nat
         /\ MaxIterations \in Nat
<1>1. /\ Len(document) \in Nat
      /\ \A i \in DOMAIN document : document[i].at \in Value
  <2> DEFINE P == [at : Location, kind : {"literal", "alias", "call"},
                   callee : STRING, reads : STRING, inner : STRING]
  <2>1. document \in Seq(P)
    BY DocumentAssumption DEF TypeOK
  <2>2. \A p \in P : p.at \in Value
    BY DEF Location
  <2> HIDE DEF P
  <2> QED
    BY <2>1, <2>2
<1>2. IsFiniteSet(Slots)
  BY <1>1, FS_Interval DEF Slots
<1>3. IsFiniteSet(Calls) /\ IsFiniteSet(done \ failures)
  BY <1>2, FS_Subset DEF Calls, TypeOK
<1>4. Cardinality(done \ failures) \in Nat /\ Cardinality(Calls) \in Nat
  BY <1>3, FS_CardinalityType
<1>5. MaxIterations \in Nat
  BY <1>4, DocumentAssumption DEF MaxIterations, MaxOf, MinOf
<1> QED
  BY <1>1, <1>2, <1>3, <1>4, <1>5

LEMMA SameDocument ==
  ASSUME document' = document
  PROVE  /\ Slots' = Slots /\ Calls' = Calls /\ MaxIterations' = MaxIterations
         /\ \A k : Of(k)' = Of(k) /\ HasInner(k)' = HasInner(k)
<1>1. Slots' = Slots
  BY DEF Slots
<1>2. Calls' = Calls
  BY <1>1 DEF Calls, Of, Property, IsInner
<1>3. MaxIterations' = MaxIterations
  BY <1>2 DEF MaxIterations
<1>4. \A k : Of(k)' = Of(k) /\ HasInner(k)' = HasInner(k)
  BY DEF Of, Property, HasInner, IsInner
<1> QED
  BY <1>1, <1>2, <1>3, <1>4

LEMMA ResolverKeepsTypes == TypeOK => InterpreterTypes
BY DEF TypeOK, InterpreterTypes

(* Slots are where the passes look.                                          *)
LEMMA NextIsSlot ==
  ASSUME TypeOK, next \in Slots
  PROVE  next + 1 \in Nat
BY DocumentTypes DEF Slots, TypeOK

LEMMA InitTypes == Init => TypeOK /\ Callable /\ DepthInv /\ PassInv
<1> SUFFICES ASSUME Init PROVE TypeOK /\ Callable /\ DepthInv /\ PassInv
  OBVIOUS
<1>1. ~Running /\ value = NoValue /\ value \in Value /\ frames \in Seq(Frame)
  BY DEF Init, InterpreterInit, Running, NoValue, Value
<1>2. \A i \in DOMAIN document : document[i].at \in Value
  <2> DEFINE P == [at : Location, kind : {"literal", "alias", "call"},
                   callee : STRING, reads : STRING, inner : STRING]
  <2>1. document \in Seq(P)
    BY DocumentAssumption DEF Init
  <2>2. \A p \in P : p.at \in Value
    BY DEF Location
  <2> HIDE DEF P
  <2> QED
    BY <2>1, <2>2
<1>3. \A l \in DOMAIN data_context : data_context[l] \in Value
  BY <1>2 DEF Init, Property
<1>4. TypeOK
  <2>1. \A n \in DOMAIN lambda_registry : lambda_registry[n] \in Label
    BY DEF Init, InterpreterInit
  <2>2. {done, failures} \subseteq SUBSET Slots /\ failures \subseteq done
    BY DEF Init
  <2>3. failed = FALSE /\ recursion_depth = 0
    BY DEF Init, InterpreterInit
  <2>4. /\ document \in Documents /\ next = 1 /\ progress = FALSE /\ iteration = 1
        /\ circular = FALSE /\ misled = FALSE /\ phase = "aliases"
    BY DEF Init
  <2>5. next \in Nat /\ iteration \in Nat /\ recursion_depth \in Int /\ phase \in Phases
    BY <2>3, <2>4 DEF Phases
  <2>7. {progress, circular, misled, failed} \subseteq BOOLEAN
    BY <2>3, <2>4
  <2>6. phase \notin {"argument", "running"} /\ ~failed
    BY <2>3, <2>4
  <2> QED
    BY <1>1, <1>3, <2>1, <2>2, <2>4, <2>5, <2>6, <2>7 DEF TypeOK
<1>5. Shape(0)
  BY <1>1 DEF Init, InterpreterInit, Shape
<1>6. Callable /\ PassInv
  BY DEF Init, Callable, PassInv, InPass
<1> QED
  BY <1>4, <1>5, <1>6 DEF DepthInv

(* The steps that start a call, and those that end one. What the resolver    *)
(* does with its own state is the same in each group.                        *)
LEMMA StartKeeps ==
  ASSUME TypeOK, DepthInv, next \in Pending, ~failed,
         NEW argument \in Value,
         \/ phase' = "running" /\ \E f \in Function : Execute(f, argument)
         \/ phase' = "argument" /\ \E name : Evaluate(name, NoName, argument),
         misled' \in BOOLEAN,
         UNCHANGED <<document, data_context, ast, done, failures, next, progress,
                     iteration, circular>>
  PROVE  TypeOK' /\ DepthInv'
<1>1. InterpreterTypes
  BY ResolverKeepsTypes
<1>2. InterpreterTypes' /\ (Shape(0) => Kept(0)')
  <2>1. CASE \E f \in Function : Execute(f, argument)
    BY <1>1, <2>1, ExecuteKeeps
  <2>2. CASE \E name : Evaluate(name, NoName, argument)
    BY <1>1, <2>2, EvaluateKeeps
  <2> QED
    BY <2>1, <2>2
<1>3. Slots' = Slots /\ Calls' = Calls /\ Pending' = Pending
  BY SameDocument DEF Pending
<1>4. phase' \in {"argument", "running"} /\ next' \in Pending'
  BY <1>3
<1>5. TypeOK'
  BY <1>2, <1>3, <1>4 DEF TypeOK, InterpreterTypes, Phases
<1>6. DepthInv'
  BY <1>2 DEF DepthInv, Kept
<1> QED
  BY <1>5, <1>6

LEMMA GiveUpKeeps ==
  ASSUME TypeOK, DepthInv, PassInv, InPass, next \in Pending, GiveUp,
         frames' = frames, value' = NoValue, failed' = FALSE, ~Running,
         misled' \in BOOLEAN,
         UNCHANGED <<recursion_depth, lambda_registry>>
  PROVE  TypeOK' /\ Callable' /\ DepthInv' /\ PassInv'
<1>1. /\ Slots' = Slots /\ Calls' = Calls /\ MaxIterations' = MaxIterations
      /\ \A k : Of(k)' = Of(k)
  BY SameDocument DEF GiveUp
<1>2. next \in Slots /\ next \notin done
  BY DEF Pending, Calls
<1>3. done' \ failures' = done \ failures /\ Pending' = Pending \ {next}
  BY <1>1, <1>2 DEF GiveUp, Pending, TypeOK
<1>4. next' \in Nat /\ failures' # {} /\ failures' \subseteq done' /\ done' \subseteq Slots
  BY <1>2, NextIsSlot DEF GiveUp, TypeOK
<1>5. ~Running'
  BY DEF Running
<1>6. value' \in Value
  BY DEF NoValue, Value
<1>7. TypeOK'
  BY <1>1, <1>4, <1>5, <1>6 DEF GiveUp, TypeOK, Phases
<1>8. Callable' /\ DepthInv'
  BY <1>4 DEF GiveUp, Callable, DepthInv
<1>9. PassInv'
  <2>1. \A k \in Pending' : k \in Nat /\ (k < next' => k < next)
    BY <1>2, <1>3, DocumentTypes DEF GiveUp, Pending, Calls, Slots, TypeOK
  <2>2. \A k : Blocked(k)' <=> Blocked(k)
    BY <1>1 DEF GiveUp, Blocked, Named
  <2>3. ~circular /\ ~circular'
    BY DEF PassInv, InPass, GiveUp
  <2>4. phase' = "calls" /\ InPass'
    BY DEF GiveUp, InPass
  <2> QED
    BY <1>1, <1>3, <2>1, <2>2, <2>3, <2>4 DEF GiveUp, PassInv
<1> QED
  BY <1>7, <1>8, <1>9

LEMMA SucceedKeeps ==
  ASSUME TypeOK, DepthInv, PassInv, Succeed
  PROVE  TypeOK' /\ Callable' /\ DepthInv' /\ PassInv'
<1>1. /\ Slots' = Slots /\ Calls' = Calls /\ MaxIterations' = MaxIterations
  BY SameDocument DEF Succeed
<1>2. next \in Pending /\ next \in Slots /\ next \notin done
  BY DEF Succeed, TypeOK, Pending, Calls
<1>3. value # NoValue /\ failed = FALSE /\ ~Running /\ ~Running'
  BY DEF Succeed, Returned, TypeOK, Running
<1>4. \A l \in DOMAIN data_context' : data_context'[l] \in Value
  BY DEF Succeed, TypeOK, With
<1>5. next' \in Nat /\ failures' \subseteq done' /\ {done', failures'} \subseteq SUBSET Slots
  BY <1>2, NextIsSlot DEF Succeed, TypeOK
<1>6. value' \in Value /\ value' = NoValue
  BY DEF Succeed, NoValue, Value
<1>7. TypeOK'
  BY <1>1, <1>3, <1>4, <1>5, <1>6 DEF Succeed, TypeOK, Phases
<1>8. Callable' /\ DepthInv'
  BY <1>3 DEF Succeed, Callable, DepthInv, Shape, Running
<1>9. PassInv'
  <2>1. done' \ failures' = (done \ failures) \cup {next} /\ next \notin done \ failures
    BY <1>2 DEF Succeed, TypeOK
  <2>2. Cardinality(done' \ failures') = Cardinality(done \ failures) + 1
    BY <2>1, DocumentTypes, FS_AddElement
  <2>3. InPass /\ ~circular
    BY DEF Succeed, InPass, PassInv
  <2>4. Cardinality(done \ failures) \in Nat /\ iteration \in Nat
    BY DocumentTypes DEF TypeOK
  <2>5. Cardinality(done \ failures) + 1 >= iteration
    BY <2>3, <2>4 DEF PassInv
  <2>6. phase' = "calls" /\ progress' /\ iteration' = iteration /\ circular' = circular
    BY DEF Succeed
  <2>7. iteration' <= MaxIterations'
    BY <1>1, <2>3, <2>6 DEF PassInv
  <2> QED
    BY <2>2, <2>3, <2>5, <2>6, <2>7 DEF PassInv
<1> QED
  BY <1>7, <1>8, <1>9

(* A step that is neither of a call nor of the interpreter.                  *)
LEMMA IdleKeeps ==
  ASSUME TypeOK, DepthInv, phase \notin {"argument", "running"},
         UNCHANGED <<document, done, failures, interpreterVars>>,
         \A l \in DOMAIN data_context' : data_context'[l] \in Value,
         next' \in Nat, progress' \in BOOLEAN, iteration' \in Nat, circular' \in BOOLEAN,
         misled' = misled, phase' \notin {"argument", "running"}, phase' \in Phases
  PROVE  TypeOK' /\ Callable' /\ DepthInv'
<1>1. Slots' = Slots /\ Calls' = Calls
  BY SameDocument
<1>2. ~Running /\ ~Running' /\ value = NoValue /\ ~failed
  BY DEF TypeOK, Running, interpreterVars
<1>3. TypeOK'
  BY <1>1, <1>2 DEF TypeOK, Phases, interpreterVars
<1>4. Callable' /\ DepthInv'
  BY <1>2 DEF Callable, DepthInv, Shape, Running, interpreterVars
<1> QED
  BY <1>3, <1>4

LEMMA AliasesKeep ==
  ASSUME TypeOK, DepthInv, PassInv, Aliases
  PROVE  TypeOK' /\ Callable' /\ DepthInv' /\ PassInv'
<1>1. phase = "aliases" /\ ~circular
  BY DEF Aliases, PassAlias, EndAliasPass, ResolveAlias, PassInv
<1>2. MaxIterations' = MaxIterations /\ MaxIterations \in Nat
  BY SameDocument, DocumentTypes DEF Aliases, PassAlias, EndAliasPass, ResolveAlias
<1>3. CASE PassAlias
  <2>1. TypeOK' /\ Callable' /\ DepthInv'
    BY <1>1, <1>3, IdleKeeps DEF PassAlias, TypeOK
  <2>2. PassInv'
    BY <1>1, <1>3 DEF PassAlias, PassInv, InPass
  <2> QED
    BY <2>1, <2>2
<1>4. CASE EndAliasPass
  <2>1. iteration' \in Nat /\ phase' \in {"aliases", "pass"}
    BY <1>1, <1>4 DEF EndAliasPass, TypeOK
  <2>2. TypeOK' /\ Callable' /\ DepthInv'
    BY <1>1, <1>4, <2>1, IdleKeeps DEF EndAliasPass, TypeOK, Phases
  <2>3. phase' = "pass" => iteration' = 0
    BY <1>1, <1>4 DEF EndAliasPass
  <2>4. Cardinality(done' \ failures') \in Nat
    BY <1>4, DocumentTypes DEF EndAliasPass
  <2>5. ~circular'
    BY <1>1, <1>4 DEF EndAliasPass
  <2>6. PassInv'
    BY <1>2, <2>1, <2>3, <2>4, <2>5 DEF PassInv, InPass
  <2> QED
    BY <2>2, <2>6
<1>5. CASE \E l \in DOMAIN data_context : ResolveAlias(l)
  <2>1. PICK l \in DOMAIN data_context : ResolveAlias(l)
    BY <1>5
  <2>2. \A m \in DOMAIN data_context' : data_context'[m] \in Value
    BY <2>1 DEF ResolveAlias, With, TypeOK
  <2>3. TypeOK' /\ Callable' /\ DepthInv'
    BY <1>1, <2>1, <2>2, IdleKeeps DEF ResolveAlias, TypeOK
  <2>4. PassInv'
    BY <1>1, <2>1 DEF ResolveAlias, PassInv, InPass
  <2> QED
    BY <2>3, <2>4
<1> QED
  BY <1>3, <1>4, <1>5 DEF Aliases

LEMMA PassesKeep ==
  ASSUME TypeOK, DepthInv, PassInv, StartPass \/ PassOver \/ EndPass
  PROVE  TypeOK' /\ Callable' /\ DepthInv' /\ PassInv'
<1>1. /\ ~circular /\ phase \in {"pass", "calls"}
      /\ Slots' = Slots /\ Calls' = Calls /\ MaxIterations' = MaxIterations
      /\ \A k : Of(k)' = Of(k)
  BY SameDocument DEF StartPass, PassOver, EndPass, PassInv
<1>2. /\ Cardinality(done \ failures) \in Nat /\ MaxIterations \in Nat
      /\ iteration \in Nat /\ iteration <= MaxIterations
  BY <1>1, DocumentTypes DEF TypeOK, PassInv, InPass
<1>3. /\ UNCHANGED <<document, done, failures, data_context, interpreterVars>>
      /\ Pending' = Pending /\ \A k : Blocked(k)' <=> Blocked(k)
  BY <1>1 DEF StartPass, PassOver, EndPass, Pending, Blocked, Named
<1>4. \A k \in Pending : k \in Nat /\ 1 <= k /\ k <= 2 * Len(document)
  BY DocumentTypes DEF Pending, Calls, Slots
<1>5. /\ \A l \in DOMAIN data_context' : data_context'[l] \in Value
      /\ phase \notin {"argument", "running"}
  BY <1>1, <1>3 DEF TypeOK
<1>6. CASE StartPass
  <2>1. /\ next' = 1 /\ progress' = FALSE
        /\ iteration' \in {iteration, iteration + 1} /\ circular' \in {circular, TRUE}
        /\ phase' \in {"over", "calls", "identifiers"} /\ misled' = misled
    BY <1>6 DEF StartPass
  <2>2. TypeOK' /\ Callable' /\ DepthInv'
    <3>1. next' \in Nat /\ iteration' \in Nat
      BY <1>2, <2>1
    <3>2. progress' \in BOOLEAN /\ circular' \in BOOLEAN
      BY <2>1 DEF TypeOK
    <3>3. phase' \notin {"argument", "running"} /\ phase' \in Phases
      BY <2>1 DEF Phases
    <3> QED
      BY <1>3, <2>1, <1>5, <3>1, <3>2, <3>3, IdleKeeps
  <2>3. CASE Pending = {}
    <3>1. phase' \in {"over", "identifiers"} /\ ~circular'
      BY <1>1, <1>6, <2>3 DEF StartPass
    <3> QED
      BY <2>2, <3>1 DEF PassInv, InPass
  <2>4. CASE Pending # {} /\ iteration >= MaxIterations
    <3>1. phase' = "over" /\ iteration' = iteration
      BY <1>6, <2>4 DEF StartPass
    <3>2. Cardinality(done \ failures) >= iteration
      BY <1>6, <2>4 DEF StartPass, PassInv
    <3>3. iteration' = MaxIterations' /\ Cardinality(done' \ failures') >= iteration'
      BY <1>1, <1>2, <1>3, <2>4, <3>1, <3>2
    <3>4. StuckIsReal'
      BY <3>3 DEF StuckIsReal
    <3> QED
      BY <2>2, <3>1, <3>4 DEF PassInv, InPass
  <2>5. CASE Pending # {} /\ ~(iteration >= MaxIterations)
    <3>1. phase' = "calls" /\ iteration' = iteration + 1 /\ circular' = circular
      BY <1>6, <2>5 DEF StartPass
    <3>2. Cardinality(done \ failures) >= iteration
      BY <1>6, <2>5 DEF StartPass, PassInv
    <3>3. iteration' <= MaxIterations' /\ Cardinality(done' \ failures') >= iteration' - 1
      BY <1>1, <1>2, <1>3, <2>5, <3>1, <3>2
    <3>4. \A k \in Pending' : ~(k < next')
      BY <1>3, <1>4, <2>1
    <3> QED
      BY <1>1, <2>1, <2>2, <3>1, <3>3, <3>4 DEF PassInv, InPass
  <2> QED
    BY <2>3, <2>4, <2>5
<1>7. CASE PassOver
  <2>1. /\ next' = next + 1 /\ phase' = phase /\ phase = "calls"
        /\ UNCHANGED <<progress, iteration, circular, misled>>
        /\ next \in Slots /\ (next \notin Pending \/ Blocked(next))
    BY <1>7 DEF PassOver
  <2>2. next' \in Nat
    BY <2>1, NextIsSlot
  <2>3. TypeOK' /\ Callable' /\ DepthInv'
    BY <1>3, <1>5, <2>1, <2>2, IdleKeeps DEF TypeOK, Phases
  <2>4. \A k \in Pending' : k < next' => k < next \/ k = next
    BY <1>3, <1>4, <2>1 DEF TypeOK
  <2>5. ~progress' => \A k \in Pending' : k < next' => Blocked(k)'
    BY <1>3, <2>1, <2>4 DEF PassInv, InPass
  <2>6. PassInv'
    BY <1>1, <1>3, <2>1, <2>5 DEF PassInv, InPass
  <2> QED
    BY <2>3, <2>6
<1>8. CASE EndPass
  <2>1. /\ phase = "calls" /\ next > 2 * Len(document)
        /\ phase' \in {"over", "pass"} /\ circular' \in {circular, TRUE}
        /\ UNCHANGED <<next, progress, iteration, misled>>
    BY <1>8 DEF EndPass
  <2>2. TypeOK' /\ Callable' /\ DepthInv'
    BY <1>3, <1>5, <2>1, IdleKeeps DEF TypeOK, Phases
  <2>3. ~progress => \A k \in Pending : Blocked(k)
    <3>1. \A k \in Pending : k < next
      BY <1>4, <2>1, DocumentTypes DEF TypeOK
    <3> QED
      BY <2>1, <3>1 DEF PassInv, InPass
  <2>4. CASE ~progress /\ Pending # {}
    <3>1. phase' = "over"
      BY <1>8, <2>4 DEF EndPass
    <3>2. \A k \in Pending' :
            Of(k)'.reads # NoName /\ Named(Of(k)'.reads, DOMAIN data_context') = {}
      BY <1>1, <1>3, <2>3, <2>4 DEF Blocked
    <3>3. StuckIsReal'
      BY <3>2 DEF StuckIsReal, Named
    <3> QED
      BY <2>2, <3>1, <3>3 DEF PassInv, InPass
  <2>5. CASE progress \/ Pending = {}
    <3>1. phase' = "pass" /\ ~circular'
      BY <1>1, <1>8, <2>5 DEF EndPass
    <3>2. Pending = {} \/ Cardinality(done \ failures) >= iteration
      BY <2>1, <2>5 DEF PassInv, InPass
    <3> QED
      BY <1>1, <1>2, <1>3, <2>1, <2>2, <3>1, <3>2 DEF PassInv, InPass
  <2> QED
    BY <2>4, <2>5
<1> QED
  BY <1>6, <1>7, <1>8

(* A step inside a call.                                                     *)
LEMMA SamePass ==
  ASSUME PassInv, InPass, phase' \in {"argument", "running"},
         UNCHANGED <<document, data_context, ast, done, failures, next, progress,
                     iteration, circular>>
  PROVE  PassInv'
<1>1. /\ MaxIterations' = MaxIterations /\ Pending' = Pending
      /\ \A k : Of(k)' = Of(k)
  BY SameDocument DEF Pending
<1>2. \A k : Blocked(k)' <=> Blocked(k)
  BY <1>1 DEF Blocked, Named
<1>3. ~circular' /\ InPass'
  BY DEF PassInv, InPass
<1> QED
  BY <1>1, <1>2, <1>3 DEF PassInv

LEMMA RefusalsKeep ==
  ASSUME TypeOK, DepthInv, PassInv, RefuseCall \/ MissInScope
  PROVE  TypeOK' /\ Callable' /\ DepthInv' /\ PassInv'
<1>1. /\ InPass /\ next \in Pending /\ GiveUp /\ UNCHANGED interpreterVars
      /\ misled' \in BOOLEAN
      /\ ~Running /\ value = NoValue /\ failed = FALSE
  BY DEF RefuseCall, MissInScope, Ready, InPass, TypeOK
<1> QED
  BY <1>1, GiveUpKeeps DEF interpreterVars

LEMMA RunKeeps ==
  ASSUME TypeOK, Callable, DepthInv, PassInv, Run
  PROVE  TypeOK' /\ Callable' /\ DepthInv' /\ PassInv'
<1>1. ASSUME NEW argument \in Value, Ready, Callee(next) \in Function, Begin(argument)
      PROVE  TypeOK' /\ Callable' /\ DepthInv' /\ PassInv'
  <2>1. /\ next \in Pending /\ ~failed /\ phase = "calls" /\ InPass
    BY <1>1 DEF Ready, TypeOK, InPass
  <2>2. /\ UNCHANGED <<document, data_context, ast, done, failures, next, progress,
                       iteration, circular>>
        /\ phase' \in {"argument", "running"} /\ misled' \in BOOLEAN
    BY <1>1 DEF Begin, Used, TypeOK
  <2>3. \/ phase' = "running" /\ \E f \in Function : Execute(f, argument)
        \/ phase' = "argument" /\ \E name : Evaluate(name, NoName, argument)
    BY <1>1 DEF Begin
  <2>4. TypeOK' /\ DepthInv'
    BY <2>1, <2>2, <2>3, StartKeeps
  <2>5. Callable'
    <3>1. CASE HasInner(next)
      BY <1>1, <2>2, <3>1, SameDocument DEF Callable, HasInner, Callee
    <3>2. CASE ~HasInner(next)
      BY <1>1, <3>2 DEF Callable, Begin
    <3> QED
      BY <3>1, <3>2
  <2>6. PassInv'
    BY <2>1, <2>2, SamePass
  <2> QED
    BY <2>4, <2>5, <2>6
<1>2. CASE CallWithLiteral
  <2>1. <<"literal">> \in Value
    BY BodyAssumption, OneIsSeq DEF Value
  <2> QED
    BY <1>1, <1>2, <2>1 DEF CallWithLiteral
<1>3. CASE \E l \in DOMAIN data_context : CallWithName(l)
  <2>1. PICK l \in DOMAIN data_context : CallWithName(l)
    BY <1>3
  <2>2. data_context[l] \in Value
    BY <2>1 DEF TypeOK
  <2> QED
    BY <1>1, <2>1, <2>2 DEF CallWithName
<1>4. CASE CallWithResult
  <2>1. /\ phase = "argument" /\ phase' = "running" /\ next \in Pending /\ ~failed
        /\ Of(next).callee \in Function /\ value \in Value /\ InPass
        /\ Execute(Of(next).callee, value) /\ misled' \in BOOLEAN
        /\ UNCHANGED <<document, data_context, ast, done, failures, next, progress,
                       iteration, circular>>
    BY <1>4 DEF CallWithResult, Returned, TypeOK, Callable, InPass
  <2>2. TypeOK' /\ DepthInv'
    BY <2>1, StartKeeps
  <2>3. Callable' /\ PassInv'
    BY <2>1, SamePass DEF Callable
  <2> QED
    BY <2>2, <2>3
<1>5. CASE Work
  <2>1. /\ InPass /\ phase \in {"argument", "running"}
        /\ UNCHANGED <<document, data_context, ast, done, failures, next, progress,
                       iteration, circular, phase, misled>>
    BY <1>5 DEF Work, InPass, resolverVars
  <2>2. InterpreterTypes' /\ (Shape(0) => Kept(0)')
    BY <1>5, ResolverKeepsTypes, InterpretKeeps DEF Work
  <2>3. Slots' = Slots /\ Pending' = Pending
    BY <2>1, SameDocument DEF Pending
  <2>4. TypeOK'
    BY <2>1, <2>2, <2>3 DEF TypeOK, InterpreterTypes
  <2>5. ~failed
    BY <1>5 DEF Work, Interpret, Compute, CallByName, BindLambda, TakeBranch, Raise,
         EndStatement, EndList, At, TypeOK
  <2>6. DepthInv'
    BY <2>1, <2>2, <2>5 DEF DepthInv, Kept
  <2>7. Callable' /\ PassInv'
    BY <2>1, SamePass, SameDocument DEF Callable
  <2> QED
    BY <2>4, <2>6, <2>7
<1>6. CASE Succeed
  BY <1>6, SucceedKeeps
<1>7. CASE Fail
  <2>1. /\ InPass /\ next \in Pending /\ GiveUp /\ failed' = FALSE /\ misled' \in BOOLEAN
        /\ ~Running /\ value = NoValue
        /\ UNCHANGED <<recursion_depth, lambda_registry, frames, value>>
    BY <1>7 DEF Fail, InPass, TypeOK
  <2> QED
    BY <2>1, GiveUpKeeps
<1> QED
  BY <1>2, <1>3, <1>4, <1>5, <1>6, <1>7 DEF Run

(* What takes the place of a name is the value of a location.                *)
LEMMA NamesKeep ==
  ASSUME TypeOK, DepthInv, PassInv, ReplaceNames
  PROVE  TypeOK' /\ Callable' /\ DepthInv' /\ PassInv'
<1>1. /\ phase = "identifiers" /\ ~circular /\ phase' \in {"identifiers", "over"}
      /\ UNCHANGED <<document, done, failures, next, progress, iteration, circular,
                     misled, interpreterVars>>
  BY DEF ReplaceNames, PassInv
<1>2. \A l \in DOMAIN data_context' : data_context'[l] \in Value
  <2> DEFINE chosen(l) == CHOOSE i \in Replaceable : Property(i).at = l
             found     == [l \in {Property(i).at : i \in Replaceable} |->
                             data_context[Bare(Property(chosen(l)).reads)]]
  <2>1. \A l \in DOMAIN found : found[l] \in Value
    <3> SUFFICES ASSUME NEW l \in {Property(i).at : i \in Replaceable}
                 PROVE  data_context[Bare(Property(chosen(l)).reads)] \in Value
      OBVIOUS
    <3>1. chosen(l) \in Replaceable
      OBVIOUS
    <3> QED
      BY <3>1 DEF Replaceable, TypeOK
  <2>2. \/ data_context' = data_context
        \/ data_context' = [l \in DOMAIN data_context \cup DOMAIN found |->
                               IF l \in DOMAIN found THEN found[l] ELSE data_context[l]]
    BY DEF ReplaceNames
  <2> HIDE DEF found
  <2> QED
    BY <2>1, <2>2 DEF TypeOK
<1>3. TypeOK' /\ Callable' /\ DepthInv'
  BY <1>1, <1>2, IdleKeeps DEF TypeOK, Phases
<1>4. PassInv'
  BY <1>1 DEF PassInv, InPass
<1> QED
  BY <1>3, <1>4

-----------------------------------------------------------------------------
(* Every reachable state is well typed: what a name is looked up in, what a  *)
(* call returns and what is left running between two calls.                  *)
IInv == TypeOK /\ Callable /\ DepthInv /\ PassInv

LEMMA Inductive == IInv /\ [Next]_vars => IInv'
<1> SUFFICES ASSUME IInv, [Next]_vars PROVE IInv'
  OBVIOUS
<1> USE DEF IInv
<1>1. CASE Aliases
  BY <1>1, AliasesKeep
<1>2. CASE StartPass \/ PassOver \/ EndPass
  BY <1>2, PassesKeep
<1>3. CASE RefuseCall \/ MissInScope
  BY <1>3, RefusalsKeep
<1>4. CASE Run
  BY <1>4, RunKeeps
<1>6. CASE ReplaceNames
  BY <1>6, NamesKeep
<1>5. CASE UNCHANGED vars
  <2>1. UNCHANGED <<document, data_context, ast, done, failures, next, progress, iteration,
                    circular, phase, misled, recursion_depth, lambda_registry, frames, value, failed>>
    BY <1>5 DEF vars, resolverVars, interpreterVars
  <2>2. Slots' = Slots /\ Pending' = Pending /\ MaxIterations' = MaxIterations
        /\ \A k : Of(k)' = Of(k)
    BY <2>1, SameDocument DEF Pending
  <2>3. TypeOK'
    BY <2>1, <2>2 DEF TypeOK, Running
  <2>4. Callable' /\ DepthInv'
    BY <2>1, <2>2 DEF Callable, DepthInv, Shape, Running, Top
  <2>5. PassInv'
    BY <2>1, <2>2 DEF PassInv, InPass, StuckIsReal, Blocked, Named
  <2> QED
    BY <2>3, <2>4, <2>5
<1> QED
  BY <1>1, <1>2, <1>3, <1>4, <1>5, <1>6 DEF Next

LEMMA Invariance == Spec => []IInv
<1>1. Init => IInv
  BY InitTypes DEF IInv
<1> QED
  BY <1>1, Inductive, PTL DEF Spec

THEOREM TypeCorrect == Spec => []TypeOK
<1>1. IInv => TypeOK
  BY DEF IInv
<1> QED
  BY <1>1, Invariance, PTL

(* However calls nest, branch and return, as long as none has failed the     *)
(* next call finds the depth at zero.                                        *)
THEOREM DepthComesBack == Spec => []DepthReturns
<1>1. IInv => DepthReturns
  BY DEF IInv, DepthInv, Shape, DepthReturns
<1> QED
  BY <1>1, Invariance, PTL

(* A circular dependency is reported only of calls that all wait for names   *)
(* that nothing has, or after a pass limit that calls that succeeded used up. *)
THEOREM StuckIsAlwaysReal == Spec => []StuckIsReal
<1>1. IInv => StuckIsReal
  BY DEF IInv, PassInv, StuckIsReal
<1> QED
  BY <1>1, Invariance, PTL

-----------------------------------------------------------------------------
(* What has a value, and where it came from.                                 *)
HasValue(i) == Property(i).at \in DOMAIN data_context

(* Only properties have values, literals from the start and calls from the   *)
(* call itself or from the one in its argument.                              *)
ValueInv ==
  /\ DOMAIN data_context \subseteq Locations
  /\ done \subseteq Calls
  /\ \A i \in DOMAIN document :
       /\ Property(i).kind = "literal" => HasValue(i)
       /\ Property(i).kind = "call" =>
            (HasValue(i) <=> {2 * i - 1, 2 * i} \cap (done \ failures) # {})

(* A call is over before the one in its argument is run on its own: both     *)
(* wait for the same name. So no call has a value before it is over.         *)
OuterFirst == \A i \in DOMAIN document : 2 * i \in done => 2 * i - 1 \in done

OuterInv ==
  /\ InPass => \A i \in DOMAIN document :
                 next = 2 * i /\ 2 * i - 1 \in Pending => Blocked(2 * i - 1)
  /\ phase \in {"argument", "running"} => ~Blocked(next)

(* The location that was read keeps its value, and the AST shows it.         *)
ReadInv ==
  /\ \A i \in DOMAIN document :
       Property(i).kind = "call" /\ Property(i).inner = NoName /\ HasValue(i) =>
         Property(i).at \in DOMAIN ast /\ ast[Property(i).at] = data_context[Property(i).at]
  /\ \A k \in DOMAIN reads :
       /\ reads[k].from \in DOMAIN data_context
       /\ \A i \in DOMAIN document :
            Property(i).at = reads[k].from /\ Property(i).inner = NoName =>
              data_context[reads[k].from] = reads[k].value

(* An alias has the value of a literal that it leads to, and shows nothing.  *)
ShowInv ==
  \A i \in DOMAIN document : Property(i).kind # "call" =>
    /\ Property(i).at \notin DOMAIN ast
    /\ HasValue(i) =>
         \E j \in DOMAIN document :
           /\ Property(j).kind = "literal" /\ LeadsTo(i, j)
           /\ data_context[Property(i).at] = Property(j).at

Resolved(i) ==
  \/ Property(i).kind = "alias" /\ HasValue(i)
  \/ Property(i).kind = "call" /\ 2 * i - 1 \in done \ failures

(* No set of properties has its values from each other only.                 *)
GroundInv ==
  \A R \in SUBSET DOMAIN document : R # {} /\ (\A i \in R : Resolved(i)) =>
    \E j \in R :
      \/ Property(j).reads = NoName
      \/ \E s \in Source(j) \ R :
           HasValue(s) /\ (Property(j).kind = "alias" => Property(s).kind # "call")

Known == {i \in AliasProperties : HasValue(i)}

(* Each alias pass but the last makes an alias known; when they are over,    *)
(* nothing but a call can still give an alias a value, unless they were too  *)
(* few.                                                                      *)
AliasInv ==
  /\ phase = "aliases" =>
       /\ next >= 1 /\ done = {}
       /\ Cardinality(Known) >= iteration - (IF progress THEN 0 ELSE 1)
       /\ ~progress => \A i \in AliasProperties \ Known :
                         i < next => \A j \in Source(i) : ~HasValue(j)
  /\ phase # "aliases" /\ Cardinality(AliasProperties) <= MaxAliasPasses =>
       \A i \in AliasProperties \ Known :
         \A j \in Source(i) : Property(j).kind = "call" \/ ~HasValue(j)

EndInv == phase \in {"identifiers", "over"} => circular \/ Pending = {}

(* What has happened to the data, and where the passes are.                  *)
DataInv    == ValueInv /\ OuterFirst /\ ReadInv /\ ShowInv /\ GroundInv
ControlInv == OuterInv /\ AliasInv /\ EndInv

(* Slots come in pairs, the call of a property and the one in its argument.  *)
LEMMA SlotFacts ==
  ASSUME TypeOK
  PROVE  /\ \A i \in DOMAIN document :
              /\ i \in Nat /\ i >= 1 /\ 2 * i - 1 \in Slots /\ 2 * i \in Slots
              /\ Of(2 * i - 1) = Property(i) /\ ~IsInner(2 * i - 1)
              /\ Of(2 * i) = Property(i) /\ IsInner(2 * i)
         /\ \A k \in Slots : \E i \in DOMAIN document :
              k = 2 * i - 1 \/ k = 2 * i
         /\ \A i, j \in DOMAIN document : 2 * i # 2 * j - 1
<1> DEFINE n == Len(document)
<1>1. n \in Nat /\ DOMAIN document = 1..n /\ Slots = 1..(2 * n)
  BY DocumentTypes, DocumentAssumption DEF TypeOK, Slots
<1>2. \A i \in 1..n :
        /\ i \in Nat /\ i >= 1 /\ 2 * i - 1 \in 1..(2 * n) /\ 2 * i \in 1..(2 * n)
        /\ (2 * i - 1 + 1) \div 2 = i /\ (2 * i - 1) % 2 # 0
        /\ (2 * i + 1) \div 2 = i /\ (2 * i) % 2 = 0
  BY <1>1
<1>3. \A k \in 1..(2 * n) : (k + 1) \div 2 \in 1..n
        /\ (k = 2 * ((k + 1) \div 2) - 1 \/ k = 2 * ((k + 1) \div 2))
  BY <1>1
<1> HIDE DEF n
<1>4. \A i, j \in 1..n : 2 * i # 2 * j - 1
  BY <1>1
<1> QED
  BY <1>1, <1>2, <1>3, <1>4 DEF Of, IsInner

LEMMA DocumentFacts ==
  ASSUME TypeOK
  PROVE  /\ \A i, j \in DOMAIN document : Property(i).at = Property(j).at => i = j
         /\ \A i \in DOMAIN document :
              /\ Property(i).kind \in {"literal", "alias", "call"}
              /\ Property(i).kind = "literal" => Property(i).reads = NoName
              /\ Property(i).kind = "alias" => Property(i).reads # NoName
              /\ Property(i).kind # "call" => Property(i).inner = NoName
              /\ Property(i).at \in Location
         /\ IsFiniteSet(DOMAIN document)
         /\ Len(document) \in Nat /\ DOMAIN document = 1..Len(document)
<1> DEFINE P == [at : Location, kind : {"literal", "alias", "call"},
                 callee : STRING, reads : STRING, inner : STRING]
<1>1. document \in Seq(P) /\ document \in Documents
  BY DocumentAssumption DEF TypeOK
<1>2. \A p \in P : p.kind \in {"literal", "alias", "call"} /\ p.at \in Location
  OBVIOUS
<1> HIDE DEF P
<1>3. Len(document) \in Nat /\ DOMAIN document = 1..Len(document)
      /\ \A i \in DOMAIN document : document[i] \in P
  BY <1>1
<1>4. IsFiniteSet(DOMAIN document)
  BY <1>3, FS_Interval
<1> QED
  BY <1>1, <1>2, <1>3, <1>4, DocumentAssumption DEF Property

(* Which slots are calls.                                                    *)
LEMMA CallFacts ==
  ASSUME TypeOK, NEW i \in DOMAIN document
  PROVE  /\ 2 * i - 1 \in Calls <=> Property(i).kind = "call"
         /\ 2 * i \in Calls <=> Property(i).kind = "call" /\ Property(i).inner # NoName
BY SlotFacts DEF Calls

LEMMA SameProperties ==
  ASSUME document' = document
  PROVE  /\ \A i : Property(i)' = Property(i) /\ Source(i)' = Source(i)
         /\ Locations' = Locations /\ AliasProperties' = AliasProperties
         /\ \A i, j : LeadsTo(i, j)' <=> LeadsTo(i, j)
<1>1. \A i : Property(i)' = Property(i)
  BY DEF Property
<1>2. /\ \A i : Source(i)' = Source(i)
      /\ Locations' = Locations /\ AliasProperties' = AliasProperties
  BY <1>1 DEF Source, Locations, AliasProperties
<1>3. \A i, j : LeadsTo(i, j)' <=> LeadsTo(i, j)
  BY <1>2 DEF LeadsTo
<1> QED
  BY <1>1, <1>2, <1>3

LEMMA LeadsToItself == \A i : LeadsTo(i, i)
BY DEF LeadsTo

LEMMA LeadsOn ==
  ASSUME NEW i \in AliasProperties, NEW s \in Source(i), NEW j, LeadsTo(s, j)
  PROVE  LeadsTo(i, j)
BY DEF LeadsTo

LEMMA InitData == Init /\ TypeOK => DataInv /\ ControlInv
<1> SUFFICES ASSUME Init, TypeOK PROVE DataInv /\ ControlInv
  OBVIOUS
<1> DEFINE L == {Property(i).at : i \in {j \in DOMAIN document : Property(j).kind = "literal"}}
<1>1. /\ data_context = [l \in L |-> l]
      /\ ast = << >> /\ reads = << >> /\ done = {} /\ failures = {}
      /\ next = 1 /\ progress = FALSE /\ iteration = 1 /\ phase = "aliases"
  BY DEF Init
<1>2. \A i \in DOMAIN document : HasValue(i) <=> Property(i).kind = "literal"
  BY <1>1, DocumentFacts DEF HasValue
<1>3. ValueInv
  BY <1>1, <1>2 DEF ValueInv, Locations
<1>4. DOMAIN reads = {}
  BY <1>1
<1>5. OuterFirst /\ ReadInv
  BY <1>1, <1>2, <1>4 DEF OuterFirst, ReadInv
<1>11. ShowInv
  <2> SUFFICES ASSUME NEW i \in DOMAIN document, Property(i).kind # "call"
               PROVE  /\ Property(i).at \notin DOMAIN ast
                      /\ HasValue(i) =>
                           /\ Property(i).kind = "literal" /\ LeadsTo(i, i)
                           /\ data_context[Property(i).at] = Property(i).at
    BY DEF ShowInv
  <2> QED
    BY <1>1, <1>2, LeadsToItself DEF HasValue
<1>6. \A i \in DOMAIN document : ~Resolved(i)
  BY <1>1, <1>2 DEF Resolved
<1>7. GroundInv
  BY <1>6 DEF GroundInv
<1>8. Known = {} /\ Cardinality(Known) = 0
  BY <1>2, FS_EmptySet DEF Known, AliasProperties
<1>9. \A i \in AliasProperties : ~(i < next)
  BY <1>1, SlotFacts DEF AliasProperties
<1>10. ControlInv
  BY <1>1, <1>8, <1>9 DEF ControlInv, OuterInv, AliasInv, EndInv, InPass
<1> QED
  BY <1>3, <1>5, <1>7, <1>10, <1>11 DEF DataInv

(* A step that changes no data, or records what is read.                     *)
LEMMA DataStays ==
  ASSUME DataInv,
         UNCHANGED <<document, data_context, ast, done, failures>>,
         \/ UNCHANGED reads
         \/ \E l \in DOMAIN data_context :
              reads' = With(reads, next, [from |-> l, value |-> data_context[l]])
  PROVE  DataInv'
<1>1. /\ \A i : Property(i)' = Property(i) /\ Source(i)' = Source(i)
      /\ Locations' = Locations /\ Calls' = Calls
      /\ \A i, j : LeadsTo(i, j)' <=> LeadsTo(i, j)
  BY SameProperties, SameDocument
<1>2. \A i : (HasValue(i)' <=> HasValue(i)) /\ (Resolved(i)' <=> Resolved(i))
  BY <1>1 DEF HasValue, Resolved
<1>3. ValueInv' /\ OuterFirst'
  BY <1>1, <1>2 DEF DataInv, ValueInv, OuterFirst
<1>4. GroundInv'
  BY <1>1, <1>2 DEF DataInv, GroundInv
<1>5. \A k \in DOMAIN reads' :
        \/ k \in DOMAIN reads /\ reads'[k] = reads[k]
        \/ reads'[k].from \in DOMAIN data_context /\ reads'[k].value = data_context[reads'[k].from]
  BY DEF With
<1>6. ReadInv'
  BY <1>1, <1>2, <1>5 DEF DataInv, ReadInv
<1>7. ShowInv'
  BY <1>1, <1>2 DEF DataInv, ShowInv
<1> QED
  BY <1>3, <1>4, <1>6, <1>7 DEF DataInv

(* A property that gets its value from one that had it makes no circle.      *)
LEMMA GroundGrows ==
  ASSUME GroundInv, document' = document, NEW i \in DOMAIN document, ~HasValue(i),
         \A j \in DOMAIN document : /\ HasValue(j) => HasValue(j)'
                                    /\ Resolved(j)' => Resolved(j) \/ j = i,
         \/ Property(i).reads = NoName
         \/ \E s \in Source(i) :
              HasValue(s) /\ (Property(i).kind = "alias" => Property(s).kind # "call")
  PROVE  GroundInv'
<1>1. \A j : Property(j)' = Property(j) /\ Source(j)' = Source(j)
  BY SameProperties
<1>2. SUFFICES ASSUME NEW R \in SUBSET DOMAIN document, R # {}, \A j \in R : Resolved(j)'
               PROVE  \E j \in R :
                        \/ Property(j).reads = NoName
                        \/ \E s \in Source(j) \ R :
                             HasValue(s) /\ (Property(j).kind = "alias" => Property(s).kind # "call")
  BY <1>1 DEF GroundInv, Source
<1> DEFINE Rest == R \ {i}
<1>3. CASE Rest # {}
  <2>1. Rest \in SUBSET DOMAIN document /\ \A j \in Rest : Resolved(j)
    BY <1>2
  <2> HIDE DEF Rest
  <2>2. PICK j \in Rest : \/ Property(j).reads = NoName
                          \/ \E s \in Source(j) \ Rest :
                               HasValue(s) /\ (Property(j).kind = "alias" => Property(s).kind # "call")
    BY <1>3, <2>1 DEF GroundInv
  <2> USE DEF Rest
  <2>3. j \in R
    BY <2>2
  <2>4. \A s : s \notin Rest /\ HasValue(s) => s \notin R
    OBVIOUS
  <2> QED
    BY <2>2, <2>3, <2>4
<1>4. CASE Rest = {}
  <2>1. R = {i}
    BY <1>2, <1>4
  <2> QED
    BY <2>1
<1> QED
  BY <1>3, <1>4

LEMMA AliasData ==
  ASSUME TypeOK, DataInv, next >= 1, done = {}, NEW l \in DOMAIN data_context, ResolveAlias(l)
  PROVE  /\ DataInv' /\ AliasProperties' = AliasProperties
         /\ Known' = Known \cup {next} /\ next \in AliasProperties \ Known
<1> DEFINE n == next
<1>1. /\ n \in DOMAIN document /\ Property(n).kind = "alias" /\ ~HasValue(n)
      /\ l[2] = Property(n).reads
      /\ data_context' = With(data_context, Property(n).at, data_context[l])
      /\ UNCHANGED <<document, ast, done, failures, reads>>
  <2>1. n \in DOMAIN document
    BY DocumentTypes, DocumentAssumption DEF ResolveAlias, TypeOK
  <2>2. Property(n).kind = "alias" /\ ~HasValue(n)
    BY DEF ResolveAlias, IsOpenAlias, HasValue
  <2> QED
    BY <2>1, <2>2 DEF ResolveAlias, Named
<1> HIDE DEF n
<1>2. /\ \A i : Property(i)' = Property(i) /\ Source(i)' = Source(i)
      /\ Locations' = Locations /\ Calls' = Calls /\ AliasProperties' = AliasProperties
      /\ \A i, j : LeadsTo(i, j)' <=> LeadsTo(i, j)
  BY <1>1, SameProperties, SameDocument
<1>3. /\ DOMAIN data_context' = DOMAIN data_context \cup {Property(n).at}
      /\ \A m \in DOMAIN data_context : data_context'[m] = data_context[m]
  BY <1>1 DEF With, HasValue
<1>4. \A i \in DOMAIN document : HasValue(i)' <=> HasValue(i) \/ i = n
  BY <1>1, <1>2, <1>3, DocumentFacts DEF HasValue
<1>5. ValueInv' /\ OuterFirst'
  BY <1>1, <1>2, <1>3, <1>4 DEF DataInv, ValueInv, OuterFirst, Locations
<1>6. ReadInv'
  BY <1>1, <1>2, <1>3, <1>4 DEF DataInv, ReadInv, HasValue
<1>7. \A i \in DOMAIN document : Resolved(i)' => Resolved(i) \/ i = n
  BY <1>1, <1>2, <1>4 DEF Resolved
<1>8. PICK s \in DOMAIN document : Property(s).at = l
  BY <1>1 DEF DataInv, ValueInv, Locations
<1>9. s \in Source(n) /\ HasValue(s) /\ Property(s).kind # "call"
  BY <1>1, <1>8 DEF Source, HasValue, DataInv, ValueInv
<1>10. GroundInv'
  BY <1>1, <1>4, <1>7, <1>9, GroundGrows DEF DataInv
<1>12. ShowInv'
  <2>1. PICK j \in DOMAIN document :
          Property(j).kind = "literal" /\ LeadsTo(s, j) /\ data_context[l] = Property(j).at
    BY <1>8, <1>9 DEF DataInv, ShowInv
  <2>2. LeadsTo(n, j)
    BY <1>1, <1>9, <2>1, LeadsOn DEF AliasProperties
  <2>3. data_context'[Property(n).at] = Property(j).at
    BY <1>1, <2>1 DEF With
  <2>4. \A i \in DOMAIN document : HasValue(i)' =>
          \/ HasValue(i) /\ data_context'[Property(i).at] = data_context[Property(i).at]
          \/ i = n
    BY <1>3, <1>4 DEF HasValue
  <2> QED
    BY <1>1, <1>2, <2>1, <2>2, <2>3, <2>4 DEF DataInv, ShowInv
<1>11. Known' = Known \cup {n} /\ n \in AliasProperties \ Known
  BY <1>1, <1>2, <1>4 DEF Known, AliasProperties
<1> QED
  BY <1>2, <1>5, <1>6, <1>10, <1>11, <1>12 DEF DataInv, n

(* A call in an argument is never run before the call around it is over.     *)
LEMMA OuterIsOver ==
  ASSUME TypeOK, OuterInv, InPass, next \in Pending, ~Blocked(next),
         NEW i \in DOMAIN document, next = 2 * i
  PROVE  2 * i - 1 \in done
<1>1. Property(i).kind = "call"
  BY CallFacts DEF Pending
<1>2. 2 * i - 1 \in Calls
  BY <1>1, CallFacts
<1>3. Of(2 * i - 1) = Of(next)
  BY SlotFacts
<1>4. ~Blocked(2 * i - 1)
  BY <1>3 DEF Blocked
<1> QED
  BY <1>2, <1>4 DEF OuterInv, Pending

LEMMA GiveUpData ==
  ASSUME TypeOK, DataInv, OuterInv, InPass, next \in Pending, ~Blocked(next), GiveUp
  PROVE  DataInv'
<1>1. /\ UNCHANGED <<document, data_context, ast, reads>>
      /\ done' = done \cup {next} /\ failures' = failures \cup {next}
  BY DEF GiveUp
<1>2. /\ \A i : Property(i)' = Property(i) /\ Source(i)' = Source(i)
      /\ Locations' = Locations /\ Calls' = Calls
      /\ \A i, j : LeadsTo(i, j)' <=> LeadsTo(i, j)
  BY <1>1, SameProperties, SameDocument
<1>3. done' \ failures' = done \ failures /\ done' \subseteq Calls
  BY <1>1 DEF Pending, TypeOK, DataInv, ValueInv
<1>4. \A i : (HasValue(i)' <=> HasValue(i)) /\ (Resolved(i)' <=> Resolved(i))
  BY <1>1, <1>2, <1>3 DEF HasValue, Resolved
<1>5. ValueInv' /\ ReadInv' /\ ShowInv' /\ GroundInv'
  BY <1>1, <1>2, <1>3, <1>4 DEF DataInv, ValueInv, ReadInv, ShowInv, GroundInv
<1>6. OuterFirst'
  BY <1>1, <1>2, OuterIsOver DEF DataInv, OuterFirst
<1> QED
  BY <1>5, <1>6 DEF DataInv

LEMMA SucceedData ==
  ASSUME TypeOK, DataInv, OuterInv, Succeed
  PROVE  DataInv'
<1>1. next \in Pending /\ ~Blocked(next) /\ InPass
  BY DEF Succeed, TypeOK, OuterInv, InPass
<1>2. next \in Slots /\ next \in Calls /\ next \notin done
  BY <1>1 DEF Pending, Calls
<1>3. PICK i \in DOMAIN document : next = 2 * i - 1 \/ next = 2 * i
  BY <1>2, SlotFacts
<1>4. Of(next) = Property(i) /\ Property(i).kind = "call"
  BY <1>2, <1>3, SlotFacts, CallFacts
<1> DEFINE at == Property(i).at
<1>5. /\ UNCHANGED <<document, failures, reads>>
      /\ data_context' = With(data_context, at, value)
      /\ ast' = IF IsInner(next) THEN ast ELSE With(ast, at, value)
      /\ done' = done \cup {next}
  BY <1>4 DEF Succeed
<1>6. /\ \A j : Property(j)' = Property(j) /\ Source(j)' = Source(j)
      /\ Locations' = Locations /\ Calls' = Calls
      /\ \A j, m : LeadsTo(j, m)' <=> LeadsTo(j, m)
  BY <1>5, SameProperties, SameDocument
<1>7. /\ DOMAIN data_context' = DOMAIN data_context \cup {at}
      /\ data_context'[at] = value
      /\ \A m \in DOMAIN data_context : m # at => data_context'[m] = data_context[m]
  BY <1>5 DEF With
<1>8. /\ done' \ failures' = (done \ failures) \cup {next} /\ next \notin failures
      /\ done' \subseteq Calls
  BY <1>2, <1>5 DEF TypeOK, DataInv, ValueInv
<1> HIDE DEF at
<1>9. \A j \in DOMAIN document : /\ HasValue(j)' <=> HasValue(j) \/ j = i
                                 /\ Property(j).at = at <=> j = i
  BY <1>5, <1>6, <1>7, DocumentFacts DEF HasValue, at
<1>10. \A j \in DOMAIN document : next \in {2 * j - 1, 2 * j} <=> j = i
  BY <1>3, SlotFacts
<1>11. ValueInv'
  <2>1. DOMAIN data_context' \subseteq Locations
    BY <1>7 DEF DataInv, ValueInv, Locations, at
  <2>2. ASSUME NEW j \in DOMAIN document, Property(j).kind = "call"
        PROVE  HasValue(j)' <=> {2 * j - 1, 2 * j} \cap (done' \ failures') # {}
    BY <1>8, <1>9, <1>10, <2>2 DEF DataInv, ValueInv
  <2> QED
    BY <1>5, <1>6, <1>8, <1>9, <2>1, <2>2 DEF DataInv, ValueInv
<1>12. OuterFirst'
  BY <1>1, <1>5, OuterIsOver DEF DataInv, OuterFirst
<1>13. ReadInv'
  <2>1. ASSUME Property(i).inner = NoName
        PROVE  next = 2 * i - 1 /\ ~IsInner(next) /\ ~HasValue(i)
    <3>1. 2 * i \notin Calls
      BY <2>1, CallFacts
    <3>2. next = 2 * i - 1 /\ ~IsInner(next)
      BY <1>2, <1>3, <3>1, SlotFacts
    <3>3. 2 * i \notin done /\ 2 * i - 1 \notin done
      BY <1>2, <3>1, <3>2 DEF DataInv, ValueInv
    <3> QED
      BY <1>4, <3>2, <3>3 DEF DataInv, ValueInv
  <2>2. ASSUME NEW j \in DOMAIN document,
               Property(j).kind = "call", Property(j).inner = NoName, HasValue(j)'
        PROVE  /\ Property(j).at \in DOMAIN ast'
               /\ ast'[Property(j).at] = data_context'[Property(j).at]
    <3>1. CASE j = i
      BY <1>5, <1>7, <2>1, <2>2, <3>1 DEF With, at
    <3>2. CASE j # i
      <4>1. Property(j).at # at /\ HasValue(j)
        BY <1>9, <2>2, <3>2
      <4>2. /\ Property(j).at \in DOMAIN ast
            /\ ast[Property(j).at] = data_context[Property(j).at]
        BY <2>2, <4>1 DEF DataInv, ReadInv
      <4>3. Property(j).at \in DOMAIN ast' /\ ast'[Property(j).at] = ast[Property(j).at]
        BY <1>5, <4>1, <4>2 DEF With
      <4> QED
        BY <1>7, <4>1, <4>2, <4>3 DEF HasValue
    <3> QED
      BY <3>1, <3>2
  <2>3. ASSUME NEW k \in DOMAIN reads
        PROVE  /\ reads[k].from \in DOMAIN data_context'
               /\ \A j \in DOMAIN document :
                    Property(j).at = reads[k].from /\ Property(j).inner = NoName =>
                      data_context'[reads[k].from] = reads[k].value
    <3>1. reads[k].from \in DOMAIN data_context
      BY DEF DataInv, ReadInv
    <3>2. ASSUME NEW j \in DOMAIN document,
                 Property(j).at = reads[k].from, Property(j).inner = NoName
          PROVE  data_context'[reads[k].from] = reads[k].value
      <4>1. j # i
        BY <2>1, <3>1, <3>2 DEF HasValue
      <4>2. reads[k].from # at
        BY <1>9, <3>2, <4>1
      <4> QED
        BY <1>7, <3>1, <3>2, <4>2 DEF DataInv, ReadInv
    <3> QED
      BY <1>7, <3>1, <3>2
  <2> QED
    BY <1>5, <1>6, <2>2, <2>3 DEF ReadInv
<1>14. GroundInv'
  <2>1. \A j \in DOMAIN document : Resolved(j)' => Resolved(j) \/ next = 2 * j - 1 \/ j = i
    BY <1>6, <1>8, <1>9 DEF Resolved
  <2>2. \A j \in DOMAIN document : HasValue(j) => HasValue(j)'
    BY <1>9
  <2>3. CASE next = 2 * i - 1
    <3>1. ~HasValue(i)
      BY <1>2, <1>4, <2>3 DEF DataInv, ValueInv, OuterFirst
    <3>2. \A j \in DOMAIN document : Resolved(j)' => Resolved(j) \/ j = i
      BY <1>10, <2>1
    <3>3. \/ Property(i).reads = NoName
          \/ \E s \in Source(i) : HasValue(s)
      <4>1. ASSUME Property(i).reads # NoName PROVE \E s \in Source(i) : HasValue(s)
        <5>1. PICK l \in DOMAIN data_context : l[2] = Property(i).reads
          BY <1>1, <1>4, <4>1 DEF Blocked, Named
        <5>2. PICK s \in DOMAIN document : Property(s).at = l
          BY <5>1 DEF DataInv, ValueInv, Locations
        <5> QED
          BY <5>1, <5>2 DEF Source, HasValue
      <4> QED
        BY <4>1
    <3> QED
      BY <1>4, <1>5, <2>2, <3>1, <3>2, <3>3, GroundGrows DEF DataInv
  <2>4. CASE next = 2 * i
    <3>1. \A j \in DOMAIN document : Resolved(j)' => Resolved(j)
      <4>1. \A j \in DOMAIN document : next # 2 * j - 1
        BY <2>4, SlotFacts
      <4> QED
        BY <1>4, <1>6, <1>8, <1>9, <4>1 DEF Resolved
    <3> QED
      BY <1>5, <1>6, <2>2, <3>1 DEF DataInv, GroundInv, Source
  <2> QED
    BY <1>3, <2>3, <2>4
<1>15. ShowInv'
  <2>1. ASSUME NEW j \in DOMAIN document, Property(j).kind # "call"
        PROVE  /\ Property(j).at \notin DOMAIN ast => Property(j).at \notin DOMAIN ast'
               /\ HasValue(j)' => HasValue(j)
               /\ HasValue(j) => data_context'[Property(j).at] = data_context[Property(j).at]
    <3>1. Property(j).at # at
      BY <1>4, <1>9, <2>1
    <3> QED
      BY <1>4, <1>5, <1>7, <1>9, <2>1, <3>1 DEF With, HasValue
  <2> QED
    BY <1>5, <1>6, <2>1 DEF DataInv, ShowInv
<1> QED
  BY <1>11, <1>12, <1>13, <1>14, <1>15 DEF DataInv

(* What the aliases can still get once their passes are over changes with    *)
(* the calls only, and those do not give any alias its value.                *)
LateAliasInv ==
  Cardinality(AliasProperties) <= MaxAliasPasses =>
    \A i \in AliasProperties \ Known :
      \A j \in Source(i) : Property(j).kind = "call" \/ ~HasValue(j)

OnlyCallsGain ==
  \A i \in DOMAIN document :
    /\ HasValue(i) => HasValue(i)'
    /\ HasValue(i)' => HasValue(i) \/ Property(i).kind = "call"

LEMMA LateAliasStays ==
  ASSUME LateAliasInv, document' = document,
         OnlyCallsGain
  PROVE  LateAliasInv'
<1>1. \A i : Property(i)' = Property(i) /\ Source(i)' = Source(i)
  BY SameProperties
<1>2. AliasProperties' = AliasProperties /\ AliasProperties \subseteq DOMAIN document
  BY SameProperties DEF AliasProperties
<1>3. Known' = Known
  BY <1>2 DEF Known, AliasProperties, OnlyCallsGain
<1>4. \A i : Source(i) \subseteq DOMAIN document
  BY DEF Source
<1> QED
  BY <1>1, <1>2, <1>3, <1>4 DEF LateAliasInv, OnlyCallsGain

LEMMA AliasesControl ==
  ASSUME TypeOK, DataInv, ControlInv, Aliases
  PROVE  DataInv' /\ ControlInv'
<1>1. /\ phase = "aliases" /\ next >= 1 /\ done = {} /\ next \in Nat
      /\ Cardinality(Known) >= iteration - (IF progress THEN 0 ELSE 1)
      /\ ~progress => \A i \in AliasProperties \ Known :
                        i < next => \A j \in Source(i) : ~HasValue(j)
      /\ document' = document /\ done' = done /\ iteration \in Nat
  BY DEF Aliases, PassAlias, EndAliasPass, ResolveAlias, ControlInv, AliasInv, TypeOK
<1>2. IsFiniteSet(AliasProperties) /\ IsFiniteSet(Known) /\ Known \subseteq AliasProperties
  <2>1. AliasProperties \subseteq DOMAIN document /\ Known \subseteq AliasProperties
    BY DEF AliasProperties, Known
  <2> QED
    BY <2>1, FS_Subset, DocumentFacts
<1>3. Cardinality(Known) \in Nat
  BY <1>2, FS_CardinalityType
<1>4. /\ \A i : Property(i)' = Property(i) /\ Source(i)' = Source(i)
      /\ AliasProperties' = AliasProperties
  BY <1>1, SameProperties
<1>5. phase' \in {"aliases", "pass"} => OuterInv' /\ EndInv'
  BY DEF OuterInv, EndInv, InPass
<1>6. CASE PassAlias
  <2>1. /\ UNCHANGED <<document, data_context, ast, done, failures, reads, progress,
                       iteration, phase>>
        /\ next' = next + 1
    BY <1>6 DEF PassAlias
  <2>2. \A i : HasValue(i)' <=> HasValue(i)
    BY <1>4, <2>1 DEF HasValue
  <2>3. Known' = Known
    BY <1>4, <2>2 DEF Known
  <2>4. DataInv'
    BY <2>1, DataStays
  <2>5. ASSUME NEW i \in AliasProperties \ Known, i = next, NEW j \in Source(i)
        PROVE  ~HasValue(j)
    <3>1. IsOpenAlias(Property(next))
      BY <2>5 DEF IsOpenAlias, Known, HasValue, AliasProperties
    <3>2. next <= Len(document)
      BY <1>6 DEF PassAlias
    <3>3. Named(Property(next).reads, DOMAIN data_context) = {}
      BY <1>6, <3>1 DEF PassAlias
    <3> QED
      BY <2>5, <3>3 DEF Named, Source, HasValue
  <2>6. \A i \in AliasProperties : i \in Nat
    BY SlotFacts DEF AliasProperties
  <2>7. ~progress => \A i \in AliasProperties \ Known :
                       i < next' => \A j \in Source(i) : ~HasValue(j)
    <3>1. \A i \in AliasProperties : i < next' => i < next \/ i = next
      BY <1>1, <2>1, <2>6
    <3> QED
      BY <1>1, <2>5, <3>1
  <2>8. AliasInv'
    BY <1>1, <1>4, <2>1, <2>2, <2>3, <2>7 DEF AliasInv
  <2> QED
    BY <1>1, <1>5, <2>1, <2>4, <2>8 DEF ControlInv
<1>7. CASE EndAliasPass
  <2>1. /\ UNCHANGED <<document, data_context, ast, done, failures, reads>>
        /\ next' = 1 /\ progress' = FALSE /\ next > Len(document)
        /\ \/ progress /\ iteration' = iteration + 1 /\ phase' = phase
           \/ ~(progress /\ iteration < MaxAliasPasses) /\ phase' = "pass"
    BY <1>7 DEF EndAliasPass
  <2>2. \A i : HasValue(i)' <=> HasValue(i)
    BY <1>4, <2>1 DEF HasValue
  <2>3. Known' = Known
    BY <1>4, <2>2 DEF Known
  <2>4. DataInv'
    BY <2>1, DataStays
  <2>5. \A i \in AliasProperties : 1 <= i /\ i < next /\ ~(i < 1)
    BY <1>1, <2>1, DocumentFacts DEF AliasProperties
  <2>6. CASE phase' = "aliases"
    <3>1. progress /\ iteration' = iteration + 1
      BY <2>1, <2>6
    <3>2. Cardinality(Known) >= iteration' - 1
      BY <1>1, <1>3, <3>1
    <3>3. AliasInv'
      BY <1>1, <1>4, <2>1, <2>3, <2>5, <2>6, <3>2 DEF AliasInv
    <3> QED
      BY <1>5, <2>4, <2>6, <3>3 DEF ControlInv
  <2>7. CASE phase' # "aliases"
    <3>1. phase' = "pass" /\ ~(progress /\ iteration < MaxAliasPasses)
      BY <1>1, <2>1, <2>7
    <3>2. LateAliasInv
      <4>1. CASE ~progress
        BY <1>1, <2>5, <4>1 DEF LateAliasInv
      <4>2. CASE progress /\ ~(iteration < MaxAliasPasses)
        <5>1. SUFFICES ASSUME Cardinality(AliasProperties) <= MaxAliasPasses
                       PROVE  AliasProperties = Known
          BY DEF LateAliasInv
        <5>2. Cardinality(AliasProperties) \in Nat /\ MaxAliasPasses \in Nat
          BY <1>2, FS_CardinalityType, DocumentAssumption
        <5>3. Cardinality(AliasProperties) <= Cardinality(Known)
          BY <1>1, <1>3, <4>2, <5>1, <5>2
        <5>4. Cardinality(Known) <= Cardinality(AliasProperties)
          BY <1>2, FS_Subset
        <5>5. Cardinality(Known) = Cardinality(AliasProperties)
          BY <1>3, <5>2, <5>3, <5>4
        <5> QED
          BY <1>2, <5>5, FS_Subset
      <4> QED
        BY <3>1, <4>1, <4>2
    <3>3. LateAliasInv'
      <4>1. OnlyCallsGain
        BY <2>2 DEF OnlyCallsGain
      <4> QED
        BY <1>1, <3>2, <4>1, LateAliasStays
    <3>4. AliasInv'
      BY <2>7, <3>3 DEF AliasInv, LateAliasInv
    <3> QED
      BY <1>5, <2>4, <3>1, <3>4 DEF ControlInv
  <2> QED
    BY <2>6, <2>7
<1>8. CASE \E l \in DOMAIN data_context : ResolveAlias(l)
  <2>1. PICK l \in DOMAIN data_context : ResolveAlias(l)
    BY <1>8
  <2>2. DataInv' /\ Known' = Known \cup {next} /\ next \in AliasProperties \ Known
    BY <1>1, <2>1, AliasData
  <2>3. Cardinality(Known') = Cardinality(Known) + 1
    BY <1>2, <2>2, FS_AddElement
  <2>4. /\ phase' = "aliases" /\ progress' /\ next' = next + 1 /\ iteration' = iteration
    BY <1>1, <2>1 DEF ResolveAlias
  <2>5. Cardinality(Known') >= iteration'
    BY <1>1, <1>3, <2>3, <2>4
  <2>6. AliasInv'
    BY <1>1, <2>4, <2>5 DEF AliasInv
  <2> QED
    BY <1>5, <2>2, <2>4, <2>6 DEF ControlInv
<1> QED
  BY <1>6, <1>7, <1>8 DEF Aliases

(* Between the steps that end a call, the passes have nothing new to wait    *)
(* for.                                                                      *)
LEMMA ControlStays ==
  ASSUME TypeOK, ControlInv, phase # "aliases", phase' # "aliases",
         UNCHANGED <<document, data_context, done>>,
         \/ UNCHANGED next /\ (InPass' => InPass)
         \/ next' = 1,
         phase' \in {"argument", "running"} => UNCHANGED next /\ ~Blocked(next),
         phase' \in {"identifiers", "over"} => circular' \/ Pending = {}
  PROVE  ControlInv'
<1>1. /\ \A k : Of(k)' = Of(k) /\ (Blocked(k)' <=> Blocked(k))
      /\ Calls' = Calls /\ Pending' = Pending
  BY SameDocument DEF Blocked, Named, Pending
<1>2. OuterInv'
  <2>1. \A i \in DOMAIN document : 1 # 2 * i
    BY SlotFacts
  <2> QED
    BY <1>1, <2>1 DEF ControlInv, OuterInv
<1>3. \A i : Property(i)' = Property(i)
  BY SameProperties
<1>4. OnlyCallsGain
  BY <1>3 DEF HasValue, OnlyCallsGain
<1>5. LateAliasInv'
  BY <1>4, LateAliasStays DEF ControlInv, AliasInv, LateAliasInv
<1> QED
  BY <1>1, <1>2, <1>5 DEF ControlInv, AliasInv, LateAliasInv, EndInv

(* A call that ends, or that a pass goes by.                                 *)
LEMMA ControlMoves ==
  ASSUME TypeOK, ControlInv, phase # "aliases", phase' = "calls", next \in Slots,
         document' = document, next' = next + 1, done' \subseteq done \cup {next},
         done \subseteq done',
         OnlyCallsGain,
         next \in Pending => next \in done' \/ (Blocked(next) /\ UNCHANGED data_context)
  PROVE  ControlInv'
<1>1. \A k : Of(k)' = Of(k)
  BY SameDocument
<1>2. Calls' = Calls /\ Pending' = Calls \ done'
  BY SameDocument DEF Pending
<1>3. OuterInv'
  <2>1. ASSUME NEW i \in DOMAIN document, next' = 2 * i, 2 * i - 1 \in Pending'
        PROVE  Blocked(2 * i - 1)'
    <3>1. next = 2 * i - 1
      BY <2>1, SlotFacts DEF TypeOK
    <3>2. next \in Pending /\ next \notin done'
      BY <1>2, <2>1, <3>1 DEF Pending
    <3>3. Blocked(next) /\ UNCHANGED data_context
      BY <3>2
    <3> QED
      BY <1>1, <3>1, <3>3 DEF Blocked, Named
  <2> QED
    BY <2>1 DEF OuterInv
<1>4. LateAliasInv'
  BY LateAliasStays DEF ControlInv, AliasInv, LateAliasInv
<1> QED
  BY <1>3, <1>4 DEF ControlInv, AliasInv, LateAliasInv, EndInv

LEMMA GiveUpControl ==
  ASSUME TypeOK, DataInv, ControlInv, InPass, next \in Pending, ~Blocked(next), GiveUp
  PROVE  DataInv' /\ ControlInv'
<1>1. DataInv'
  BY GiveUpData DEF ControlInv
<1>2. /\ UNCHANGED <<document, data_context>> /\ done' = done \cup {next}
      /\ next' = next + 1 /\ phase' = "calls" /\ phase # "aliases" /\ next \in Slots
  BY DEF GiveUp, InPass, Pending, Calls
<1>3. OnlyCallsGain
  BY <1>2, SameProperties DEF HasValue, OnlyCallsGain
<1>4. ControlInv'
  BY <1>2, <1>3, ControlMoves
<1> QED
  BY <1>1, <1>4

LEMMA SucceedControl ==
  ASSUME TypeOK, DataInv, ControlInv, Succeed
  PROVE  DataInv' /\ ControlInv'
<1>1. DataInv'
  BY SucceedData DEF ControlInv
<1>2. next \in Pending /\ next \in Slots
  BY DEF Succeed, TypeOK, Pending, Calls
<1>3. PICK i \in DOMAIN document : Of(next) = Property(i) /\ Property(i).kind = "call"
  BY <1>2, SlotFacts, CallFacts DEF Pending
<1>4. /\ document' = document /\ done' = done \cup {next}
      /\ data_context' = With(data_context, Property(i).at, value)
      /\ next' = next + 1 /\ phase' = "calls" /\ phase # "aliases"
  BY <1>3 DEF Succeed
<1>5. OnlyCallsGain
  BY <1>3, <1>4, SameProperties, DocumentFacts DEF HasValue, OnlyCallsGain, With
<1>6. ControlInv'
  <2>1. /\ phase # "aliases" /\ phase' = "calls" /\ document' = document /\ next' = next + 1
        /\ next \in done' /\ done \subseteq done' /\ done' \subseteq done \cup {next}
    BY <1>4
  <2> QED
    BY <1>2, <1>5, <2>1, ControlMoves
<1> QED
  BY <1>1, <1>6

LEMMA PassesControl ==
  ASSUME TypeOK, DataInv, ControlInv, StartPass \/ PassOver \/ EndPass
  PROVE  DataInv' /\ ControlInv'
<1>1. UNCHANGED <<document, data_context, ast, done, failures, reads>> /\ phase # "aliases"
  BY DEF StartPass, PassOver, EndPass
<1>2. DataInv'
  BY <1>1, DataStays
<1>3. CASE StartPass
  BY <1>1, <1>2, <1>3, ControlStays DEF StartPass
<1>4. CASE EndPass
  BY <1>1, <1>2, <1>4, ControlStays DEF EndPass, InPass
<1>5. CASE PassOver
  <2>1. OnlyCallsGain
    BY <1>1, SameProperties DEF HasValue, OnlyCallsGain
  <2>2. /\ next \in Slots /\ next' = next + 1 /\ phase' = "calls"
        /\ next \in Pending => Blocked(next)
    BY <1>5 DEF PassOver
  <2>3. ControlInv'
    BY <1>1, <2>1, <2>2, ControlMoves
  <2> QED
    BY <1>2, <2>3
<1> QED
  BY <1>3, <1>4, <1>5

LEMMA CallsControl ==
  ASSUME TypeOK, DataInv, ControlInv, RefuseCall \/ MissInScope \/ Run
  PROVE  DataInv' /\ ControlInv'
<1>1. ASSUME NEW argument \in Value, Ready, Begin(argument),
             \/ UNCHANGED reads
             \/ \E l \in DOMAIN data_context :
                  reads' = With(reads, next, [from |-> l, value |-> data_context[l]])
      PROVE  DataInv' /\ ControlInv'
  <2>1. /\ phase = "calls" /\ phase' \in {"argument", "running"} /\ ~Blocked(next) /\ InPass
        /\ UNCHANGED <<document, data_context, ast, done, failures, next>>
    BY <1>1 DEF Ready, Begin, InPass
  <2>2. DataInv'
    BY <1>1, <2>1, DataStays
  <2>3. ControlInv'
    BY <2>1, ControlStays
  <2> QED
    BY <2>2, <2>3
<1>2. CASE RefuseCall \/ MissInScope \/ Fail
  <2>1. InPass /\ next \in Pending /\ ~Blocked(next) /\ GiveUp
    BY <1>2 DEF RefuseCall, MissInScope, Fail, Ready, InPass, TypeOK, ControlInv, OuterInv
  <2> QED
    BY <2>1, GiveUpControl
<1>3. CASE CallWithLiteral
  <2>1. <<"literal">> \in Value
    BY BodyAssumption, OneIsSeq DEF Value
  <2> QED
    BY <1>1, <1>3, <2>1 DEF CallWithLiteral
<1>4. CASE \E l \in DOMAIN data_context : CallWithName(l)
  <2>1. PICK l \in DOMAIN data_context : CallWithName(l)
    BY <1>4
  <2>2. data_context[l] \in Value
    BY <2>1 DEF TypeOK
  <2> QED
    BY <1>1, <2>1, <2>2 DEF CallWithName
<1>5. CASE CallWithResult \/ Work
  <2>1. /\ phase \in {"argument", "running"} /\ phase' \in {"argument", "running"}
        /\ ~Blocked(next) /\ InPass
        /\ UNCHANGED <<document, data_context, ast, done, failures, next, reads>>
    BY <1>5 DEF CallWithResult, Work, resolverVars, InPass, ControlInv, OuterInv
  <2>2. DataInv'
    BY <2>1, DataStays
  <2>3. ControlInv'
    BY <2>1, ControlStays
  <2> QED
    BY <2>2, <2>3
<1>6. CASE Succeed
  BY <1>6, SucceedControl
<1> QED
  BY <1>2, <1>3, <1>4, <1>5, <1>6 DEF Run

(* No location is a name alone, so the last phase finds nothing.             *)
LEMMA NothingIsReplaceable ==
  ASSUME TypeOK, DataInv
  PROVE  Replaceable = {}
<1> SUFFICES ASSUME NEW i \in Replaceable PROVE FALSE
  OBVIOUS
<1>1. Bare(Property(i).reads) \in Locations
  BY DEF Replaceable, DataInv, ValueInv
<1>2. PICK j \in DOMAIN document : Property(j).at = Bare(Property(i).reads)
  BY <1>1 DEF Locations
<1>3. Len(Property(j).at) = 2
  BY DocumentFacts DEF Location
<1> QED
  BY <1>2, <1>3 DEF Bare

LEMMA ResolutionInductive ==
  IInv /\ DataInv /\ ControlInv /\ [Next]_vars => DataInv' /\ ControlInv'
<1> SUFFICES ASSUME IInv, DataInv, ControlInv, [Next]_vars PROVE DataInv' /\ ControlInv'
  OBVIOUS
<1>1. TypeOK
  BY DEF IInv
<1>2. CASE Aliases
  BY <1>1, <1>2, AliasesControl
<1>3. CASE StartPass \/ PassOver \/ EndPass
  BY <1>1, <1>3, PassesControl
<1>4. CASE RefuseCall \/ MissInScope \/ Run
  BY <1>1, <1>4, CallsControl
<1>6. CASE ReplaceNames
  <2>1. Replaceable = {}
    BY <1>1, NothingIsReplaceable
  <2>2. /\ phase = "identifiers" /\ phase' = "over"
        /\ UNCHANGED <<document, data_context, ast, done, failures, next, circular, reads>>
    BY <1>6, <2>1 DEF ReplaceNames
  <2>3. DataInv'
    BY <2>2, DataStays
  <2>4. ControlInv'
    BY <1>1, <2>2, ControlStays DEF ControlInv, EndInv, InPass
  <2> QED
    BY <2>3, <2>4
<1>5. CASE UNCHANGED vars
  <2>1. UNCHANGED <<document, data_context, ast, done, failures, next, progress, iteration,
                    circular, phase, reads>>
    BY <1>5 DEF vars, resolverVars
  <2>2. DataInv'
    BY <2>1, DataStays
  <2>3. CASE phase = "aliases"
    <3>1. /\ \A i : Property(i)' = Property(i) /\ Source(i)' = Source(i)
          /\ AliasProperties' = AliasProperties
      BY <2>1, SameProperties
    <3>2. \A i : HasValue(i)' <=> HasValue(i)
      BY <2>1, <3>1 DEF HasValue
    <3>3. Known' = Known
      BY <3>1, <3>2 DEF Known
    <3>4. AliasInv'
      BY <2>1, <2>3, <3>1, <3>2, <3>3 DEF ControlInv, AliasInv
    <3> QED
      BY <2>1, <2>2, <2>3, <3>4 DEF ControlInv, OuterInv, EndInv, InPass
  <2>4. CASE phase # "aliases"
    <3>1. ControlInv'
      BY <1>1, <2>1, <2>4, ControlStays DEF ControlInv, OuterInv, EndInv, InPass
    <3> QED
      BY <2>2, <3>1
  <2> QED
    BY <2>3, <2>4
<1> QED
  BY <1>2, <1>3, <1>4, <1>5, <1>6 DEF Next

-----------------------------------------------------------------------------
(* Who is misled. A level that a call has taken for good, and a lambda that  *)
(* it has registered, stay; without them, only a shadowed name misleads.     *)
LevelInv ==
  \E b \in Nat : Shape(b) /\ (Unshadowed /\ misled => b > 0 \/ DOMAIN lambda_registry # {})

LEMMA SameShape ==
  ASSUME UNCHANGED <<frames, recursion_depth>>, NEW b
  PROVE  Shape(b)' <=> Shape(b)
BY DEF Shape, Running, Top

LEMMA SameScopes ==
  ASSUME document' = document
  PROVE  Unshadowed' <=> Unshadowed
<1>1. Calls' = Calls /\ Locations' = Locations /\ \A k : Of(k)' = Of(k)
  BY SameDocument, SameProperties
<1>2. \A k : ScopeContext(k)' = ScopeContext(k)
  BY <1>1 DEF ScopeContext
<1> QED
  BY <1>1, <1>2 DEF Unshadowed, Named

LEMMA RegistryGrows ==
  ASSUME \/ Interpret
         \/ \E f \in Function : \E v \in Value : Execute(f, v)
         \/ \E name : \E v \in Value : Evaluate(name, NoName, v)
  PROVE  DOMAIN lambda_registry \subseteq DOMAIN lambda_registry'
<1>1. \A f, v : Execute(f, v) => lambda_registry' = lambda_registry
  BY DEF Execute, Abandon
<1>2. \A name, local, v : Evaluate(name, local, v) => lambda_registry' = lambda_registry
  BY <1>1 DEF Evaluate, Yield, Abandon
<1>3. ASSUME Interpret PROVE DOMAIN lambda_registry \subseteq DOMAIN lambda_registry'
  <2>1. CASE CallByName
    BY <1>2, <2>1 DEF CallByName
  <2>2. CASE BindLambda
    BY <2>2 DEF BindLambda
  <2>3. CASE Compute \/ TakeBranch \/ Raise \/ EndStatement \/ EndList
    BY <2>3 DEF Compute, Yield, TakeBranch, Raise, Abandon, EndStatement, EndList, Leave
  <2> QED
    BY <1>3, <2>1, <2>2, <2>3 DEF Interpret
<1> QED
  BY <1>1, <1>2, <1>3

(* Where the interpreter works on, or starts.                                *)
LEMMA LevelMoves ==
  ASSUME TypeOK', NEW b \in Nat, Kept(b)',
         Unshadowed' /\ misled' => b > 0 \/ DOMAIN lambda_registry' # {}
  PROVE  LevelInv'
<1>1. CASE Shape(b)'
  BY <1>1 DEF LevelInv
<1>2. CASE (failed /\ ~Running /\ recursion_depth >= b)'
  <2>1. recursion_depth' \in Nat
    BY <1>2 DEF TypeOK
  <2>2. frames' = << >> /\ Len(frames') = 0
    BY <1>2 DEF Running
  <2>3. PICK c \in Nat : c = recursion_depth'
    BY <2>1
  <2>4. Shape(c)' /\ (b > 0 => c > 0)
    BY <1>2, <2>2, <2>3 DEF Shape, Running
  <2> QED
    BY <2>4 DEF LevelInv
<1> QED
  BY <1>1, <1>2 DEF Kept

(* Where no name is shadowed, the location that lets a call begin is the one *)
(* that its scope maps the name to.                                          *)
LEMMA OneInScope ==
  ASSUME TypeOK, DataInv, Unshadowed
  PROVE  ~MissInScope
<1> SUFFICES ASSUME MissInScope PROVE FALSE
  OBVIOUS
<1> DEFINE name == Of(next).reads
<1>1. PICK l \in Named(name, ScopeContext(next)) : l \notin DOMAIN data_context
  BY DEF MissInScope
<1>2. next \in Calls /\ ~Blocked(next)
  BY DEF MissInScope, Ready, Pending
<1>3. PICK i \in DOMAIN document : Of(next) = Property(i)
  BY <1>2, SlotFacts DEF Calls
<1>4. l \in Locations /\ l[2] = name
  BY <1>1, <1>3 DEF ScopeContext, Locations, Named
<1>5. \A m \in Locations : m \in Location
  BY DocumentFacts DEF Locations
<1>6. name # NoName
  BY <1>4, <1>5 DEF Location
<1>7. PICK m \in DOMAIN data_context : m[2] = name
  BY <1>2, <1>6 DEF Blocked, Named
<1>8. m \in Locations /\ m \in ScopeContext(next)
  BY <1>1, <1>2, <1>7 DEF DataInv, ValueInv, Unshadowed, Named
<1>9. l[1] = m[1] /\ l[2] = m[2]
  BY <1>1, <1>4, <1>7, <1>8 DEF ScopeContext, Named
<1>10. l = m
  <2>1. l \in Seq(Label) /\ m \in Seq(Label) /\ Len(l) = 2 /\ Len(m) = 2
    BY <1>4, <1>5, <1>8 DEF Location, Value
  <2> QED
    BY <1>9, <2>1
<1> QED
  BY <1>1, <1>7, <1>10

LEMMA LevelsStay ==
  ASSUME LevelInv, UNCHANGED <<document, frames, recursion_depth, lambda_registry, misled>>
  PROVE  LevelInv'
BY SameShape, SameScopes DEF LevelInv

LEMMA RunLevels ==
  ASSUME IInv, IInv', LevelInv, Run
  PROVE  LevelInv'
<1> USE DEF IInv
<1>1. InterpreterTypes
  BY ResolverKeepsTypes
<1>2. PICK b \in Nat :
        Shape(b) /\ (Unshadowed /\ misled => b > 0 \/ DOMAIN lambda_registry # {})
  BY DEF LevelInv
<1>3. b \in Int
  OBVIOUS
<1>4. ASSUME Ready, Callee(next) \in Function, NEW v \in Value, Begin(v)
      PROVE  LevelInv'
  <2>1. /\ ~failed /\ ~Running /\ document' = document /\ misled' = (misled \/ Used)
        /\ \/ \E f \in Function : Execute(f, v)
           \/ \E name : Evaluate(name, NoName, v)
    BY <1>4 DEF Ready, Begin, TypeOK
  <2>2. Kept(b)'
    BY <1>1, <1>2, <1>3, <1>4, <2>1, ExecuteKeeps, EvaluateKeeps
  <2>3. Used => b > 0 \/ DOMAIN lambda_registry # {}
    BY <1>2, <2>1 DEF Used, Shape
  <2>4. DOMAIN lambda_registry \subseteq DOMAIN lambda_registry'
    BY <1>4, <2>1, RegistryGrows
  <2>5. Unshadowed' /\ misled' => b > 0 \/ DOMAIN lambda_registry' # {}
    BY <1>2, <2>1, <2>3, <2>4, SameScopes
  <2> QED
    BY <2>2, <2>5, LevelMoves
<1>5. CASE CallWithLiteral
  <2>1. <<"literal">> \in Value
    BY BodyAssumption, OneIsSeq DEF Value
  <2> QED
    BY <1>4, <1>5, <2>1 DEF CallWithLiteral
<1>6. CASE \E l \in DOMAIN data_context : CallWithName(l)
  <2>1. PICK l \in DOMAIN data_context : CallWithName(l)
    BY <1>6
  <2>2. data_context[l] \in Value
    BY <2>1 DEF TypeOK
  <2> QED
    BY <1>4, <2>1, <2>2 DEF CallWithName
<1>7. CASE CallWithResult \/ Work
  <2>1. UNCHANGED <<document, misled>>
    BY <1>7 DEF CallWithResult, Work, resolverVars
  <2>2. CASE CallWithResult
    <3>1. ~failed /\ value \in Value /\ Of(next).callee \in Function /\ Execute(Of(next).callee, value)
      BY <2>2 DEF CallWithResult, Returned, TypeOK, Callable
    <3>2. Kept(b)' /\ DOMAIN lambda_registry \subseteq DOMAIN lambda_registry'
      BY <1>1, <1>2, <1>3, <3>1, ExecuteKeeps, RegistryGrows
    <3> QED
      BY <1>2, <2>1, <3>2, SameScopes, LevelMoves
  <2>3. CASE Work
    <3>1. Kept(b)' /\ DOMAIN lambda_registry \subseteq DOMAIN lambda_registry'
      BY <1>1, <1>2, <1>3, <2>3, InterpretKeeps, RegistryGrows DEF Work
    <3> QED
      BY <1>2, <2>1, <3>1, SameScopes, LevelMoves
  <2> QED
    BY <1>7, <2>2, <2>3
<1>8. CASE Succeed \/ Fail
  BY <1>8, LevelsStay DEF Succeed, Fail, GiveUp
<1> QED
  BY <1>5, <1>6, <1>7, <1>8 DEF Run

LEMMA LevelsInductive ==
  IInv /\ IInv' /\ DataInv /\ LevelInv /\ [Next]_vars => LevelInv'
<1> SUFFICES ASSUME IInv, IInv', DataInv, LevelInv, [Next]_vars PROVE LevelInv'
  OBVIOUS
<1>1. CASE Run
  BY <1>1, RunLevels
<1>2. CASE MissInScope
  <2>1. ~Unshadowed /\ document' = document
    BY <1>2, OneInScope DEF IInv, MissInScope, GiveUp
  <2>2. ~Unshadowed'
    BY <2>1, SameScopes
  <2>3. UNCHANGED <<frames, recursion_depth>>
    BY <1>2 DEF MissInScope, interpreterVars
  <2> QED
    BY <2>2, <2>3, SameShape DEF LevelInv
<1>3. CASE Aliases \/ StartPass \/ PassOver \/ RefuseCall \/ EndPass \/ ReplaceNames \/ UNCHANGED vars
  <2>1. UNCHANGED <<document, frames, recursion_depth, lambda_registry, misled>>
    BY <1>3 DEF Aliases, PassAlias, EndAliasPass, ResolveAlias, StartPass, PassOver,
                RefuseCall, GiveUp, EndPass, ReplaceNames, vars, resolverVars, interpreterVars
  <2> QED
    BY <2>1, LevelsStay
<1> QED
  BY <1>1, <1>2, <1>3 DEF Next

LEMMA InitLevels == Init => LevelInv
<1> SUFFICES ASSUME Init PROVE LevelInv
  OBVIOUS
<1>1. Shape(0)
  BY DEF Init, InterpreterInit, Shape, Running
<1> QED
  BY <1>1 DEF LevelInv, Init

LEMMA ResolutionInvariance == Spec => [](IInv /\ DataInv /\ ControlInv /\ LevelInv)
<1>1. Init => IInv /\ DataInv /\ ControlInv /\ LevelInv
  BY InitTypes, InitData, InitLevels DEF IInv
<1> QED
  BY <1>1, Inductive, ResolutionInductive, LevelsInductive, PTL DEF Spec

(* What a call computed with is what the document shows in the end, at the   *)
(* location that it read or at one that the alias there leads to.            *)
THEOREM ReadsStayFinal == Spec => []ReadsAreFinal
<1>1. TypeOK /\ DataInv => ReadsAreFinal
  <2> SUFFICES ASSUME TypeOK, DataInv, NEW k \in DOMAIN reads
               PROVE  \E i \in DOMAIN document :
                        /\ Property(i).at = reads[k].from
                        /\ Property(i).inner = NoName =>
                             \E j \in DOMAIN document :
                               LeadsTo(i, j) /\ Shows(j) /\ Shown(j) = reads[k].value
    BY DEF ReadsAreFinal
  <2>1. reads[k].from \in DOMAIN data_context
    BY DEF DataInv, ReadInv
  <2>2. PICK i \in DOMAIN document : Property(i).at = reads[k].from
    BY <2>1 DEF DataInv, ValueInv, Locations
  <2>3. HasValue(i)
    BY <2>1, <2>2 DEF HasValue
  <2>4. ASSUME Property(i).inner = NoName
        PROVE  \E j \in DOMAIN document : LeadsTo(i, j) /\ Shows(j) /\ Shown(j) = reads[k].value
    <3>1. data_context[Property(i).at] = reads[k].value
      BY <2>2, <2>4 DEF DataInv, ReadInv
    <3>2. CASE Property(i).kind = "call"
      BY <2>3, <2>4, <3>1, <3>2, LeadsToItself DEF DataInv, ReadInv, Shows, Shown
    <3>3. CASE Property(i).kind # "call"
      <4>1. PICK j \in DOMAIN document :
              /\ Property(j).kind = "literal" /\ LeadsTo(i, j)
              /\ data_context[Property(i).at] = Property(j).at
        BY <2>3, <3>3 DEF DataInv, ShowInv
      <4>2. Property(j).at \notin DOMAIN ast
        BY <4>1 DEF DataInv, ShowInv
      <4> QED
        BY <3>1, <4>1, <4>2 DEF Shows, Shown
    <3> QED
      BY <3>2, <3>3
  <2> QED
    BY <2>2, <2>4
<1>2. IInv => TypeOK
  BY DEF IInv
<1> QED
  BY <1>1, <1>2, ResolutionInvariance, PTL

(* Nothing that is resolved is in a starved set: such a set would have its   *)
(* values from itself.                                                       *)
LEMMA StarvedIsUnresolved ==
  ASSUME TypeOK, DataInv, NEW S \in SUBSET DOMAIN document, Starved(S), NEW i \in S
  PROVE  ~Resolved(i)
<1> DEFINE R == {j \in S : Resolved(j)}
<1>1. SUFFICES ASSUME R # {} PROVE FALSE
  OBVIOUS
<1>2. R \in SUBSET DOMAIN document /\ \A j \in R : Resolved(j)
  OBVIOUS
<1> HIDE DEF R
<1>3. PICK j \in R : \/ Property(j).reads = NoName
                     \/ \E s \in Source(j) \ R :
                          HasValue(s) /\ (Property(j).kind = "alias" => Property(s).kind # "call")
  BY <1>1, <1>2 DEF DataInv, GroundInv
<1>4. j \in S /\ j \in DOMAIN document /\ Resolved(j)
  BY <1>3, <1>2 DEF R
<1>5. 2 * j - 1 \notin failures
  <2>1. Property(j).kind = "alias" => 2 * j - 1 \notin done
    BY <1>4, CallFacts DEF DataInv, ValueInv
  <2> QED
    BY <1>4, <2>1 DEF Resolved, TypeOK
<1>6. /\ Property(j).reads # NoName
      /\ \A s \in Source(j) : \/ s \in S /\ 2 * s \notin done \ failures
                              \/ Property(j).kind = "alias" /\ Property(s).kind = "call"
  BY <1>4, <1>5 DEF Starved
<1>7. PICK s \in Source(j) \ R :
        HasValue(s) /\ (Property(j).kind = "alias" => Property(s).kind # "call")
  BY <1>3, <1>6
<1>8. s \in S /\ s \in DOMAIN document /\ 2 * s \notin done \ failures /\ ~Resolved(s)
  BY <1>6, <1>7 DEF R
<1>9. Property(s).kind = "literal"
  BY <1>7, <1>8, DocumentFacts DEF Resolved, DataInv, ValueInv
<1>10. 2 * s - 1 \notin done
  BY <1>8, <1>9, CallFacts DEF DataInv, ValueInv
<1>11. Property(s).reads # NoName
  BY <1>8, <1>10 DEF Starved, TypeOK
<1> QED
  BY <1>8, <1>9, <1>11, DocumentFacts

(* When the passes are over, all that is left is one starved set.            *)
LEMMA LeftIsStarved ==
  ASSUME IInv, DataInv, ControlInv, phase = "over", iteration < MaxIterations,
         Cardinality(AliasProperties) <= MaxAliasPasses
  PROVE  Starved({i \in DOMAIN document : Property(i).kind # "literal" /\ ~Resolved(i)})
<1> DEFINE S == {i \in DOMAIN document : Property(i).kind # "literal" /\ ~Resolved(i)}
<1>1. TypeOK /\ PassInv
  BY DEF IInv
<1>2. \A k \in Pending : Of(k).reads # NoName /\ Named(Of(k).reads, DOMAIN data_context) = {}
  <2>1. MaxIterations \in Nat /\ iteration \in Nat
    BY <1>1, DocumentTypes DEF TypeOK
  <2>2. iteration # MaxIterations
    BY <2>1
  <2> QED
    BY <1>1, <2>2 DEF ControlInv, EndInv, PassInv, StuckIsReal
<1>3. LateAliasInv
  BY DEF ControlInv, AliasInv, LateAliasInv
<1>4. ASSUME NEW j \in DOMAIN document, ~HasValue(j)
      PROVE  j \in S /\ 2 * j \notin done \ failures
  <2>1. Property(j).kind # "literal"
    BY <1>4 DEF DataInv, ValueInv
  <2>2. CASE Property(j).kind = "alias"
    <3>1. 2 * j \notin done
      BY <1>1, <2>2, CallFacts DEF DataInv, ValueInv
    <3> QED
      BY <1>4, <2>1, <2>2, <3>1 DEF Resolved
  <2>3. CASE Property(j).kind = "call"
    BY <1>4, <2>1, <2>3 DEF Resolved, DataInv, ValueInv
  <2> QED
    BY <1>1, <2>1, <2>2, <2>3, DocumentFacts
<1>5. ASSUME NEW i \in S, 2 * i - 1 \notin failures
      PROVE  /\ Property(i).reads # NoName
             /\ \A j \in Source(i) :
                  \/ j \in S /\ 2 * j \notin done \ failures
                  \/ Property(i).kind = "alias" /\ Property(j).kind = "call"
  <2>1. i \in DOMAIN document /\ Property(i).kind # "literal" /\ ~Resolved(i)
    OBVIOUS
  <2>2. Property(i).kind \in {"alias", "call"}
    BY <1>1, <2>1, DocumentFacts
  <2> HIDE DEF S
  <2>3. CASE Property(i).kind = "alias"
    <3>1. Property(i).reads # NoName
      BY <1>1, <2>1, <2>3, DocumentFacts
    <3>2. i \in AliasProperties \ Known
      BY <2>1, <2>3 DEF AliasProperties, Known, Resolved
    <3>3. \A j \in Source(i) : Property(j).kind = "call" \/ ~HasValue(j)
      BY <1>3, <3>2 DEF LateAliasInv
    <3>4. \A j \in Source(i) : j \in DOMAIN document
      BY DEF Source
    <3> QED
      BY <1>4, <2>3, <3>1, <3>3, <3>4
  <2>4. CASE Property(i).kind = "call"
    <3>1. 2 * i - 1 \in Pending
      BY <1>1, <1>5, <2>1, <2>4, CallFacts DEF Pending, Resolved
    <3>2. Property(i).reads # NoName /\ Named(Property(i).reads, DOMAIN data_context) = {}
      BY <1>1, <1>2, <2>1, <3>1, SlotFacts
    <3>3. \A j \in Source(i) : j \in DOMAIN document /\ ~HasValue(j)
      BY <3>2 DEF Source, HasValue, Named
    <3> QED
      BY <1>4, <3>2, <3>3
  <2> QED
    BY <2>2, <2>3, <2>4
<1> QED
  BY <1>5 DEF Starved

(* When all passes are over, exactly the calls that could be resolved have   *)
(* been, unless one was misled, which takes a name that is shadowed or a call *)
(* that leaves a level or a lambda behind.                                   *)
THEOREM ResolvesAllItCan == Spec => []ResolvesWhatItCan
<1>1. IInv /\ DataInv /\ ControlInv /\ LevelInv => ResolvesWhatItCan
  <2> SUFFICES ASSUME IInv, DataInv, ControlInv, LevelInv, phase = "over"
               PROVE  ResolvesWhatItCan
    BY DEF ResolvesWhatItCan
  <2>1. TypeOK
    BY DEF IInv
  <2>2. Unshadowed /\ ~Used => ~misled
    <3>1. PICK b \in Nat :
            Shape(b) /\ (Unshadowed /\ misled => b > 0 \/ DOMAIN lambda_registry # {})
      BY DEF LevelInv
    <3>2. recursion_depth = b
      BY <2>1, <3>1 DEF TypeOK, Shape
    <3> QED
      BY <3>1, <3>2 DEF Used
  <2>3. ASSUME iteration < MaxIterations, Cardinality(AliasProperties) <= MaxAliasPasses,
               NEW i \in DOMAIN document, Property(i).kind = "call"
        PROVE  2 * i - 1 \in done \ failures
                 <=> ~ \E S \in SUBSET DOMAIN document : i \in S /\ Starved(S)
    <3>1. Resolved(i) <=> 2 * i - 1 \in done \ failures
      BY <2>3 DEF Resolved
    <3>2. ASSUME NEW S \in SUBSET DOMAIN document, i \in S, Starved(S) PROVE ~Resolved(i)
      BY <2>1, <3>2, StarvedIsUnresolved
    <3>3. ASSUME ~Resolved(i) PROVE \E S \in SUBSET DOMAIN document : i \in S /\ Starved(S)
      <4> DEFINE S == {j \in DOMAIN document : Property(j).kind # "literal" /\ ~Resolved(j)}
      <4>1. Starved(S)
        BY <2>3, LeftIsStarved
      <4>2. i \in S /\ S \in SUBSET DOMAIN document
        BY <2>3, <3>3
      <4> QED
        BY <4>1, <4>2
    <3> QED
      BY <3>1, <3>2, <3>3
  <2> QED
    BY <2>2, <2>3 DEF ResolvesWhatItCan
<1> QED
  BY <1>1, ResolutionInvariance, PTL
=============================================================================
