--------------------------------- MODULE Merge ---------------------------------
(***************************************************************************)
(* MdixMerger (dixscript/src/Runtime/merge.rs): several databases are      *)
(* merged into one, source by source, key by key.                          *)
(*                                                                         *)
(* The sections differ only in how the entries of one key are brought      *)
(* together: one of them wins (@CONFIG, @IMPORTS, @QUICKFUNCS, simple and  *)
(* object properties), their fields are merged (@ENUMS, tables, @SECURITY  *)
(* blocks), their items are (group arrays), the first stays (@DLM), or all *)
(* are dropped (@RAW and the schema, which do_merge leaves empty).  A key  *)
(* stands for a section, a kind of entry and a name; none has to do with   *)
(* another one's, so that the sections can go through the sources side by  *)
(* side.  The order of the output is left out.                             *)
(*                                                                         *)
(* An array that is the value of a simple property is a Complex value of   *)
(* an Entry: one array wins, whatever the array strategy.                  *)
(***************************************************************************)
EXTENDS Integers, Sequences

CONSTANTS
  NumSources,
  Entry, Group, Array, Module,   \* the keys, by how they are merged
  Unmerged,                      \* those that no merge of several sources has
  Field,                         \* the names inside a group
  Leaf, Complex,                 \* values; a Complex one is equal to none
  Families,                      \* bound: sets of sources that are merged with one another
  Weights

Source == 1..NumSources
Key    == Entry \cup Group \cup Array \cup Module \cup Unmerged
Value  == Leaf \cup Complex

Contents(k) ==
  CASE k \in Group -> UNION {[F -> Value] : F \in SUBSET Field}
    [] k \in Array -> Seq(Value)
    [] OTHER       -> Value

IsAst(a) == DOMAIN a \subseteq Key /\ \A k \in DOMAIN a : a[k] \in Contents(k)

ASSUME MergeAssumption ==
  /\ NumSources \in Nat \ {0}     \* merge_all refuses an empty list
  /\ Entry \cap Group = {} /\ Entry \cap Array = {} /\ Entry \cap Module = {}
  /\ Group \cap Array = {} /\ Group \cap Module = {} /\ Array \cap Module = {}
  /\ Unmerged \cap (Entry \cup Group \cup Array \cup Module) = {}
  /\ Leaf \cap Complex = {}
  /\ Weights \subseteq Int
  /\ \A F \in Families : \A a \in F : IsAst(a)

VARIABLES
  sources, weight, strategy, array_strategy,   \* the inputs
  src,        \* the source that is merged in
  left,       \* its keys that are not merged yet
  merged,     \* for each key so far: its content, and the source it is put down to
  conflicts,  \* the conflicts: their path and winning_source
  errors      \* whether there is an error

inputs == <<sources, weight, strategy, array_strategy>>
vars   == <<inputs, src, left, merged, conflicts, errors>>

Strategies      == {"WeightedPriority", "PrimaryWins", "SecondaryWins", "ThrowOnConflict"}
ArrayStrategies == {"Replace", "Concat", "ConcatDedup"}

KeysOf(s) == IF s \in Source THEN DOMAIN sources[s] ELSE {}

Init ==
  /\ \E F \in Families : sources \in [Source -> F]
  /\ weight \in [Source -> Weights]
  /\ strategy \in Strategies /\ array_strategy \in ArrayStrategies
  /\ src = 1 /\ left = KeysOf(1)
  /\ merged = [k \in {} |-> 0]
  /\ conflicts = {} /\ errors = FALSE

-----------------------------------------------------------------------------
\* values_are_equal, and what is made of it
Equal(v, w)      == v = w /\ v \notin Complex
SameFields(a, b) == DOMAIN a = DOMAIN b /\ \A f \in DOMAIN a : Equal(a[f], b[f])
SameItems(a, b)  == Len(a) = Len(b) /\ \A i \in DOMAIN a : Equal(a[i], b[i])

Same(k, a, b) ==
  \/ k \in Entry /\ Equal(a, b)
  \/ k \in Group /\ SameFields(a, b)
  \/ k \in Array /\ SameItems(a, b)
  \/ k \in Module

Lower(s, t)  == IF s < t THEN s ELSE t
Higher(s, t) == IF s < t THEN t ELSE s

\* Faulty variant: equal weights are won by the challenger.
PickLater(challenger, existing) ==
  CASE strategy = "PrimaryWins"   -> Lower(existing, challenger)
    [] strategy = "SecondaryWins" -> Higher(existing, challenger)
    [] OTHER -> IF weight[challenger] >= weight[existing] THEN challenger ELSE existing

PickWinner(challenger, existing) ==
  CASE strategy = "PrimaryWins"   -> Lower(existing, challenger)
    [] strategy = "SecondaryWins" -> Higher(existing, challenger)
    [] OTHER ->
         IF weight[challenger] > weight[existing] THEN challenger
         ELSE IF weight[existing] > weight[challenger] THEN existing
         ELSE Lower(existing, challenger)

\* The fields of both; where both have one, the winner's.
MergeFields(winning, losing) ==
  [f \in DOMAIN winning \cup DOMAIN losing |->
     IF f \in DOMAIN winning THEN winning[f] ELSE losing[f]]

WithItem(items, v) ==
  IF \E i \in DOMAIN items : Equal(items[i], v) THEN items ELSE Append(items, v)

\* Faulty variant: the loser's items are compared with one another.
DedupedApart(winning, losing) ==
  LET items[n \in 0..Len(losing)] ==
        IF n = 0 THEN <<>> ELSE WithItem(items[n - 1], losing[n])
  IN winning \o items[Len(losing)]

\* The items of both, without those that are there already.
Deduped(winning, losing) ==
  LET items[n \in 0..Len(losing)] ==
        IF n = 0 THEN winning ELSE WithItem(items[n - 1], losing[n])
  IN items[Len(losing)]

MergeItems(winning, losing) ==
  CASE array_strategy = "Replace"     -> winning
    [] array_strategy = "Concat"      -> winning \o losing
    [] array_strategy = "ConcatDedup" -> Deduped(winning, losing)

\* Faulty variant: the winner's group takes the place of the loser's.
ReplaceGroup(k, winning, losing) ==
  IF k \in Array THEN MergeItems(winning, losing) ELSE winning

Combine(k, winning, losing) ==
  IF k \in Group THEN MergeFields(winning, losing)
  ELSE IF k \in Array THEN MergeItems(winning, losing)
  ELSE winning

\* The paths that two contents of a key disagree about.
Paths(k, a, b) ==
  {<<k>>} \cup
  (IF k \in Group
   THEN {<<k, f>> : f \in {g \in DOMAIN a \cap DOMAIN b : ~Equal(a[g], b[g])}}
   ELSE {})

-----------------------------------------------------------------------------
Slot(s, content) == [src |-> s, content |-> content]
Put(k, slot) == merged' = [j \in DOMAIN merged \cup {k} |-> IF j = k THEN slot ELSE merged[j]]
Take(k)      == k \in left /\ left' = left \ {k} /\ UNCHANGED <<inputs, src>>

\* merge_all hands a single source back as it is.
Merges(k) == NumSources = 1 \/ k \notin Unmerged

\* The first source that has the key.
Insert(k) ==
  /\ Take(k) /\ Merges(k) /\ k \notin DOMAIN merged
  /\ Put(k, Slot(src, sources[src][k]))
  /\ UNCHANGED <<conflicts, errors>>

\* raw: Vec::new(), schema: None
Drop(k) == Take(k) /\ ~Merges(k) /\ UNCHANGED <<merged, conflicts, errors>>

Agrees(k)    == k \in DOMAIN merged /\ Same(k, merged[k].content, sources[src][k])
Disagrees(k) == k \in DOMAIN merged /\ ~Same(k, merged[k].content, sources[src][k])

\* The same content again: the slot stays put down to the source it was.
Skip(k) == Take(k) /\ Agrees(k) /\ UNCHANGED <<merged, conflicts, errors>>

\* Faulty variant: what is refused is not listed.
RefuseUnlisted(k) ==
  /\ Take(k) /\ Disagrees(k) /\ strategy = "ThrowOnConflict"
  /\ errors' = TRUE
  /\ UNCHANGED <<merged, conflicts>>

\* resolve_conflict without a winner
Refuse(k) ==
  /\ Take(k) /\ Disagrees(k) /\ strategy = "ThrowOnConflict"
  /\ conflicts' = conflicts \cup {[path |-> <<k>>, winner |-> src]}
  /\ errors' = TRUE
  /\ UNCHANGED merged

\* resolve_conflict with one, and the deep merge.  All that is merged so far is
\* put down to one source, the winner's or the one that it was.
Resolve(k) ==
  /\ Take(k) /\ Disagrees(k) /\ strategy # "ThrowOnConflict"
  /\ LET here   == merged[k].content
         there  == sources[src][k]
         winner == PickWinner(src, merged[k].src)
     IN /\ Put(k, Slot(winner, IF winner = src THEN Combine(k, there, here)
                               ELSE Combine(k, here, there)))
        /\ conflicts' = conflicts \cup {[path |-> p, winner |-> winner] : p \in Paths(k, here, there)}
  /\ UNCHANGED errors

NextSource ==
  /\ src \in Source /\ left = {}
  /\ src' = src + 1 /\ left' = KeysOf(src + 1)
  /\ UNCHANGED <<inputs, merged, conflicts, errors>>

Next == NextSource \/ \E k \in Key : Insert(k) \/ Drop(k) \/ Skip(k) \/ Refuse(k) \/ Resolve(k)

Spec == Init /\ [][Next]_vars

-----------------------------------------------------------------------------
\* The types of the variables.
TypeOK ==
  /\ \A s \in Source : IsAst(sources[s]) /\ weight[s] \in Weights
  /\ strategy \in Strategies /\ array_strategy \in ArrayStrategies
  /\ src \in 1..(NumSources + 1) /\ left \subseteq KeysOf(src)
  /\ DOMAIN merged \subseteq Key
  /\ \A k \in DOMAIN merged :
       merged[k].src \in Source /\ merged[k].content \in Contents(k)
  /\ \A c \in conflicts : c.winner \in Source
  /\ errors \in BOOLEAN

Finished == src = NumSources + 1
Success  == Finished /\ ~errors

Holders(k)         == {s \in Source : k \in DOMAIN sources[s]}
FieldHolders(k, f) == {s \in Holders(k) : f \in DOMAIN sources[s][k]}

\* Which of two sources is to win, by the strategy.
Beats(s, t) ==
  CASE strategy = "PrimaryWins"   -> s < t
    [] strategy = "SecondaryWins" -> s > t
    [] OTHER -> weight[s] > weight[t] \/ (weight[s] = weight[t] /\ s < t)

Best(S) == {s \in S : \A t \in S \ {s} : Beats(s, t)}

\* The best source of an entry, or of a field of a group, has its value in the
\* result.
BestEntry(k) == \A s \in Best(Holders(k)) : merged[k].content = sources[s][k]
BestField(k, f) ==
  \A s \in Best(FieldHolders(k, f)) :
    f \in DOMAIN merged[k].content /\ merged[k].content[f] = sources[s][k][f]

\* The sources come in the order of their rank, or in the opposite one; or no
\* more than two of them have the key.
Falling == \A s, t \in Source : s < t => Beats(s, t)
Rising  == \A s, t \in Source : s < t => Beats(t, s)
Simple(k) ==
  Falling \/ Rising \/ \A s, t, u \in Holders(k) : s = t \/ s = u \/ t = u

(* "Higher weight wins", for each key and for each field of what is merged   *)
(* field by field: with two sources whatever they hold, and with more when   *)
(* their weights fall, as those of merge_files do, or rise.                  *)
BestSourceWins ==
  Success =>
    /\ \A k \in Entry : Simple(k) => BestEntry(k)
    /\ \A k \in Group, f \in Field : Simple(k) => BestField(k, f)

ItemsOf(a) == {a[i] : i \in DOMAIN a}

\* Of the contents that the sources of S have for a key: one of them, all the
\* fields of theirs, all the items of theirs is the result.
OneIsKept(k, S) == \E s \in S : merged[k].content = sources[s][k]
FieldsAreKept(k, S) ==
  /\ DOMAIN merged[k].content = UNION {DOMAIN sources[s][k] : s \in S}
  /\ \A f \in DOMAIN merged[k].content :
       \E s \in S : f \in DOMAIN sources[s][k] /\ merged[k].content[f] = sources[s][k][f]
ItemsAreKept(k, S) ==
  IF array_strategy = "Replace" THEN OneIsKept(k, S)
  ELSE ItemsOf(merged[k].content) = UNION {ItemsOf(sources[s][k]) : s \in S}

(* What is merged loses nothing of any source and makes nothing up: neither  *)
(* a key nor a field, in deep merges of any number of sources, nor an item   *)
(* of a group array, unless arrays are to be replaced.  What two or more     *)
(* sources lose is @RAW and the schema, and nothing else; of two values of   *)
(* an entry, the arrays of simple properties among them, one stays whole.    *)
MergedIsKept ==
  Success =>
    /\ DOMAIN merged = {k \in UNION {KeysOf(s) : s \in Source} : Merges(k)}
    /\ \A k \in DOMAIN merged :
         CASE k \in Group -> FieldsAreKept(k, Holders(k))
           [] k \in Array -> ItemsAreKept(k, Holders(k))
           [] OTHER       -> OneIsKept(k, Holders(k))

Repeats(a) == \E i, j \in DOMAIN a : i # j /\ Equal(a[i], a[j])

(* "Exact-duplicate primitive values removed": what no source repeats is not *)
(* repeated in the result of any number of them.                             *)
DuplicatesAreRemoved ==
  array_strategy = "ConcatDedup" =>
    \A k \in Array \cap DOMAIN merged :
      (\A s \in Holders(k) : ~Repeats(sources[s][k])) => ~Repeats(merged[k].content)

Listed(k)      == \E c \in conflicts : c.path = <<k>>
Disagree(k, S) == \E s, t \in S : s < t /\ ~Same(k, sources[s][k], sources[t][k])

(* A key is listed as a conflict exactly if it is merged and two sources     *)
(* disagree on it, also when the strategy refuses to pick a winner (which is *)
(* what `mdix diff` reads); and the merge fails exactly if it is to throw    *)
(* and a key is listed.  (A key that the sources agree on is no error, as    *)
(* the comment on ThrowOnConflict has it, merge.rs:70.)                      *)
ConflictsAreDisagreements ==
  Finished =>
    /\ \A k \in Key : Listed(k) <=> Merges(k) /\ Disagree(k, Holders(k))
    /\ errors <=> strategy = "ThrowOnConflict" /\ \E k \in Key : Listed(k)
=============================================================================
