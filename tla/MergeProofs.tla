------------------------------ MODULE MergeProofs ------------------------------
(***************************************************************************)
(* Proofs about Merge, for any number of sources of any size: the best     *)
(* source wins each entry and each field of a group, wherever BestSource-  *)
(* Wins says so; of what is merged nothing is lost, made up or repeated;   *)
(* and what is listed as a conflict is what the sources disagree about.    *)
(***************************************************************************)
EXTENDS Merge, SequenceTheorems, WellFoundedInduction, TLAPS

\* The sources that are merged already, as far as a key, or a field, goes.
SoFar(k)         == {s \in Holders(k) : s < src \/ (s = src /\ k \notin left)}
SoFarField(k, f) == {s \in SoFar(k) : f \in DOMAIN sources[s][k]}

(* The inputs, and where the merger is. *)
InputInv ==
  /\ \A s \in Source : weight[s] \in Int
  /\ strategy \in Strategies
  /\ src \in 1..(NumSources + 1) /\ left \subseteq KeysOf(src)

(* A key that was seen has a slot, if it is merged at all, put down to a     *)
(* source that was.                                                          *)
SlotInv(k) ==
  /\ k \in DOMAIN merged <=> Merges(k) /\ SoFar(k) # {}
  /\ k \in DOMAIN merged => merged[k].src \in SoFar(k)

(* BestSourceWins, of the sources so far. *)
EntryInv(k) ==
  k \in Entry /\ k \in DOMAIN merged /\ Simple(k) =>
    \A s \in Best(SoFar(k)) : merged[k].content = sources[s][k]

GroupInv(k) ==
  k \in Group /\ k \in DOMAIN merged =>
    /\ \A f : f \in DOMAIN merged[k].content => SoFarField(k, f) # {}
    /\ Simple(k) => \A f : \A s \in Best(SoFarField(k, f)) :
         f \in DOMAIN merged[k].content /\ merged[k].content[f] = sources[s][k][f]

KeyInv(k) == SlotInv(k) /\ (~errors => EntryInv(k) /\ GroupInv(k))

IInv == InputInv /\ \A k \in Key : KeyInv(k)

-----------------------------------------------------------------------------
(* Of two sources at most one is to win. *)
LEMMA BeatsIsStrict ==
  ASSUME InputInv, NEW s \in Source, NEW t \in Source, s # t
  PROVE  ~(Beats(s, t) /\ Beats(t, s))
BY DEF InputInv, Beats, Source

(* The challenger wins if it beats the one that the slot is put down to.     *)
LEMMA WinnerBeats ==
  ASSUME InputInv, NEW u \in Source, NEW e \in Source, e < u
  PROVE  PickWinner(u, e) = IF Beats(u, e) THEN u ELSE e
BY DEF InputInv, Beats, PickWinner, Lower, Higher, Source

(* Under the condition of BestSourceWins it does not matter which of the     *)
(* sources so far the slot is put down to.                                   *)
LEMMA SimpleDecides ==
  ASSUME InputInv, NEW k, Simple(k), NEW u \in Holders(k),
         NEW e \in Holders(k), NEW s \in Holders(k), e < u, s < u
  PROVE  Beats(u, e) <=> Beats(u, s)
<1>1. u \in Source /\ e \in Source /\ s \in Source
  BY DEF Holders
<1>2. u # e /\ u # s
  BY <1>1 DEF Source
<1>3. CASE Falling
  BY <1>1, <1>2, <1>3, BeatsIsStrict DEF Falling
<1>4. CASE Rising
  BY <1>1, <1>4 DEF Rising
<1>5. CASE \A a, b, c \in Holders(k) : a = b \/ a = c \/ b = c
  BY <1>2, <1>5
<1> QED
  BY <1>3, <1>4, <1>5 DEF Simple

(* A step with a key brings the current source to those so far.              *)
LEMMA TakeFacts ==
  ASSUME IInv, NEW k \in Key, Take(k)
  PROVE  /\ InputInv'
         /\ src \in Holders(k) /\ src \in Source
         /\ \A s \in SoFar(k) : s \in Holders(k) /\ s \in Source /\ s < src
         /\ SoFar(k)' = SoFar(k) \cup {src}
         /\ \A j \in Key \ {k} : SoFar(j)' = SoFar(j)
         /\ \A j : Simple(j)' = Simple(j)
<1>1. left' = left \ {k} /\ src' = src /\ k \in left
  BY DEF Take
<1>2. UNCHANGED <<sources, weight, strategy, array_strategy>>
  BY DEF Take, inputs
<1>3. InputInv'
  BY <1>1, <1>2 DEF IInv, InputInv, KeysOf
<1>4. src \in Source /\ k \in DOMAIN sources[src]
  BY <1>1 DEF IInv, InputInv, KeysOf
<1>5. \A s \in SoFar(k) : s \in Holders(k) /\ s \in Source /\ s < src
  BY <1>1 DEF SoFar, Holders
<1>6. \A j : Holders(j)' = Holders(j)
  BY <1>2 DEF Holders
<1>7. SoFar(k)' = SoFar(k) \cup {src}
  BY <1>1, <1>4, <1>6 DEF SoFar, Holders, Source
<1>8. \A j \in Key \ {k} : SoFar(j)' = SoFar(j)
  BY <1>1, <1>6 DEF SoFar
<1>9. \A j : Simple(j)' = Simple(j)
  BY <1>2, <1>6 DEF Simple, Falling, Rising, Beats
<1> QED
  BY <1>3, <1>4, <1>5, <1>7, <1>8, <1>9 DEF Holders

(* The other keys keep their slots. *)
LEMMA OtherKeys ==
  ASSUME IInv, NEW k \in Key, Take(k), errors => errors',
         NEW j \in Key, j # k, j \in DOMAIN merged' <=> j \in DOMAIN merged,
         j \in DOMAIN merged => merged'[j] = merged[j]
  PROVE  KeyInv(j)'
<1>1. SoFar(j)' = SoFar(j) /\ Simple(j)' = Simple(j)
  BY TakeFacts
<1>2. UNCHANGED <<sources, weight, strategy>>
  BY DEF Take, inputs
<1>3. \A f : SoFarField(j, f)' = SoFarField(j, f)
  BY <1>1, <1>2 DEF SoFarField
<1>4. \A S : Best(S)' = Best(S)
  BY <1>2 DEF Best, Beats
<1>5. KeyInv(j)
  BY DEF IInv
<1> QED
  BY <1>1, <1>2, <1>3, <1>4, <1>5 DEF KeyInv, SlotInv, EntryInv, GroupInv

-----------------------------------------------------------------------------
(* One lemma for each action. *)

(* The first source of a key is the best one so far. *)
LEMMA InsertKeeps ==
  ASSUME IInv, NEW k \in Key, Insert(k)
  PROVE  IInv'
<1>1. Take(k) /\ Merges(k) /\ k \notin DOMAIN merged
  BY DEF Insert
<1>2. SoFar(k)' = {src} /\ src \in Source /\ k \in DOMAIN sources[src]
  BY <1>1, TakeFacts DEF IInv, KeyInv, SlotInv, Holders
<1>3. UNCHANGED <<sources, src, errors>>
  BY DEF Insert, Take, inputs
<1>4. DOMAIN merged' = DOMAIN merged \cup {k}
  BY DEF Insert, Put
<1>5. merged'[k] = Slot(src, sources[src][k])
  BY <1>4 DEF Insert, Put
<1>6. \A j \in Key \ {k} : /\ j \in DOMAIN merged' <=> j \in DOMAIN merged
                           /\ j \in DOMAIN merged => merged'[j] = merged[j]
  BY <1>4 DEF Insert, Put
<1>7. \A j \in Key \ {k} : KeyInv(j)'
  BY <1>1, <1>3, <1>6, OtherKeys
<1>8. SlotInv(k)'
  BY <1>1, <1>2, <1>3, <1>4, <1>5 DEF SlotInv, Slot, Merges
<1>9. EntryInv(k)'
  BY <1>2, <1>3, <1>5 DEF EntryInv, Slot, Best
<1>10. GroupInv(k)'
  BY <1>2, <1>3, <1>5 DEF GroupInv, Slot, Best, SoFarField
<1> QED
  BY <1>1, <1>7, <1>8, <1>9, <1>10, TakeFacts DEF IInv, KeyInv

(* What is dropped has no slot. *)
LEMMA DropKeeps ==
  ASSUME IInv, NEW k \in Key, Drop(k)
  PROVE  IInv'
<1>1. Take(k) /\ ~Merges(k) /\ UNCHANGED <<merged, errors>>
  BY DEF Drop
<1>2. k \notin DOMAIN merged
  BY <1>1 DEF IInv, KeyInv, SlotInv
<1>3. KeyInv(k)'
  BY <1>1, <1>2 DEF KeyInv, SlotInv, EntryInv, GroupInv, Merges
<1>4. \A j \in Key \ {k} : KeyInv(j)'
  BY <1>1, OtherKeys
<1> QED
  BY <1>1, <1>3, <1>4, TakeFacts DEF IInv

(* What is skipped is what the slot has already. *)
LEMMA SkipKeeps ==
  ASSUME IInv, NEW k \in Key, Skip(k)
  PROVE  IInv'
<1>1. Take(k) /\ k \in DOMAIN merged /\ Same(k, merged[k].content, sources[src][k])
  BY DEF Skip, Agrees
<1>2. UNCHANGED <<sources, weight, strategy, src, merged, errors>>
  BY DEF Skip, Take, inputs
<1>3. \A j \in Key \ {k} : KeyInv(j)'
  BY <1>1, <1>2, OtherKeys
<1>4. SlotInv(k) /\ (~errors => EntryInv(k) /\ GroupInv(k))
  BY DEF IInv, KeyInv
<1>5. SoFar(k)' = SoFar(k) \cup {src} /\ Simple(k)' = Simple(k)
  BY <1>1, TakeFacts
<1>6. SlotInv(k)'
  BY <1>1, <1>2, <1>4, <1>5 DEF SlotInv
<1>7. \A S : Best(S)' = Best(S)
  BY <1>2 DEF Best, Beats
<1>8. ASSUME ~errors PROVE EntryInv(k)'
  <2> SUFFICES ASSUME k \in Entry, Simple(k), NEW s \in Best(SoFar(k) \cup {src})
               PROVE  merged[k].content = sources[s][k]
    BY <1>2, <1>5, <1>7 DEF EntryInv
  <2>1. CASE s = src
    BY <1>1, <2>1, MergeAssumption DEF Same, Equal
  <2>2. CASE s \in Best(SoFar(k))
    BY <1>1, <1>4, <1>8, <2>2 DEF EntryInv
  <2> QED
    BY <2>1, <2>2 DEF Best
<1>9. ASSUME ~errors PROVE GroupInv(k)'
  <2>1. \A f : SoFarField(k, f)' = SoFarField(k, f) \cup {s \in {src} : f \in DOMAIN sources[s][k]}
    BY <1>2, <1>5 DEF SoFarField
  <2>2. ASSUME k \in Group, Simple(k), NEW f, NEW s \in Best(SoFarField(k, f)')
        PROVE  f \in DOMAIN merged[k].content /\ merged[k].content[f] = sources[s][k][f]
    <3>1. CASE s = src
      <4>1. f \in DOMAIN sources[src][k]
        BY <2>1, <2>2, <3>1 DEF Best, SoFarField
      <4>2. SameFields(merged[k].content, sources[src][k])
        BY <1>1, <2>2, MergeAssumption DEF Same
      <4> QED
        BY <3>1, <4>1, <4>2 DEF SameFields, Equal
    <3>2. CASE s \in Best(SoFarField(k, f))
      BY <1>1, <1>4, <1>9, <2>2, <3>2 DEF GroupInv
    <3> QED
      BY <2>1, <2>2, <3>1, <3>2 DEF Best
  <2> QED
    BY <1>1, <1>2, <1>4, <1>5, <1>7, <1>9, <2>1, <2>2 DEF GroupInv
<1> QED
  BY <1>1, <1>2, <1>3, <1>6, <1>8, <1>9, TakeFacts DEF IInv, KeyInv

(* A merge that fails has no result to speak of. *)
LEMMA RefuseKeeps ==
  ASSUME IInv, NEW k \in Key, Refuse(k)
  PROVE  IInv'
<1>1. Take(k) /\ k \in DOMAIN merged /\ errors' /\ merged' = merged
  BY DEF Refuse, Disagrees
<1>2. \A j \in Key \ {k} : KeyInv(j)'
  BY <1>1, OtherKeys
<1>3. SlotInv(k)'
  BY <1>1, TakeFacts DEF IInv, KeyInv, SlotInv
<1> QED
  BY <1>1, <1>2, <1>3, TakeFacts DEF IInv, KeyInv

(* A conflict: the winner is the best of all so far, by SimpleDecides, and   *)
(* what only one of the two has comes from it.                               *)
LEMMA ResolveKeeps ==
  ASSUME IInv, NEW k \in Key, Resolve(k)
  PROVE  IInv'
<1> DEFINE e     == merged[k].src
           here  == merged[k].content
           there == sources[src][k]
<1>1. Take(k) /\ k \in DOMAIN merged
  BY DEF Resolve, Disagrees
<1>2. UNCHANGED <<sources, weight, strategy, src, errors>>
  BY DEF Resolve, Take, inputs
<1>3. SlotInv(k) /\ (~errors => EntryInv(k) /\ GroupInv(k))
  BY DEF IInv, KeyInv
<1>4. /\ src \in Holders(k) /\ src \in Source
      /\ \A s \in SoFar(k) : s \in Holders(k) /\ s \in Source /\ s < src
      /\ SoFar(k)' = SoFar(k) \cup {src} /\ Simple(k)' = Simple(k)
  BY <1>1, TakeFacts
<1>5. e \in SoFar(k) /\ e \in Holders(k) /\ e \in Source /\ e < src
  BY <1>1, <1>3, <1>4 DEF SlotInv
<1> DEFINE wins   == Beats(src, e)
           winner == PickWinner(src, e)
           both   == IF winner = src THEN Combine(k, there, here) ELSE Combine(k, here, there)
<1>6. winner = IF wins THEN src ELSE e
  BY <1>4, <1>5, WinnerBeats DEF IInv
<1>7. Put(k, Slot(winner, both))
  BY DEF Resolve
<1>8. DOMAIN merged' = DOMAIN merged
  BY <1>1, <1>7 DEF Put
<1>9. merged'[k] = Slot(winner, both)
  BY <1>1, <1>7 DEF Put
<1>10. \A j \in Key \ {k} : j \in DOMAIN merged => merged'[j] = merged[j]
  BY <1>7 DEF Put
<1>11. \A j \in Key \ {k} : KeyInv(j)'
  BY <1>1, <1>2, <1>8, <1>10, OtherKeys
<1>12. merged'[k].src \in {src, e} /\ merged'[k].content = both
  BY <1>6, <1>9 DEF Slot
<1>13. SlotInv(k)'
  BY <1>1, <1>3, <1>4, <1>5, <1>8, <1>12 DEF SlotInv
<1>14. src # e
  BY <1>5 DEF Source
<1>15. both = IF wins THEN Combine(k, there, here) ELSE Combine(k, here, there)
  BY <1>6, <1>14
<1>16. ASSUME Simple(k), NEW s \in SoFar(k)
       PROVE  (Beats(src, s) <=> wins) /\ ~(Beats(src, s) /\ Beats(s, src)) /\ s # src
  BY <1>4, <1>5, <1>16, SimpleDecides, BeatsIsStrict DEF IInv, Source
<1>17. \A S : Best(S)' = Best(S)
  BY <1>2 DEF Best, Beats
<1>18. ASSUME ~errors PROVE EntryInv(k)'
  <2> SUFFICES ASSUME k \in Entry, Simple(k), NEW s \in Best(SoFar(k) \cup {src})
               PROVE  both = sources[s][k]
    BY <1>2, <1>4, <1>12, <1>17 DEF EntryInv
  <2>1. both = IF wins THEN there ELSE here
    BY <1>15, MergeAssumption DEF Combine
  <2>2. CASE s = src
    <3>1. Beats(src, e)
      BY <1>5, <1>14, <2>2 DEF Best
    <3> QED
      BY <2>1, <2>2, <3>1
  <2>3. CASE s \in SoFar(k)
    <3>1. Beats(s, src) /\ s \in Best(SoFar(k))
      BY <1>16, <2>3 DEF Best
    <3>2. ~wins
      BY <1>16, <2>3, <3>1
    <3>3. here = sources[s][k]
      BY <1>1, <1>3, <1>18, <3>1 DEF EntryInv
    <3> QED
      BY <2>1, <3>2, <3>3
  <2> QED
    BY <2>2, <2>3 DEF Best
<1>19. ASSUME ~errors PROVE GroupInv(k)'
  <2> SUFFICES ASSUME k \in Group
               PROVE  GroupInv(k)'
    BY DEF GroupInv
  <2>1. both = IF wins THEN MergeFields(there, here) ELSE MergeFields(here, there)
    BY <1>15 DEF Combine
  <2>2. /\ DOMAIN both = DOMAIN here \cup DOMAIN there
        /\ \A f \in DOMAIN here \ DOMAIN there : both[f] = here[f]
        /\ \A f \in DOMAIN there \ DOMAIN here : both[f] = there[f]
        /\ \A f \in DOMAIN here \cap DOMAIN there : both[f] = IF wins THEN there[f] ELSE here[f]
    BY <2>1 DEF MergeFields
  <2>3. \A f : SoFarField(k, f)' = SoFarField(k, f) \cup {s \in {src} : f \in DOMAIN there}
    BY <1>2, <1>4 DEF SoFarField
  <2>4. \A f : f \in DOMAIN here => SoFarField(k, f) # {}
    BY <1>1, <1>3, <1>19 DEF GroupInv
  <2>5. \A f : f \in DOMAIN both => SoFarField(k, f)' # {}
    BY SMTT(20), <2>2, <2>3, <2>4
  <2>6. ASSUME Simple(k), NEW f, NEW s \in Best(SoFarField(k, f)')
        PROVE  f \in DOMAIN both /\ both[f] = sources[s][k][f]
    <3>1. CASE s = src
      <4>1. f \in DOMAIN there
        BY <1>4, <1>16, <2>3, <2>6, <3>1 DEF Best, SoFarField
      <4>2. CASE f \notin DOMAIN here
        BY <2>2, <3>1, <4>1, <4>2
      <4>3. CASE f \in DOMAIN here
        <5>1. PICK t \in SoFarField(k, f) : TRUE
          BY <2>4, <4>3
        <5>2. t \in SoFar(k) /\ t # src /\ t \in SoFarField(k, f)'
          BY <1>16, <2>3, <2>6, <5>1 DEF SoFarField
        <5>3. Beats(src, t)
          BY <3>1, <5>2 DEF Best
        <5>4. wins
          BY <1>16, <2>6, <5>2, <5>3
        <5> QED
          BY <2>2, <3>1, <4>1, <4>3, <5>4
      <4> QED
        BY <4>2, <4>3
    <3>2. CASE s \in SoFarField(k, f)
      <4>1. s \in SoFar(k) /\ s \in Best(SoFarField(k, f))
        BY <2>3, <3>2 DEF Best, SoFarField
      <4>2. f \in DOMAIN here /\ here[f] = sources[s][k][f]
        BY <1>1, <1>3, <1>19, <2>6, <4>1 DEF GroupInv
      <4>3. CASE f \notin DOMAIN there
        BY <2>2, <4>2, <4>3
      <4>4. CASE f \in DOMAIN there
        <5>1. Beats(s, src)
          BY <1>16, <2>3, <2>6, <4>1, <4>4 DEF Best
        <5>2. ~wins
          BY <1>16, <2>6, <4>1, <5>1
        <5> QED
          BY <2>2, <4>2, <4>4, <5>2
      <4> QED
        BY <4>3, <4>4
    <3> QED
      BY <2>3, <3>1, <3>2 DEF Best
  <2> QED
    BY <1>2, <1>4, <1>12, <1>17, <2>5, <2>6 DEF GroupInv
<1>20. InputInv'
  BY <1>1, TakeFacts
<1> QED
  BY <1>2, <1>11, <1>13, <1>18, <1>19, <1>20 DEF IInv, KeyInv

(* The next source has none of its keys merged. *)
LEMMA NextSourceSoFar ==
  ASSUME IInv, NextSource
  PROVE  \A k : SoFar(k)' = SoFar(k)
<1> SUFFICES ASSUME NEW k PROVE SoFar(k)' = SoFar(k)
  OBVIOUS
<1>1. /\ src \in Source /\ src' = src + 1 /\ left = {} /\ left' = KeysOf(src + 1)
      /\ sources' = sources
  BY DEF NextSource, inputs
<1>2. Holders(k)' = Holders(k) /\ \A s \in Holders(k) : s \in Int /\ k \in KeysOf(s)
  BY <1>1 DEF Holders, Source, KeysOf
<1>3. \A s \in Holders(k) :
        (s < src' \/ (s = src' /\ k \notin left')) <=> (s < src \/ (s = src /\ k \notin left))
  BY <1>1, <1>2 DEF Source
<1> QED
  BY <1>2, <1>3 DEF SoFar

(* The source changes, and nothing that is merged. *)
LEMMA NextSourceKeeps ==
  ASSUME IInv, NextSource
  PROVE  IInv'
<1>1. src \in Source /\ src' = src + 1 /\ left = {} /\ left' = KeysOf(src + 1)
  BY DEF NextSource
<1>2. UNCHANGED <<sources, weight, strategy, merged, errors>>
  BY DEF NextSource, inputs
<1>3. InputInv'
  <2>1. \A s \in Source : weight'[s] \in Int
    BY <1>2 DEF IInv, InputInv
  <2>2. src' \in 1..(NumSources + 1)
    BY <1>1, MergeAssumption DEF Source
  <2>3. left' \subseteq KeysOf(src)'
    BY <1>1, <1>2 DEF KeysOf
  <2> QED
    BY <1>2, <2>1, <2>2, <2>3 DEF IInv, InputInv
<1>4. \A k : SoFar(k)' = SoFar(k)
  BY NextSourceSoFar
<1>5. \A k : Simple(k)' = Simple(k)
  BY <1>2 DEF Simple, Falling, Rising, Beats, Holders
<1>6. \A k, f : SoFarField(k, f)' = SoFarField(k, f)
  BY <1>2, <1>4 DEF SoFarField
<1>7. \A S : Best(S)' = Best(S)
  BY <1>2 DEF Best, Beats
<1>8. ASSUME NEW k \in Key PROVE KeyInv(k)'
  BY <1>2, <1>4, <1>5, <1>6, <1>7 DEF IInv, KeyInv, SlotInv, EntryInv, GroupInv
<1> QED
  BY <1>3, <1>8 DEF IInv

-----------------------------------------------------------------------------
LEMMA InitHolds == Init => IInv
<1> SUFFICES ASSUME Init PROVE IInv
  OBVIOUS
<1>1. InputInv
  <2>1. Weights \subseteq Int /\ NumSources \in Nat
    BY MergeAssumption
  <2>2. \A s \in Source : weight[s] \in Int
    BY <2>1 DEF Init
  <2>3. src \in 1..(NumSources + 1) /\ left \subseteq KeysOf(src)
    BY <2>1 DEF Init
  <2> QED
    BY <2>2, <2>3 DEF Init, InputInv
<1>2. \A k : SoFar(k) = {}
  BY DEF Init, SoFar, Holders, KeysOf, Source
<1>3. DOMAIN merged = {}
  BY DEF Init
<1> QED
  BY <1>1, <1>2, <1>3 DEF IInv, KeyInv, SlotInv, EntryInv, GroupInv

LEMMA StutterKeeps == IInv /\ UNCHANGED vars => IInv'
<1> SUFFICES ASSUME IInv, UNCHANGED vars PROVE IInv'
  OBVIOUS
<1>1. UNCHANGED <<sources, weight, strategy, src, left, merged, errors>>
  BY DEF vars, inputs
<1>2. InputInv'
  BY <1>1 DEF IInv, InputInv, KeysOf
<1>3. \A k : SoFar(k)' = SoFar(k) /\ Simple(k)' = Simple(k)
  BY <1>1 DEF SoFar, Holders, Simple, Falling, Rising, Beats
<1>4. \A k, f : SoFarField(k, f)' = SoFarField(k, f)
  BY <1>1, <1>3 DEF SoFarField
<1>5. \A S : Best(S)' = Best(S)
  BY <1>1 DEF Best, Beats
<1> QED
  BY <1>1, <1>2, <1>3, <1>4, <1>5 DEF IInv, KeyInv, SlotInv, EntryInv, GroupInv

(* The invariant is inductive. *)
THEOREM MergeInvariant == Spec => []IInv
<1>1. IInv /\ [Next]_vars => IInv'
  BY InsertKeeps, DropKeeps, SkipKeeps, RefuseKeeps, ResolveKeeps, NextSourceKeeps, StutterKeeps DEF Next
<1> QED
  BY <1>1, InitHolds, PTL DEF Spec

(* Everything but the sections that several sources lose is merged. *)
LEMMA MostAreMerged ==
  ASSUME NEW k \in Entry \cup Group \cup Array \cup Module
  PROVE  Merges(k)
BY MergeAssumption DEF Merges

(* The best source wins every entry and every field of a group: of any       *)
(* number of sources in the order of their rank, or in the opposite order,   *)
(* and whenever no more than two have the key.                               *)
THEOREM BestWins == Spec => []BestSourceWins
<1>1. ASSUME IInv PROVE BestSourceWins
  <2> SUFFICES ASSUME Success PROVE BestSourceWins
    BY DEF BestSourceWins
  <2>1. \A k : SoFar(k) = Holders(k)
    BY MergeAssumption DEF Success, Finished, SoFar, Holders, Source
  <2>2. \A k, f : SoFarField(k, f) = FieldHolders(k, f)
    BY <2>1 DEF SoFarField, FieldHolders
  <2>3. \A k \in Key : KeyInv(k) /\ ~errors
    BY <1>1 DEF IInv, Success
  <2>4. ASSUME NEW k \in Entry, Simple(k) PROVE BestEntry(k)
    <3>1. \A s \in Best(Holders(k)) : k \in DOMAIN merged
      BY <2>1, <2>3, MostAreMerged DEF Key, KeyInv, SlotInv, Best
    <3> QED
      BY <2>1, <2>3, <2>4, <3>1 DEF Key, KeyInv, EntryInv, BestEntry
  <2>5. ASSUME NEW k \in Group, NEW f \in Field, Simple(k) PROVE BestField(k, f)
    <3>1. \A s \in Best(FieldHolders(k, f)) : k \in DOMAIN merged
      BY <2>1, <2>3, MostAreMerged DEF Key, KeyInv, SlotInv, Best, FieldHolders
    <3> QED
      BY <2>2, <2>3, <2>5, <3>1 DEF Key, KeyInv, GroupInv, BestField
  <2> QED
    BY <2>4, <2>5 DEF BestSourceWins
<1> QED
  BY <1>1, MergeInvariant, PTL
-----------------------------------------------------------------------------
(* The contents: what is in the result so far, of the sources so far.        *)
ContentInv(k) ==
  k \in DOMAIN merged =>
    /\ merged[k].content \in Contents(k)
    /\ ~errors => /\ k \in Entry => OneIsKept(k, SoFar(k))
                  /\ k \in Group => FieldsAreKept(k, SoFar(k))
                  /\ k \in Array => ItemsAreKept(k, SoFar(k))

DistinctInv(k) ==
  /\ k \in Array /\ k \in DOMAIN merged /\ array_strategy = "ConcatDedup"
  /\ \A s \in SoFar(k) : ~Repeats(sources[s][k])
  => ~Repeats(merged[k].content)

(* As long as nothing is listed, the sources so far agree with what is in    *)
(* the result, which is one source's.                                        *)
ConflictInv(k) ==
  /\ Listed(k) <=> Merges(k) /\ Disagree(k, SoFar(k))
  /\ k \in DOMAIN merged /\ ~Listed(k) => merged[k].content = sources[merged[k].src][k]

(* The merge fails by what is listed, and only if it is to throw.            *)
ErrorInv == errors <=> strategy = "ThrowOnConflict" /\ \E k \in Key : Listed(k)

DataInv ==
  IInv /\ TypeOK /\ ErrorInv /\ \A k \in Key : ContentInv(k) /\ DistinctInv(k) /\ ConflictInv(k)

(* A set of numbers that is not empty has a least one: with this, induction. *)
LEMMA LeastNumber ==
  ASSUME NEW T, T \subseteq Nat, T # {}
  PROVE  \E x \in T : \A y \in T : x <= y
<1>1. PICK R : R = {ss \in Nat \X Nat : ss[1] < ss[2]} /\ IsWellFoundedOn(R, Nat)
  BY NatLessThanWellFounded DEF OpToRel
<1>2. PICK x \in T : \A y \in T : ~(<<y, x>> \in R)
  BY <1>1, WFMin
<1>3. ASSUME NEW y \in T PROVE x <= y
  <2>1. x \in Nat /\ y \in Nat
    OBVIOUS
  <2>2. y < x => <<y, x>> \in R
    BY <1>1, <2>1
  <2> QED
    BY <1>2, <2>1, <2>2
<1> QED
  BY <1>3

(* What holds of 0, and of n if it holds of n - 1, holds up to any number.   *)
LEMMA Induction ==
  ASSUME NEW n \in Nat, NEW T, 0 \in T, \A i \in 1..n : i - 1 \in T => i \in T
  PROVE  \A i \in 0..n : i \in T
<1>1. PICK out : out = {i \in 0..n : i \notin T}
  OBVIOUS
<1>2. ASSUME out # {} PROVE FALSE
  <2>1. out \subseteq Nat
    BY <1>1
  <2>2. PICK x \in out : \A y \in out : x <= y
    BY <1>2, <2>1, LeastNumber
  <2>3. x \in 1..n /\ x - 1 \in 0..n /\ ~(x <= x - 1)
    BY <1>1
  <2> QED
    BY <1>1, <2>2, <2>3
<1> QED
  BY <1>1, <1>2

(* One more item: it is there, with the others, and once if they are.        *)
LEMMA WithItemFacts ==
  ASSUME NEW a \in Seq(Value), NEW v \in Value
  PROVE  /\ WithItem(a, v) \in Seq(Value)
         /\ ItemsOf(WithItem(a, v)) = ItemsOf(a) \cup {v}
         /\ ~Repeats(a) => ~Repeats(WithItem(a, v))
<1>1. CASE \E i \in DOMAIN a : Equal(a[i], v)
  BY <1>1 DEF WithItem, ItemsOf, Equal
<1>2. CASE ~\E i \in DOMAIN a : Equal(a[i], v)
  <2>1. PICK n \in Nat : n = Len(a) /\ DOMAIN a = 1..n
    BY LenProperties
  <2>2. PICK b : b = Append(a, v)
    OBVIOUS
  <2>3. /\ b \in Seq(Value) /\ Len(b) = n + 1 /\ b[n + 1] = v
        /\ \A i \in 1..n : b[i] = a[i]
    BY <2>1, <2>2
  <2>4. DOMAIN b = 1..(n + 1)
    BY <2>3, LenProperties
  <2>5. ItemsOf(b) = ItemsOf(a) \cup {v}
    <3>1. \A i \in 1..(n + 1) : i = n + 1 \/ i \in 1..n
      BY <2>1
    <3>2. n + 1 \in 1..(n + 1) /\ \A i \in 1..n : i \in 1..(n + 1)
      BY <2>1
    <3> QED
      BY <2>1, <2>3, <2>4, <3>1, <3>2 DEF ItemsOf
  <2>6. ASSUME Repeats(b) PROVE Repeats(a)
    <3>1. PICK i \in 1..(n + 1), j \in 1..(n + 1) : i # j /\ Equal(b[i], b[j])
      BY <2>4, <2>6 DEF Repeats
    <3>2. CASE i \in 1..n /\ j \in 1..n
      BY <2>1, <2>3, <3>1, <3>2 DEF Repeats
    <3>3. CASE i = n + 1 /\ j \in 1..n
      BY <1>2, <2>1, <2>3, <3>1, <3>3 DEF Equal
    <3>4. CASE i \in 1..n /\ j = n + 1
      BY <1>2, <2>1, <2>3, <3>1, <3>4
    <3> QED
      BY <2>1, <3>1, <3>2, <3>3, <3>4
  <2> QED
    BY <1>2, <2>2, <2>3, <2>5, <2>6 DEF WithItem
<1> QED
  BY <1>1, <1>2

(* The loop over the loser's items: there is such a function of the number   *)
(* of items that were looked at, so that Deduped is what it says.            *)
LEMMA DedupedIs ==
  ASSUME NEW a \in Seq(Value), NEW b \in Seq(Value)
  PROVE  \E g \in [0..Len(b) -> Seq(Value)] :
           /\ Deduped(a, b) = g[Len(b)] /\ g[0] = a
           /\ \A n \in 1..Len(b) : g[n] = WithItem(g[n - 1], b[n])
<1> DEFINE Loop(g, m) == /\ g \in [0..m -> Seq(Value)] /\ g[0] = a
                         /\ \A n \in 1..m : g[n] = WithItem(g[n - 1], b[n])
           IsIt(g) == g = [n \in 0..Len(b) |-> IF n = 0 THEN a ELSE WithItem(g[n - 1], b[n])]
<1>1. PICK len \in Nat : len = Len(b) /\ \A n \in 1..len : b[n] \in Value
  BY LenProperties, ElementOfSeq
<1>2. \A m \in 0..len : m \in {n \in 0..len : \E g : Loop(g, n)}
  <2> DEFINE T == {n \in 0..len : \E g : Loop(g, n)}
  <2>1. 0 \in T
    <3>1. Loop([n \in 0..0 |-> a], 0)
      OBVIOUS
    <3> HIDE DEF Loop
    <3> QED
      BY <3>1
  <2>2. ASSUME NEW m \in 1..len, m - 1 \in T PROVE m \in T
    <3>1. PICK g : Loop(g, m - 1)
      <4> HIDE DEF Loop
      <4> QED
        BY <2>2
    <3>2. g[m - 1] \in Seq(Value) /\ b[m] \in Value
      BY <1>1, <3>1
    <3>3. WithItem(g[m - 1], b[m]) \in Seq(Value)
      BY <3>2, WithItemFacts
    <3>4. PICK h : h = [n \in 0..m |-> IF n = m THEN WithItem(g[m - 1], b[m]) ELSE g[n]]
      OBVIOUS
    <3>5. \A n \in 0..m : n = m \/ n \in 0..(m - 1)
      OBVIOUS
    <3>6. h \in [0..m -> Seq(Value)]
      BY <3>1, <3>3, <3>4, <3>5
    <3>7. h[0] = a /\ \A n \in 1..m : h[n] = WithItem(h[n - 1], b[n])
      <4>1. \A n \in 0..(m - 1) : h[n] = g[n] /\ n \in 0..m
        BY <3>4
      <4>2. 0 \in 0..(m - 1) /\ m - 1 \in 0..(m - 1)
        OBVIOUS
      <4>3. ASSUME NEW n \in 1..m, n # m PROVE h[n] = WithItem(h[n - 1], b[n])
        <5>1. n \in 1..(m - 1) /\ n \in 0..(m - 1) /\ n - 1 \in 0..(m - 1)
          BY <4>3
        <5> QED
          BY <3>1, <4>1, <5>1
      <4> QED
        BY <3>1, <3>4, <4>1, <4>2, <4>3
    <3>8. Loop(h, m)
      BY <3>6, <3>7
    <3> HIDE DEF Loop
    <3> QED
      BY <3>8
  <2> HIDE DEF T
  <2>3. \A m \in 0..len : m \in T
    BY <2>1, <2>2, Induction
  <2> QED
    BY <2>3 DEF T
<1>3. PICK g : Loop(g, len)
  <2> HIDE DEF Loop
  <2> QED
    BY <1>2
<1>4. IsIt(g)
  BY <1>1, <1>3
<1>5. PICK h : h = CHOOSE x : IsIt(x)
  OBVIOUS
<1>6. IsIt(h)
  <2> HIDE DEF IsIt
  <2> QED
    BY <1>4, <1>5
<1>7. Deduped(a, b) = h[len]
  BY <1>1, <1>5 DEF Deduped
<1>8. h[0] = a /\ \A n \in 1..len : h[n] = WithItem(h[n - 1], b[n])
  BY <1>1, <1>6
<1>9. h \in [0..len -> Seq(Value)]
  <2> DEFINE T == {n \in 0..len : h[n] \in Seq(Value)}
  <2>1. ASSUME NEW n \in 1..len, h[n - 1] \in Seq(Value) PROVE h[n] \in Seq(Value)
    <3>1. b[n] \in Value /\ h[n] = WithItem(h[n - 1], b[n])
      BY <1>1, <1>8
    <3> QED
      BY <2>1, <3>1, WithItemFacts
  <2>2. 0 \in T /\ \A n \in 1..len : n - 1 \in T => n \in T
    BY <1>8, <2>1
  <2> HIDE DEF T
  <2>3. \A n \in 0..len : n \in T
    BY <2>2, Induction
  <2>4. \A n \in 0..len : h[n] \in Seq(Value)
    BY <2>3 DEF T
  <2>5. h = [n \in 0..len |-> h[n]]
    BY <1>1, <1>6
  <2> QED
    BY <2>4, <2>5
<1> QED
  BY <1>1, <1>7, <1>8, <1>9
(* What the result of the loop has, whatever the two arrays are.             *)
LEMMA DedupedFacts ==
  ASSUME NEW a \in Seq(Value), NEW b \in Seq(Value)
  PROVE  /\ Deduped(a, b) \in Seq(Value)
         /\ ItemsOf(Deduped(a, b)) = ItemsOf(a) \cup ItemsOf(b)
         /\ ~Repeats(a) => ~Repeats(Deduped(a, b))
<1>1. PICK len \in Nat : len = Len(b) /\ DOMAIN b = 1..len /\ \A n \in 1..len : b[n] \in Value
  BY LenProperties, ElementOfSeq
<1>2. PICK g : /\ g \in [0..len -> Seq(Value)]
               /\ Deduped(a, b) = g[len] /\ g[0] = a
               /\ \A n \in 1..len : g[n] = WithItem(g[n - 1], b[n])
  <2>1. PICK g \in [0..Len(b) -> Seq(Value)] :
          /\ Deduped(a, b) = g[Len(b)] /\ g[0] = a
          /\ \A n \in 1..Len(b) : g[n] = WithItem(g[n - 1], b[n])
    BY DedupedIs
  <2> QED
    BY <1>1, <2>1
<1> DEFINE Good(n) == /\ ItemsOf(g[n]) = ItemsOf(a) \cup {b[i] : i \in 1..n}
                      /\ ~Repeats(a) => ~Repeats(g[n])
<1>3. Good(0)
  BY <1>2
<1>4. ASSUME NEW n \in 1..len, Good(n - 1) PROVE Good(n)
  <2>1. g[n - 1] \in Seq(Value) /\ b[n] \in Value /\ g[n] = WithItem(g[n - 1], b[n])
    <3>1. n - 1 \in 0..len
      OBVIOUS
    <3> QED
      BY <1>1, <1>2, <3>1
  <2>2. /\ ItemsOf(g[n]) = ItemsOf(g[n - 1]) \cup {b[n]}
        /\ ~Repeats(g[n - 1]) => ~Repeats(g[n])
    BY <2>1, WithItemFacts
  <2>3. \A i : i \in 1..n <=> i \in 1..(n - 1) \/ i = n
    OBVIOUS
  <2>4. {b[i] : i \in 1..n} = {b[i] : i \in 1..(n - 1)} \cup {b[n]}
    BY <2>3
  <2> QED
    BY <1>4, <2>2, <2>4
<1>5. PICK T : T = {n \in 0..len : Good(n)}
  OBVIOUS
<1>6. 0 \in T /\ \A n \in 1..len : n - 1 \in T => n \in T
  <2> HIDE DEF Good
  <2> QED
    BY <1>3, <1>4, <1>5
<1>7. \A n \in 0..len : n \in T
  BY <1>6, Induction
<1>8. Good(len)
  <2> HIDE DEF Good
  <2> QED
    BY <1>5, <1>7
<1>9. ItemsOf(b) = {b[i] : i \in 1..len}
  BY <1>1 DEF ItemsOf
<1>10. g[len] \in Seq(Value)
  BY <1>2
<1> QED
  BY <1>2, <1>8, <1>9, <1>10
-----------------------------------------------------------------------------
(* What the contents of a key are. *)
LEMMA ContentsAre ==
  ASSUME NEW k \in Key
  PROVE  /\ k \in Group => \A a : a \in Contents(k) <=> \E F \in SUBSET Field : a \in [F -> Value]
         /\ k \in Array => Contents(k) = Seq(Value)
         /\ k \in Entry \cup Module \cup Unmerged => Contents(k) = Value
BY MergeAssumption DEF Contents

(* Contents that count as the same are, the modules of @DLM apart. *)
LEMMA SameIsEqual ==
  ASSUME NEW k \in Key, NEW a \in Contents(k), NEW b \in Contents(k), Same(k, a, b), k \notin Module
  PROVE  a = b
<1>1. CASE k \in Entry
  BY <1>1, MergeAssumption DEF Same, Equal
<1>2. CASE k \in Group
  <2>1. SameFields(a, b)
    BY <1>2, MergeAssumption DEF Same
  <2>2. PICK F \in SUBSET Field, G \in SUBSET Field : a \in [F -> Value] /\ b \in [G -> Value]
    BY <1>2, ContentsAre
  <2>3. F = G /\ \A f \in F : a[f] = b[f]
    BY <2>1, <2>2 DEF SameFields, Equal
  <2>4. a = [f \in F |-> a[f]] /\ b = [f \in F |-> b[f]]
    BY <2>2, <2>3
  <2>5. [f \in F |-> a[f]] = [f \in F |-> b[f]]
    BY <2>3
  <2> QED
    BY <2>4, <2>5
<1>3. CASE k \in Array
  <2>1. SameItems(a, b) /\ a \in Seq(Value) /\ b \in Seq(Value)
    BY <1>3, ContentsAre, MergeAssumption DEF Same
  <2>2. Len(a) = Len(b) /\ \A i \in 1..Len(a) : a[i] = b[i]
    BY <2>1, LenProperties DEF SameItems, Equal
  <2> QED
    BY <2>1, <2>2, SeqEqual
<1>4. CASE k \in Unmerged
  BY <1>4, MergeAssumption DEF Same
<1> QED
  BY <1>1, <1>2, <1>3, <1>4 DEF Key

LEMMA SameFacts ==
  ASSUME NEW k \in Key, NEW a \in Contents(k), NEW b \in Contents(k), NEW c \in Contents(k)
  PROVE  /\ Same(k, a, b) => Same(k, b, a)
         /\ Same(k, a, b) /\ Same(k, b, c) => Same(k, a, c)
<1>1. CASE k \in Module
  BY <1>1 DEF Same
<1>2. CASE k \notin Module
  BY <1>2, SameIsEqual
<1> QED
  BY <1>1, <1>2

(* What two arrays have one after the other. *)
LEMMA ConcatFacts ==
  ASSUME NEW a \in Seq(Value), NEW b \in Seq(Value)
  PROVE  a \o b \in Seq(Value) /\ ItemsOf(a \o b) = ItemsOf(a) \cup ItemsOf(b)
<1>1. PICK m \in Nat, n \in Nat : m = Len(a) /\ n = Len(b)
  BY LenProperties
<1>2. /\ a \o b \in Seq(Value) /\ Len(a \o b) = m + n
      /\ \A i \in 1..(m + n) : (a \o b)[i] = IF i <= m THEN a[i] ELSE b[i - m]
  BY <1>1, ConcatProperties
<1>3. PICK c : c = a \o b
  OBVIOUS
<1>4. DOMAIN a = 1..m /\ DOMAIN b = 1..n /\ DOMAIN c = 1..(m + n)
  BY <1>1, <1>2, <1>3, LenProperties
<1>5. \A i \in 1..m : i \in 1..(m + n) /\ c[i] = a[i]
  BY <1>1, <1>2, <1>3
<1>6. \A i \in 1..n : i + m \in 1..(m + n) /\ c[i + m] = b[i]
  <2> SUFFICES ASSUME NEW i \in 1..n PROVE i + m \in 1..(m + n) /\ c[i + m] = b[i]
    OBVIOUS
  <2>1. i + m \in 1..(m + n) /\ ~(i + m <= m) /\ (i + m) - m = i
    BY <1>1
  <2> QED
    BY <1>2, <1>3, <2>1
<1>7. \A i \in 1..(m + n) : i \in 1..m \/ (i - m \in 1..n /\ (i - m) + m = i)
  BY <1>1
<1>8. ItemsOf(c) \subseteq ItemsOf(a) \cup ItemsOf(b)
  <2>1. ASSUME NEW i \in 1..(m + n) PROVE c[i] \in ItemsOf(a) \cup ItemsOf(b)
    <3>1. CASE i \in 1..m
      BY <1>4, <1>5, <3>1 DEF ItemsOf
    <3>2. CASE i - m \in 1..n /\ (i - m) + m = i
      <4>1. c[i] = b[i - m]
        BY <1>6, <3>2
      <4> QED
        BY <1>4, <3>2, <4>1 DEF ItemsOf
    <3> QED
      BY <1>7, <3>1, <3>2
  <2> QED
    BY <1>4, <2>1 DEF ItemsOf
<1>9. ItemsOf(a) \cup ItemsOf(b) \subseteq ItemsOf(c)
  BY <1>4, <1>5, <1>6 DEF ItemsOf
<1> QED
  BY <1>2, <1>3, <1>8, <1>9

(* What the deep merge of two contents has: of groups ... *)
LEMMA CombineFields ==
  ASSUME NEW k \in Group, NEW a \in Contents(k), NEW b \in Contents(k)
  PROVE  /\ Combine(k, a, b) \in Contents(k)
         /\ DOMAIN Combine(k, a, b) = DOMAIN a \cup DOMAIN b
         /\ \A f \in DOMAIN a \cup DOMAIN b :
              \/ f \in DOMAIN a /\ Combine(k, a, b)[f] = a[f]
              \/ f \in DOMAIN b /\ Combine(k, a, b)[f] = b[f]
<1>1. Combine(k, a, b) = MergeFields(a, b) /\ k \in Key
  BY DEF Combine, Key
<1>2. PICK F \in SUBSET Field, G \in SUBSET Field : a \in [F -> Value] /\ b \in [G -> Value]
  BY <1>1, ContentsAre
<1>3. MergeFields(a, b) \in [F \cup G -> Value] /\ F \cup G \in SUBSET Field
  BY <1>2 DEF MergeFields
<1>4. Combine(k, a, b) \in Contents(k)
  BY <1>1, <1>3, ContentsAre
<1> QED
  BY <1>1, <1>4 DEF MergeFields

(* ... of arrays ... *)
LEMMA CombineItems ==
  ASSUME NEW k \in Array, NEW a \in Contents(k), NEW b \in Contents(k),
         array_strategy \in ArrayStrategies
  PROVE  /\ Combine(k, a, b) \in Contents(k)
         /\ array_strategy = "Replace" => Combine(k, a, b) = a
         /\ array_strategy # "Replace" =>
              ItemsOf(Combine(k, a, b)) = ItemsOf(a) \cup ItemsOf(b)
         /\ array_strategy = "ConcatDedup" /\ ~Repeats(a) => ~Repeats(Combine(k, a, b))
<1>1. a \in Seq(Value) /\ b \in Seq(Value) /\ Contents(k) = Seq(Value)
  BY ContentsAre DEF Key
<1>2. Combine(k, a, b) = MergeItems(a, b)
  BY MergeAssumption DEF Combine
<1>3. CASE array_strategy = "Replace"
  BY <1>1, <1>2, <1>3 DEF MergeItems
<1>4. CASE array_strategy = "Concat"
  BY <1>1, <1>2, <1>4, ConcatFacts DEF MergeItems
<1>5. CASE array_strategy = "ConcatDedup"
  BY <1>1, <1>2, <1>5, DedupedFacts DEF MergeItems
<1> QED
  BY <1>3, <1>4, <1>5 DEF ArrayStrategies

(* ... and of anything else. *)
LEMMA CombineValues ==
  ASSUME NEW k \in Entry \cup Module \cup Unmerged, NEW a, NEW b
  PROVE  Combine(k, a, b) = a
BY MergeAssumption DEF Combine

-----------------------------------------------------------------------------
(* What a source has for a key. *)
LEMMA SourceHas ==
  ASSUME TypeOK, NEW k, NEW s \in Holders(k)
  PROVE  s \in Source /\ k \in Key /\ sources[s][k] \in Contents(k)
BY DEF TypeOK, Holders, IsAst

(* A step with a key keeps the types if it keeps those of what it changes.   *)
LEMMA TypesKeep ==
  ASSUME DataInv, NEW k \in Key, Take(k),
         DOMAIN merged' \subseteq Key,
         \A j \in DOMAIN merged' : merged'[j].src \in Source /\ merged'[j].content \in Contents(j),
         \A c \in conflicts' : c.winner \in Source,
         errors' \in BOOLEAN
  PROVE  TypeOK'
BY DEF DataInv, TypeOK, Take, inputs, KeysOf

(* What a step with a key leaves for another one. *)
LEMMA OtherContents ==
  ASSUME DataInv, NEW k \in Key, Take(k), errors => errors',
         NEW j \in Key, j # k, j \in DOMAIN merged' <=> j \in DOMAIN merged,
         j \in DOMAIN merged => merged'[j] = merged[j],
         Listed(j)' <=> Listed(j)
  PROVE  ContentInv(j)' /\ DistinctInv(j)' /\ ConflictInv(j)'
<1>1. SoFar(j)' = SoFar(j)
  BY TakeFacts DEF DataInv
<1>2. UNCHANGED <<sources, strategy, array_strategy>>
  BY DEF Take, inputs
<1>3. ContentInv(j) /\ DistinctInv(j) /\ ConflictInv(j)
  BY DEF DataInv
<1>4. ContentInv(j)'
  BY <1>1, <1>2, <1>3 DEF ContentInv, OneIsKept, FieldsAreKept, ItemsAreKept
<1>5. DistinctInv(j)'
  BY <1>1, <1>2, <1>3 DEF DistinctInv
<1>6. Disagree(j, SoFar(j))' <=> Disagree(j, SoFar(j))
  BY <1>1, <1>2 DEF Disagree
<1>7. ConflictInv(j)'
  BY <1>2, <1>3, <1>6 DEF ConflictInv, Merges
<1> QED
  BY <1>4, <1>5, <1>7

(* A step that lists nothing and does not throw. *)
LEMMA ErrorsStay ==
  ASSUME DataInv, UNCHANGED <<strategy, conflicts, errors>>
  PROVE  ErrorInv'
BY DEF DataInv, ErrorInv, Listed

(* The sources so far disagree, with the current one, if they did or if what *)
(* is merged differs from its content.                                       *)
LEMMA DisagreeGrows ==
  ASSUME DataInv, NEW k \in Key, Take(k), k \in DOMAIN merged
  PROVE  /\ Merges(k)'
         /\ Disagree(k, SoFar(k))' <=>
              Listed(k) \/ ~Same(k, merged[k].content, sources[src][k])
<1> DEFINE e == merged[k].src
<1>1. /\ src \in Holders(k) /\ src \in Source
      /\ \A s \in SoFar(k) : s \in Holders(k) /\ s \in Source /\ s < src
      /\ SoFar(k)' = SoFar(k) \cup {src}
  BY TakeFacts DEF DataInv
<1>2. sources' = sources
  BY DEF Take, inputs
<1>3. /\ e \in SoFar(k) /\ Merges(k)
      /\ Disagree(k, SoFar(k)) <=> Listed(k)
      /\ ~Listed(k) => merged[k].content = sources[e][k]
  BY DEF DataInv, IInv, KeyInv, SlotInv, ConflictInv
<1>4. \A s \in SoFar(k) \cup {src} : sources[s][k] \in Contents(k) /\ s \in Int
  BY <1>1, SourceHas DEF DataInv, Source
<1>5. ASSUME Disagree(k, SoFar(k)) PROVE Disagree(k, SoFar(k))'
  BY <1>1, <1>2, <1>5 DEF Disagree
<1>6. ASSUME ~Listed(k), ~Same(k, merged[k].content, sources[src][k])
      PROVE  Disagree(k, SoFar(k))'
  <2>1. e < src /\ ~Same(k, sources[e][k], sources[src][k]) /\ e \in SoFar(k)'
    BY <1>1, <1>3, <1>6
  <2> HIDE DEF e
  <2> QED
    BY <2>1, <1>1, <1>2 DEF Disagree
<1>7. ASSUME ~Listed(k), Same(k, merged[k].content, sources[src][k])
      PROVE  ~Disagree(k, SoFar(k))'
  <2>1. \A s, t \in SoFar(k) : s < t => Same(k, sources[s][k], sources[t][k])
    BY <1>3, <1>7 DEF Disagree
  <2>2. Same(k, sources[e][k], sources[src][k])
    BY <1>3, <1>7
  <2>3. ASSUME NEW s \in SoFar(k) PROVE Same(k, sources[s][k], sources[src][k])
    <3>1. CASE s = e
      BY <2>2, <3>1
    <3>2. CASE s < e
      <4>1. Same(k, sources[s][k], sources[e][k])
        BY <1>3, <2>1, <3>2
      <4> QED
        BY <1>3, <1>4, <2>2, <4>1, SameFacts
    <3>3. CASE e < s
      <4>1. Same(k, sources[e][k], sources[s][k])
        BY <1>3, <2>1, <3>3
      <4>2. Same(k, sources[s][k], sources[e][k])
        BY <1>3, <1>4, <4>1, SameFacts
      <4> QED
        BY <1>3, <1>4, <2>2, <4>2, SameFacts
    <3> QED
      BY <1>3, <1>4, <3>1, <3>2, <3>3
  <2>4. \A s, t \in SoFar(k) \cup {src} : s < t => s \in SoFar(k)
    BY <1>1, <1>4
  <2> QED
    BY <1>1, <1>2, <2>1, <2>3, <2>4 DEF Disagree
<1> QED
  BY <1>3, <1>5, <1>6, <1>7 DEF Merges

(* The first source of a key: all that there is of it. *)
LEMMA InsertData ==
  ASSUME DataInv, NEW k \in Key, Insert(k)
  PROVE  DataInv'
<1>1. Take(k) /\ Merges(k) /\ k \notin DOMAIN merged /\ UNCHANGED <<sources, strategy, src, conflicts, errors>>
  BY DEF Insert, Take, inputs
<1>2. SoFar(k) = {} /\ SoFar(k)' = {src} /\ src \in Holders(k)
  BY <1>1, TakeFacts DEF DataInv, IInv, KeyInv, SlotInv
<1>3. src \in Source /\ sources[src][k] \in Contents(k)
  BY <1>2, SourceHas DEF DataInv
<1>4. /\ DOMAIN merged' = DOMAIN merged \cup {k}
      /\ merged'[k].src = src /\ merged'[k].content = sources[src][k]
      /\ \A j \in DOMAIN merged : merged'[j] = merged[j]
  BY <1>1 DEF Insert, Put, Slot
<1>5. TypeOK'
  BY <1>1, <1>3, <1>4, TypesKeep DEF DataInv, TypeOK
<1>6. \A j : Listed(j)' <=> Listed(j)
  BY <1>1 DEF Listed
<1>7. \A j \in Key \ {k} : ContentInv(j)' /\ DistinctInv(j)' /\ ConflictInv(j)'
  BY <1>1, <1>4, <1>6, OtherContents
<1>8. ContentInv(k)' /\ DistinctInv(k)'
  BY <1>1, <1>2, <1>3, <1>4 DEF ContentInv, DistinctInv, OneIsKept, FieldsAreKept, ItemsAreKept
<1>9. ConflictInv(k)'
  <2>1. ~Listed(k)
    BY <1>2 DEF DataInv, ConflictInv, Disagree
  <2>2. ~(src < src)
    BY <1>3 DEF Source
  <2>3. ~Disagree(k, SoFar(k))'
    BY <1>1, <1>2, <2>2 DEF Disagree
  <2> QED
    BY <1>1, <1>4, <1>6, <2>1, <2>3 DEF ConflictInv
<1>10. IInv' /\ ErrorInv'
  BY <1>1, InsertKeeps, ErrorsStay DEF DataInv
<1> QED
  BY <1>5, <1>7, <1>8, <1>9, <1>10 DEF DataInv

(* What is dropped is neither in the result nor listed. *)
LEMMA DropData ==
  ASSUME DataInv, NEW k \in Key, Drop(k)
  PROVE  DataInv'
<1>1. Take(k) /\ ~Merges(k) /\ UNCHANGED <<strategy, merged, conflicts, errors>>
  BY DEF Drop, Take, inputs
<1>2. k \notin DOMAIN merged /\ ~Listed(k)
  BY <1>1 DEF DataInv, IInv, KeyInv, SlotInv, ConflictInv
<1>3. \A j : Listed(j)' <=> Listed(j)
  BY <1>1 DEF Listed
<1>4. \A j \in Key \ {k} : ContentInv(j)' /\ DistinctInv(j)' /\ ConflictInv(j)'
  BY <1>1, <1>3, OtherContents
<1>5. ContentInv(k)' /\ DistinctInv(k)'
  BY <1>1, <1>2 DEF ContentInv, DistinctInv
<1>6. ConflictInv(k)'
  BY <1>1, <1>2, <1>3 DEF ConflictInv, Merges
<1>7. TypeOK'
  BY <1>1, TypesKeep DEF DataInv, TypeOK
<1>8. IInv' /\ ErrorInv'
  BY <1>1, DropKeeps, ErrorsStay DEF DataInv
<1> QED
  BY <1>4, <1>5, <1>6, <1>7, <1>8 DEF DataInv

(* What is skipped is there already, a module apart. *)
LEMMA SkipData ==
  ASSUME DataInv, NEW k \in Key, Skip(k)
  PROVE  DataInv'
<1>1. /\ Take(k) /\ k \in DOMAIN merged /\ Same(k, merged[k].content, sources[src][k])
      /\ UNCHANGED <<sources, strategy, array_strategy, src, merged, conflicts, errors>>
  BY DEF Skip, Agrees, Take, inputs
<1>2. SoFar(k)' = SoFar(k) \cup {src} /\ src \in Holders(k)
  BY <1>1, TakeFacts DEF DataInv
<1>3. ContentInv(k) /\ DistinctInv(k) /\ ConflictInv(k)
  BY DEF DataInv
<1>4. sources[src][k] \in Contents(k) /\ merged[k].content \in Contents(k)
  BY <1>1, <1>2, <1>3, SourceHas DEF DataInv, ContentInv
<1>5. k \notin Module => merged[k].content = sources[src][k]
  BY <1>1, <1>4, SameIsEqual
<1>6. TypeOK'
  BY <1>1, TypesKeep DEF DataInv, TypeOK
<1>7. \A j : Listed(j)' <=> Listed(j)
  BY <1>1 DEF Listed
<1>8. \A j \in Key \ {k} : ContentInv(j)' /\ DistinctInv(j)' /\ ConflictInv(j)'
  BY <1>1, <1>7, OtherContents
<1>9. k \in Entry \cup Group \cup Array => k \notin Module
  BY MergeAssumption
<1>10. ContentInv(k)'
  BY <1>1, <1>2, <1>3, <1>5, <1>9 DEF ContentInv, OneIsKept, FieldsAreKept, ItemsAreKept
<1>11. DistinctInv(k)'
  BY <1>1, <1>2, <1>3 DEF DistinctInv
<1>12. ConflictInv(k)'
  BY <1>1, <1>3, <1>7, DisagreeGrows DEF ConflictInv
<1>13. IInv' /\ ErrorInv'
  BY <1>1, SkipKeeps, ErrorsStay DEF DataInv
<1> QED
  BY <1>6, <1>8, <1>10, <1>11, <1>12, <1>13 DEF DataInv

(* What is refused is listed. *)
LEMMA RefuseData ==
  ASSUME DataInv, NEW k \in Key, Refuse(k)
  PROVE  DataInv'
<1>1. /\ Take(k) /\ k \in DOMAIN merged /\ ~Same(k, merged[k].content, sources[src][k])
      /\ UNCHANGED <<sources, strategy, array_strategy, src, merged>> /\ errors' = TRUE
      /\ conflicts' = conflicts \cup {[path |-> <<k>>, winner |-> src]}
  BY DEF Refuse, Disagrees, Take, inputs
<1>2. SoFar(k)' = SoFar(k) \cup {src} /\ src \in Source
  BY <1>1, TakeFacts DEF DataInv
<1>3. ContentInv(k) /\ DistinctInv(k) /\ ConflictInv(k)
  BY DEF DataInv
<1>4. TypeOK'
  BY <1>1, <1>2, TypesKeep DEF DataInv, TypeOK
<1>5. Listed(k)' /\ \A j : j # k => (Listed(j)' <=> Listed(j))
  <2>1. PICK c : c = [path |-> <<k>>, winner |-> src]
    OBVIOUS
  <2>2. conflicts' = conflicts \cup {c} /\ c.path = <<k>> /\ \A j : j # k => <<j>> # <<k>>
    BY <1>1, <2>1
  <2> QED
    BY <2>2 DEF Listed
<1>6. \A j \in Key \ {k} : ContentInv(j)' /\ DistinctInv(j)' /\ ConflictInv(j)'
  BY <1>1, <1>5, OtherContents
<1>7. ContentInv(k)' /\ DistinctInv(k)'
  BY <1>1, <1>2, <1>3 DEF ContentInv, DistinctInv
<1>8. ConflictInv(k)'
  BY <1>1, <1>3, <1>5, DisagreeGrows DEF ConflictInv
<1>9. ErrorInv'
  <2>1. strategy = "ThrowOnConflict"
    BY DEF Refuse
  <2> QED
    BY <1>1, <1>5, <2>1 DEF ErrorInv
<1>10. IInv'
  BY RefuseKeeps DEF DataInv
<1> QED
  BY <1>4, <1>6, <1>7, <1>8, <1>9, <1>10 DEF DataInv

(* Two contents are brought together, and the key is listed.                 *)
LEMMA ResolveData ==
  ASSUME DataInv, NEW k \in Key, Resolve(k)
  PROVE  DataInv'
<1> DEFINE e     == merged[k].src
           here  == merged[k].content
           there == sources[src][k]
           w     == PickWinner(src, e)
           both  == IF w = src THEN Combine(k, there, here) ELSE Combine(k, here, there)
<1>1. /\ Take(k) /\ k \in DOMAIN merged /\ ~Same(k, here, there)
      /\ UNCHANGED <<sources, strategy, array_strategy, src, errors>>
      /\ strategy # "ThrowOnConflict"
      /\ Put(k, Slot(w, both))
      /\ conflicts' = conflicts \cup {[path |-> p, winner |-> w] : p \in Paths(k, here, there)}
  BY DEF Resolve, Disagrees, Take, inputs
<1>2. /\ src \in Holders(k) /\ src \in Source /\ SoFar(k)' = SoFar(k) \cup {src}
      /\ \A s \in SoFar(k) : s \in Source /\ s < src
  BY <1>1, TakeFacts DEF DataInv
<1>3. ContentInv(k) /\ DistinctInv(k) /\ ConflictInv(k)
  BY DEF DataInv
<1>4. e \in SoFar(k) /\ e \in Source /\ e < src
  BY <1>1, <1>2 DEF DataInv, IInv, KeyInv, SlotInv
<1>5. w \in Source
  BY <1>2, <1>4, WinnerBeats DEF DataInv, IInv
<1>6. here \in Contents(k) /\ there \in Contents(k)
  BY <1>1, <1>2, <1>3, SourceHas DEF DataInv, ContentInv
<1>7. array_strategy \in ArrayStrategies
  BY DEF DataInv, TypeOK
<1>8. PICK a, b : /\ both = Combine(k, a, b)
                  /\ (a = here /\ b = there) \/ (a = there /\ b = here)
                  /\ a \in Contents(k) /\ b \in Contents(k)
  <2>1. CASE w = src
    BY <1>6, <2>1
  <2>2. CASE w # src
    BY <1>6, <2>2
  <2> QED
    BY <2>1, <2>2
<1>9. /\ DOMAIN merged' = DOMAIN merged
      /\ merged'[k].src = w /\ merged'[k].content = both
      /\ \A j \in DOMAIN merged \ {k} : merged'[j] = merged[j]
  BY <1>1 DEF Put, Slot
<1> HIDE DEF both, w, e
<1>10. both \in Contents(k)
  <2>1. CASE k \in Group
    BY <1>8, <2>1, CombineFields
  <2>2. CASE k \in Array
    BY <1>7, <1>8, <2>2, CombineItems
  <2>3. CASE k \in Entry \cup Module \cup Unmerged
    BY <1>8, <2>3, CombineValues
  <2> QED
    BY <2>1, <2>2, <2>3 DEF Key
<1>11. TypeOK'
  <2>1. DOMAIN merged' \subseteq Key
    BY <1>9 DEF DataInv, TypeOK
  <2>2. \A j \in DOMAIN merged' : merged'[j].src \in Source /\ merged'[j].content \in Contents(j)
    BY <1>5, <1>9, <1>10 DEF DataInv, TypeOK
  <2>3. \A c \in conflicts' : c.winner \in Source
    BY <1>1, <1>5 DEF DataInv, TypeOK
  <2>4. errors' \in BOOLEAN
    BY <1>1 DEF DataInv, TypeOK
  <2> QED
    BY <1>1, <2>1, <2>2, <2>3, <2>4, TypesKeep
<1>12. Listed(k)'
  <2>1. <<k>> \in Paths(k, here, there)
    BY DEF Paths
  <2>2. [path |-> <<k>>, winner |-> w] \in conflicts'
    BY <1>1, <2>1
  <2> QED
    BY <2>2 DEF Listed
<1>13. ASSUME NEW j, j # k PROVE Listed(j)' <=> Listed(j)
  <2>1. \A p \in Paths(k, here, there) : p # <<j>>
    <3>1. <<k>> # <<j>>
      BY <1>13
    <3>2. \A f : <<k, f>> # <<j>>
      <4> SUFFICES ASSUME NEW f, <<k, f>> = <<j>> PROVE FALSE
        OBVIOUS
      <4>1. Len(<<k, f>>) = 2 /\ Len(<<j>>) = 1
        OBVIOUS
      <4> QED
        BY <4>1
    <3> QED
      BY <3>1, <3>2 DEF Paths
  <2>2. \A p : [path |-> p, winner |-> w].path = p
    OBVIOUS
  <2>3. \A c \in conflicts' \ conflicts : c.path # <<j>>
    BY <1>1, <2>1, <2>2
  <2>4. conflicts \subseteq conflicts'
    BY <1>1
  <2> QED
    BY <2>3, <2>4 DEF Listed
<1>14. \A j \in Key \ {k} : ContentInv(j)' /\ DistinctInv(j)' /\ ConflictInv(j)'
  BY <1>1, <1>9, <1>13, OtherContents
<1>15. ConflictInv(k)'
  BY <1>1, <1>12, DisagreeGrows DEF ConflictInv
<1>16. DistinctInv(k)'
  <2> SUFFICES ASSUME k \in Array, array_strategy = "ConcatDedup",
                      \A s \in SoFar(k) \cup {src} : ~Repeats(sources[s][k])
               PROVE  ~Repeats(both)
    BY <1>1, <1>2, <1>9 DEF DistinctInv
  <2>1. ~Repeats(here) /\ ~Repeats(there)
    BY <1>1, <1>3 DEF DistinctInv
  <2> QED
    BY <1>7, <1>8, <2>1, CombineItems
<1>17. ContentInv(k)'
  <2> SUFFICES ASSUME ~errors
               PROVE  /\ k \in Entry => OneIsKept(k, SoFar(k))'
                      /\ k \in Group => FieldsAreKept(k, SoFar(k))'
                      /\ k \in Array => ItemsAreKept(k, SoFar(k))'
    BY <1>1, <1>9, <1>10 DEF ContentInv
  <2>1. ASSUME k \in Entry PROVE OneIsKept(k, SoFar(k))'
    <3>1. both \in {here, there}
      BY <1>8, <2>1, CombineValues
    <3>2. \E s \in SoFar(k) : here = sources[s][k]
      BY <1>1, <1>3, <2>1 DEF ContentInv, OneIsKept
    <3> QED
      BY <1>1, <1>2, <1>9, <3>1, <3>2 DEF OneIsKept
  <2>2. ASSUME k \in Group PROVE FieldsAreKept(k, SoFar(k))'
    <3>1. /\ DOMAIN both = DOMAIN here \cup DOMAIN there
          /\ \A f \in DOMAIN both : \/ f \in DOMAIN here /\ both[f] = here[f]
                                    \/ f \in DOMAIN there /\ both[f] = there[f]
      <4>1. /\ DOMAIN both = DOMAIN a \cup DOMAIN b
            /\ \A f \in DOMAIN a \cup DOMAIN b : \/ f \in DOMAIN a /\ both[f] = a[f]
                                                 \/ f \in DOMAIN b /\ both[f] = b[f]
        <5>1. k \in Group /\ a \in Contents(k) /\ b \in Contents(k)
          BY <1>8, <2>2
        <5>2. /\ DOMAIN Combine(k, a, b) = DOMAIN a \cup DOMAIN b
              /\ \A f \in DOMAIN a \cup DOMAIN b :
                   \/ f \in DOMAIN a /\ Combine(k, a, b)[f] = a[f]
                   \/ f \in DOMAIN b /\ Combine(k, a, b)[f] = b[f]
          BY <5>1, CombineFields
        <5> QED
          BY <1>8, <5>2
      <4> QED
        BY <1>8, <4>1
    <3>2. /\ DOMAIN here = UNION {DOMAIN sources[s][k] : s \in SoFar(k)}
          /\ \A f \in DOMAIN here :
               \E s \in SoFar(k) : f \in DOMAIN sources[s][k] /\ here[f] = sources[s][k][f]
      BY <1>1, <1>3, <2>2 DEF ContentInv, FieldsAreKept
    <3>3. DOMAIN both = UNION {DOMAIN sources[s][k] : s \in SoFar(k) \cup {src}}
      BY <3>1, <3>2
    <3>4. \A f \in DOMAIN both :
            \E s \in SoFar(k) \cup {src} : f \in DOMAIN sources[s][k] /\ both[f] = sources[s][k][f]
      BY <3>1, <3>2
    <3> QED
      BY <1>1, <1>2, <1>9, <3>3, <3>4 DEF FieldsAreKept
  <2>3. ASSUME k \in Array PROVE ItemsAreKept(k, SoFar(k))'
    <3>1. CASE array_strategy = "Replace"
      <4>1. both \in {here, there}
        BY <1>7, <1>8, <2>3, <3>1, CombineItems
      <4>2. \E s \in SoFar(k) : here = sources[s][k]
        BY <1>1, <1>3, <2>3, <3>1 DEF ContentInv, ItemsAreKept, OneIsKept
      <4> QED
        BY <1>1, <1>2, <1>9, <3>1, <4>1, <4>2 DEF ItemsAreKept, OneIsKept
    <3>2. CASE array_strategy # "Replace"
      <4>1. ItemsOf(both) = ItemsOf(here) \cup ItemsOf(there)
        BY <1>7, <1>8, <2>3, <3>2, CombineItems
      <4>2. ItemsOf(here) = UNION {ItemsOf(sources[s][k]) : s \in SoFar(k)}
        BY <1>1, <1>3, <2>3, <3>2 DEF ContentInv, ItemsAreKept
      <4>3. ItemsOf(both) = UNION {ItemsOf(sources[s][k]) : s \in SoFar(k) \cup {src}}
        BY <4>1, <4>2
      <4> QED
        BY <1>1, <1>2, <1>9, <3>2, <4>3 DEF ItemsAreKept
    <3> QED
      BY <3>1, <3>2
  <2> QED
    BY <2>1, <2>2, <2>3
<1>18. IInv'
  BY ResolveKeeps DEF DataInv
<1>19. ErrorInv'
  BY <1>1 DEF DataInv, ErrorInv
<1> QED
  BY <1>11, <1>14, <1>15, <1>16, <1>17, <1>18, <1>19 DEF DataInv

(* The contents, when the sources so far stay the same. *)
LEMMA ContentsStay ==
  ASSUME DataInv,
         UNCHANGED <<sources, strategy, array_strategy, merged, conflicts, errors>>,
         \A k : SoFar(k)' = SoFar(k)
  PROVE  \A k \in Key : ContentInv(k)' /\ DistinctInv(k)' /\ ConflictInv(k)'
<1> SUFFICES ASSUME NEW k \in Key PROVE ContentInv(k)' /\ DistinctInv(k)' /\ ConflictInv(k)'
  OBVIOUS
<1>1. ContentInv(k) /\ DistinctInv(k) /\ ConflictInv(k)
  BY DEF DataInv
<1>2. ContentInv(k)'
  BY <1>1 DEF ContentInv, OneIsKept, FieldsAreKept, ItemsAreKept
<1>3. DistinctInv(k)'
  BY <1>1 DEF DistinctInv
<1>4. ConflictInv(k)'
  BY <1>1 DEF ConflictInv, Listed, Disagree, Merges
<1> QED
  BY <1>2, <1>3, <1>4

LEMMA NextSourceData ==
  ASSUME DataInv, NextSource
  PROVE  DataInv'
<1>1. /\ src' = src + 1 /\ left' = KeysOf(src + 1) /\ src \in Source
      /\ UNCHANGED <<sources, weight, strategy, array_strategy, merged, conflicts, errors>>
  BY DEF NextSource, inputs
<1>2. IInv' /\ \A k : SoFar(k)' = SoFar(k)
  BY NextSourceKeeps, NextSourceSoFar DEF DataInv
<1>3. \A k \in Key : ContentInv(k)' /\ DistinctInv(k)' /\ ConflictInv(k)'
  BY <1>1, <1>2, ContentsStay
<1>4. src' \in 1..(NumSources + 1) /\ left' \subseteq KeysOf(src)'
  BY <1>1, MergeAssumption DEF Source, KeysOf
<1>5. TypeOK'
  BY <1>1, <1>4 DEF DataInv, TypeOK
<1>6. ErrorInv'
  BY <1>1, ErrorsStay
<1> QED
  BY <1>2, <1>3, <1>5, <1>6 DEF DataInv

LEMMA StutterData ==
  ASSUME DataInv, UNCHANGED vars
  PROVE  DataInv'
<1>1. UNCHANGED <<sources, weight, strategy, array_strategy, src, left, merged, conflicts, errors>>
  BY DEF vars, inputs
<1>2. IInv' /\ \A k : SoFar(k)' = SoFar(k)
  BY <1>1, StutterKeeps DEF DataInv, SoFar, Holders
<1>3. \A k \in Key : ContentInv(k)' /\ DistinctInv(k)' /\ ConflictInv(k)'
  BY <1>1, <1>2, ContentsStay
<1>4. TypeOK' /\ ErrorInv'
  BY <1>1, ErrorsStay DEF DataInv, TypeOK, KeysOf
<1> QED
  BY <1>2, <1>3, <1>4 DEF DataInv

(* Nothing is merged at first. *)
LEMMA InitData == Init => DataInv
<1> SUFFICES ASSUME Init PROVE DataInv
  OBVIOUS
<1>1. IInv
  BY InitHolds
<1>2. /\ DOMAIN merged = {} /\ conflicts = {} /\ errors = FALSE /\ src = 1 /\ left = KeysOf(1)
      /\ strategy \in Strategies /\ array_strategy \in ArrayStrategies
      /\ weight \in [Source -> Weights]
  BY DEF Init
<1>3. PICK F \in Families : sources \in [Source -> F]
  BY DEF Init
<1>4. \A s \in Source : IsAst(sources[s]) /\ weight[s] \in Weights
  <2>1. \A a \in F : IsAst(a)
    BY MergeAssumption
  <2> QED
    BY <1>2, <1>3, <2>1
<1>5. 1 \in 1..(NumSources + 1)
  BY MergeAssumption
<1>6. TypeOK
  BY <1>2, <1>4, <1>5 DEF TypeOK
<1>7. \A k : SoFar(k) = {}
  BY <1>2 DEF SoFar, Holders, KeysOf, Source
<1>8. \A k \in Key : ContentInv(k) /\ DistinctInv(k) /\ ConflictInv(k)
  BY <1>2, <1>7 DEF ContentInv, DistinctInv, ConflictInv, Listed, Disagree
<1>9. ErrorInv
  BY <1>2 DEF ErrorInv, Listed
<1> QED
  BY <1>1, <1>6, <1>8, <1>9 DEF DataInv

LEMMA DataHolds == Spec => []DataInv
<1>1. DataInv /\ [Next]_vars => DataInv'
  BY InsertData, DropData, SkipData, RefuseData, ResolveData, NextSourceData, StutterData DEF Next
<1> QED
  BY <1>1, InitData, PTL DEF Spec

(* The sources that have a key are the ones so far, at the end. *)
LEMMA AllSoFar ==
  ASSUME Finished
  PROVE  \A k : SoFar(k) = Holders(k)
BY MergeAssumption DEF Finished, SoFar, Holders, Source

(* The inputs, the result and the conflicts keep their types: the contents   *)
(* that are brought together are contents of their key.                      *)
THEOREM TypeCorrect == Spec => []TypeOK
<1>1. DataInv => TypeOK
  BY DEF DataInv
<1> QED
  BY <1>1, DataHolds, PTL

(* What is merged loses nothing of any source and makes nothing up, by any   *)
(* strategy, in deep merges of any number of sources, with arrays of any     *)
(* length; two or more sources lose @RAW and the schema, and nothing else.   *)
THEOREM MergedStaysKept == Spec => []MergedIsKept
<1>1. ASSUME DataInv PROVE MergedIsKept
  <2> SUFFICES ASSUME Success PROVE MergedIsKept
    BY DEF MergedIsKept
  <2>1. ~errors /\ \A k : SoFar(k) = Holders(k)
    BY AllSoFar DEF Success
  <2>2. DOMAIN merged \subseteq Key
    BY <1>1 DEF DataInv, TypeOK
  <2>3. DOMAIN merged = {k \in UNION {KeysOf(s) : s \in Source} : Merges(k)}
    <3>1. \A k \in Key : k \in DOMAIN merged <=> Merges(k) /\ Holders(k) # {}
      BY <1>1, <2>1 DEF DataInv, IInv, KeyInv, SlotInv
    <3>2. \A s \in Source : KeysOf(s) \subseteq Key /\ \A k : k \in KeysOf(s) <=> s \in Holders(k)
      BY <1>1 DEF DataInv, TypeOK, IsAst, KeysOf, Holders
    <3>3. \A k \in Key : Holders(k) \subseteq Source
      BY DEF Holders
    <3> QED
      BY <2>2, <3>1, <3>2, <3>3
  <2>4. ASSUME NEW k \in DOMAIN merged, k \notin Group, k \notin Array
        PROVE  OneIsKept(k, Holders(k))
    <3>1. ContentInv(k) /\ ConflictInv(k) /\ SlotInv(k) /\ k \in Key
      BY <1>1, <2>2 DEF DataInv, IInv, KeyInv
    <3>2. CASE k \in Entry
      BY <2>1, <3>1, <3>2 DEF ContentInv
    <3>3. CASE ~Listed(k)
      BY <2>1, <3>1, <3>3 DEF ConflictInv, SlotInv, OneIsKept
    <3>4. CASE k \in Module
      BY <3>1, <3>3, <3>4 DEF ConflictInv, Disagree, Same
    <3>5. CASE k \in Unmerged
      <4>1. NumSources = 1
        BY <3>1, <3>5 DEF SlotInv, Merges
      <4>2. \A s, t \in SoFar(k) : ~(s < t)
        BY <4>1 DEF SoFar, Holders, Source
      <4> QED
        BY <3>1, <3>3, <4>2 DEF ConflictInv, Disagree
    <3> QED
      BY <2>4, <3>1, <3>2, <3>4, <3>5 DEF Key
  <2>5. \A k \in DOMAIN merged :
          /\ k \in Group => FieldsAreKept(k, Holders(k))
          /\ k \in Array => ItemsAreKept(k, Holders(k))
    BY <1>1, <2>1, <2>2 DEF DataInv, ContentInv
  <2>6. Group \cap Array = {}
    BY MergeAssumption
  <2> QED
    BY <2>3, <2>4, <2>5, <2>6 DEF MergedIsKept
<1> QED
  BY <1>1, DataHolds, PTL

(* ConcatDedup: what no source repeats is not repeated in the result, of any *)
(* number of arrays of any length.                                           *)
THEOREM NothingRepeats == Spec => []DuplicatesAreRemoved
<1>1. ASSUME DataInv PROVE DuplicatesAreRemoved
  <2>1. \A k : SoFar(k) \subseteq Holders(k)
    BY DEF SoFar
  <2> QED
    BY <1>1, <2>1 DEF DataInv, DistinctInv, DuplicatesAreRemoved, Key
<1> QED
  BY <1>1, DataHolds, PTL

(* A key is listed as a conflict exactly if it is merged and two of the      *)
(* sources disagree on it, whatever was made of them on the way; and the     *)
(* merge fails exactly if it is to throw and a key is listed.                *)
THEOREM ConflictsAreReal == Spec => []ConflictsAreDisagreements
<1>1. ASSUME DataInv PROVE ConflictsAreDisagreements
  BY <1>1, AllSoFar DEF DataInv, ErrorInv, ConflictInv, ConflictsAreDisagreements
<1> QED
  BY <1>1, DataHolds, PTL

=============================================================================
