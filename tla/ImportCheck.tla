------------------------------ MODULE ImportCheck ------------------------------
(***************************************************************************)
(* What resolving the @IMPORTS of a file promises, without saying how: one *)
(* step that answers "resolved" only when every file the main file depends *)
(* on is sound and none depends on itself, and "failed" only when one is   *)
(* not, or when two imports disagree on what an alias means.               *)
(***************************************************************************)
EXTENDS Naturals, Sequences

CONSTANTS File, Main

VARIABLES program, health, verdict

Targets(f) == {program[f][i].file : i \in DOMAIN program[f]}

\* A set with every file that Main depends on.
Covers(S) == Targets(Main) \subseteq S /\ \A f \in S : Targets(f) \subseteq S

\* A set of files each of which imports another one of the set.
SelfFeeding(S) == \A f \in S : Targets(f) \cap S # {}

Clean(S) ==
  /\ \A f \in S : health[f] = "sound"
  /\ ~\E C \in SUBSET S : C # {} /\ SelfFeeding(C)

ImportsOf(S) == UNION {{program[f][i] : i \in DOMAIN program[f]} : f \in S}

\* One alias for each file and one file for each alias.
Consistent(S) ==
  \A a, b \in ImportsOf(S \cup {Main}) : (a.alias = b.alias) <=> (a.file = b.file)

Answer ==
  /\ verdict = "pending"
  /\ \/ /\ \E S \in SUBSET File : Covers(S) /\ Clean(S)
        /\ verdict' = "resolved"
     \/ /\ ~\E S \in SUBSET File : Covers(S) /\ Clean(S) /\ Consistent(S)
        /\ verdict' = "failed"
  /\ UNCHANGED <<program, health>>

Spec == verdict = "pending" /\ [][Answer]_<<program, health, verdict>>
=============================================================================
