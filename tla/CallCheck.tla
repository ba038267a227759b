------------------------------ MODULE CallCheck ------------------------------
(***************************************************************************)
(* What the validation of a @QUICKFUNCS section promises, without saying   *)
(* how: one step that accepts the section exactly when no chain of calls   *)
(* returns to its start and every called function is defined.              *)
(***************************************************************************)
CONSTANT Function

VARIABLES section, verdict

\* A set of functions each of which is called from within the set: on a finite
\* graph one exists exactly when the graph has a loop.
SelfFeeding(S, calls) == \A f \in S : \E g \in S : f \in calls[g]

Cyclic(calls) == \E S \in SUBSET DOMAIN calls : S # {} /\ SelfFeeding(S, calls)

Closed(calls) == \A f \in DOMAIN calls : calls[f] \subseteq DOMAIN calls

Init ==
  /\ section \in UNION {[D -> SUBSET Function] : D \in SUBSET Function}
  /\ verdict = "pending"

Answer ==
  /\ verdict = "pending"
  /\ verdict' = IF ~Cyclic(section) /\ Closed(section) THEN "valid" ELSE "invalid"
  /\ UNCHANGED section

Spec == Init /\ [][Answer]_<<section, verdict>>
=============================================================================
