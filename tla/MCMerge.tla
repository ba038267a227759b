-------------------------------- MODULE MCMerge --------------------------------
(* Three sources with two entries, or a @DLM module and a @RAW block, or one *)
(* group, or one array, each.                                                *)
EXTENDS Merge
CONSTANTS x, y, table, list, dlm, raw, f, g, v1, v2, c

Parts(S, V) == UNION {[K -> V] : K \in SUBSET S}

MCFamilies ==
  {Parts({x, y}, {v1, v2}) \cup {[k \in {x} |-> c]},
   Parts({dlm, raw}, {v1, v2}),
   Parts({table}, Parts({f, g}, {v1, v2}) \cup {[k \in {f} |-> c]}),
   Parts({list}, {<<>>, <<v1>>, <<v2>>, <<c>>, <<v1, v2>>, <<v2, v1>>, <<v1, v1>>, <<c, v2>>})}
=============================================================================
