--------------------------- MODULE MCCompileSource ---------------------------
(* Three sources: one that goes on after errors, and two that halt, with a   *)
(* stray character, and with an invalid entry behind a good one.             *)
EXTENDS CompileSource, TLC
CONSTANTS t1, t2, l1, l2, going, strayed, wrong, e, f

MCContents ==
  [s \in {going, strayed, wrong} |->
     CASE s = going   -> [strategy |-> "continue", enums |-> {e},
                          entries |-> <<"stray", "malformed">>]
       [] s = strayed -> [strategy |-> "halt", enums |-> {e, f},
                          entries |-> <<"stray", "invalid">>]
       [] s = wrong   -> [strategy |-> "halt", enums |-> {},
                          entries |-> <<"good", "invalid">>]]

Symmetry == Permutations(Thread) \cup Permutations(Loader)
=============================================================================
