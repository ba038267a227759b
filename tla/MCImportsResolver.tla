--------------------------- MODULE MCImportsResolver ---------------------------
\* Three files, two aliases, sections of up to two imports.
EXTENDS ImportsResolver, TLC

CONSTANTS main, lib1, lib2, a1, a2

MaxImports == 2

MCSections ==
  {s \in UNION {[1..n -> Import] : n \in 0..MaxImports} :
     \A i, j \in DOMAIN s : s[i].alias = s[j].alias => i = j}

Symmetry == Permutations({lib1, lib2}) \cup Permutations({a1, a2})
=============================================================================
