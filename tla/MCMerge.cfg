SPECIFICATION Spec
CONSTANTS
  x = x
  y = y
  table = table
  list = list
  dlm = dlm
  raw = raw
  f = f
  g = g
  v1 = v1
  v2 = v2
  c = c
  NumSources = 3
  Entry = {x, y}
  Group = {table}
  Array = {list}
  Module = {dlm}
  Unmerged = {raw}
  Field = {f, g}
  Leaf = {v1, v2}
  Complex = {c}
  Weights = {1, 2}
  Families <- MCFamilies
INVARIANTS BestSourceWins MergedIsKept DuplicatesAreRemoved ConflictsAreDisagreements
CHECK_DEADLOCK FALSE
