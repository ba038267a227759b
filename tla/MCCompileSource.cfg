SPECIFICATION Spec
CONSTANTS
  t1 = t1
  t2 = t2
  Thread = {t1, t2}
  l1 = l1
  l2 = l2
  Loader = {l1, l2}
  Nobody = Nobody
  going = going
  strayed = strayed
  wrong = wrong
  e = e
  f = f
  Source = {going, strayed, wrong}
  Contents <- MCContents
SYMMETRY Symmetry
INVARIANTS SeesOwnEnums VerdictIsOwn
