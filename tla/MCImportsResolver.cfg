SPECIFICATION Spec
CONSTANTS
  main = main
  lib1 = lib1
  lib2 = lib2
  a1 = a1
  a2 = a2
  File = {main, lib1, lib2}
  Alias = {a1, a2}
  Main = main
  Sections <- MCSections
  Healths = {"unreadable", "unsound", "sound"}
INVARIANTS CycleIsReal DependenciesFirst NamesMeanFiles SoundImportsSurvive
PROPERTIES ImplementsCheck ResolutionEnds
SYMMETRY Symmetry
CHECK_DEADLOCK FALSE
