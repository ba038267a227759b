CONSTANTS
  Function = {f1, f2, f3}
SPECIFICATION SortSpec
INVARIANTS FirstCycleIsLoop NoUnderflow CallersFirst NoneIffCyclic
PROPERTIES AnswersCorrectly SortTerminates
CHECK_DEADLOCK FALSE
