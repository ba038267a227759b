SPECIFICATION Spec
CONSTANTS
  Root = "DATA"
  Function <- MCFunction
  Statement <- MCStatement
  Label <- MCLabel
  Body <- MCBody
  RecursionLimit <- MCLimit
  Documents <- MCDocuments
  MaxAliasPasses = 2
  MinPasses = 1
  MaxPasses = 3
INVARIANT AliasesAreShown
CHECK_DEADLOCK FALSE
