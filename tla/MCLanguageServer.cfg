SPECIFICATION Spec
CONSTANTS
  MaxTexts = 3
INVARIANTS QuietIsCurrent FreshAnswerIsNew
PROPERTY EveryTextIsAnswered
CHECK_DEADLOCK FALSE
