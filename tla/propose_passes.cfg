SPECIFICATION Spec
CONSTANTS
  Symbols <- MCSymbols
  Values = {"y", "m", "n", "250", "1000", "8", "16"}
  Order <- MCOrder
  Allowed <- MCAllowed
  BatchSize <- MCBatchSize
  Options <- MCOptions
  Decisions <- MCDecisions
  KconfigFiles = {f1}
  f1 = f1
  Nothing = Nothing
  Halves <- MCHalves
  FullDisk = FALSE
  MaxRuns = 3
CHECK_DEADLOCK FALSE
INVARIANTS
  AnswersFit
  SameQuestionSameAnswer
  OriginalTextSafe
