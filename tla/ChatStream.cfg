SPECIFICATION FairCallSpec
CONSTANTS
  AnswerLen = 3
  MaxNoise = 2
CHECK_DEADLOCK FALSE
INVARIANTS
  TypeOK
  AnswerInOrder
  CutOnlyByLink
PROPERTIES
  ImplementsAgent
  CallReturns
