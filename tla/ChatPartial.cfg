SPECIFICATION CallSpec
CONSTANTS
  AnswerLen = 3
  MaxNoise = 2
CHECK_DEADLOCK FALSE
INVARIANTS
  WholeAnswer
