SPECIFICATION Spec
CONSTANTS
  MaxPath = 6
INVARIANTS TypeOK AnswersAllowed
\* the scan of a path ends
CHECK_DEADLOCK FALSE
