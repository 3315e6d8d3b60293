SPECIFICATION FairSpec
CHECK_DEADLOCK FALSE
CONSTANTS
  Total    = 3
  Copies   = {0, 1, 2}
  Strays   = 1
  Failures <- mcAnyFailure
INVARIANTS TypeOK LinesInOrder FailedSendSilences
PROPERTY AnsweredRunEnds
