SPECIFICATION Spec
CONSTANTS
  Total    = 5
  Copies   = {0, 1, 2}
  Strays   = 1
  Failures <- mcNoFailure
INVARIANT LinesAreAnswers
