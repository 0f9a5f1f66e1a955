SPECIFICATION Spec
CONSTANTS
  Budget = 3
  Horizon = 5
  Kept = 2
  TaintMode = "turn"
  Sizes = {1, 2}
  SummarySizes = {1, 2}
  MaxRows = 8
INVARIANT SummaryTaintFaithful
