SPECIFICATION Spec
CONSTANTS
  Budget = 4
  Horizon = 5
  Kept = 2
  TaintMode = "turn"
  Sizes = {1, 2}
  SummarySizes = {1, 2}
  MaxRows = 7
INVARIANT WindowIsLongestFit
INVARIANT SummaryEndsBeforeWindow
 
INVARIANT TaintFollowsCalls
