SPECIFICATION FairSpec
CONSTANTS
  often = often
  seldom = seldom
  Job = {often, seldom}
  Due <- Timetable
  Grace = 0
  Horizon = 3
  MaxStarts = 3
  MaxFaults = 1
INVARIANT SpokenForOnce
INVARIANT RunLeavesEvidence
INVARIANT RunningHasOwner
PROPERTY OutcomeFinal
PROPERTY RowsSettle
CHECK_DEADLOCK FALSE
