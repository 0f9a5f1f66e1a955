CONSTANTS
  m1 = m1
  m2 = m2
  u1 = u1
  u2 = u2
  c1 = c1
  c2 = c2
  fetch = fetch
  write = write
  erase = erase
  ghost = ghost
  NoRequest = NoRequest
  NoTurn = NoTurn
  Tool <- MCTool
  Confirm <- MCConfirm
  ReadOnly <- MCReadOnly
  Untrusted <- MCUntrusted
  Msg = {m1, m2}
  User = {u1, u2}
  Sender <- TwoSenders
  Conf = {c1, c2}
  Batches <- CleanOrTainted
  Registries <- Everything
  SummaryTaint = {FALSE}
  TaintMode = "window"
  IterationCap = 1
  QueueBound = 1
SPECIFICATION FairSpec
INVARIANTS AtMostOnePending ApprovedRunsOnce HistoryInTurnOrder RecordedOnce 
PROPERTIES RetryKeepsConfirmation ConfirmationsSpec  ApprovalSettles
