CONSTANTS
  m1 = m1
  m2 = m2
  u1 = u1
  u2 = u2
  c1 = c1
  c2 = c2
  fetch = fetch
  write = write
  erase = erase
  ghost = ghost
  NoRequest = NoRequest
  NoTurn = NoTurn
  Tool <- MCTool
  Confirm <- MCConfirm
  ReadOnly <- MCReadOnly
  Untrusted <- MCUntrusted
  Msg = {m1}
  User = {u1}
  Sender <- OneSender
  Conf = {c1, c2}
  Batches <- Mixed
  Registries <- Upgrades
  SummaryTaint = {FALSE, TRUE}
  TaintMode = "turn"
  IterationCap = 3
  QueueBound = 1
SPECIFICATION Spec
SYMMETRY ConfSymmetry
INVARIANTS NoUnapprovedMutation EffectsAccountedFor
PROPERTIES HonestFailure
