SPECIFICATION Spec
CONSTANTS
  u1 = u1
  u2 = u2
  q1 = q1
  tg = tg
  stranger1 = stranger1
  stranger2 = stranger2
  client1 = client1
  client2 = client2
  User = {u1, u2}
  Telegram = tg
  Request = {q1}
  Digest <- TickAndUndo
  TokenCap = 2
  TokenTTL = 1
  DayLength = 2
  Stranger = {stranger1, stranger2}
  StrangerCap = 1
  Cooldown = 2
  Client = {client1, client2}
  ClientCap = 1
  MaxFailures = 2
  Window = 2
  MaxTime = 2
  MaxEvents = 4
CHECK_DEADLOCK FALSE
INVARIANTS TickedOnce RowsAccountFor LimitsHold
 
