SPECIFICATION FairSpec
CONSTANTS
  r1 = r1
  r2 = r2
  r3 = r3
  chat = chat
  brief = brief
  Nobody = Nobody
  Request = {r1, r2, r3}
  Channel = {chat}
  ChannelOf <- OneChat
  Job = {brief}
  Limit = 2
  Sizes = {1, 2}
  CallCap = 2
  MaxEvents = 2
CHECK_DEADLOCK FALSE
INVARIANTS LocksInUse 
PROPERTIES TurnsExclude EveryMessageEnds
