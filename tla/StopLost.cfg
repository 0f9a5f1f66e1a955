SPECIFICATION FairSpec
CONSTANTS
  i1 = i1
  i2 = i2
  cli = cli
  core = core
  tasks = tasks
  project = project
  v1 = v1
  v2 = v2
  calendar = calendar
  mail = mail
  add = add
  list = list
  ping = ping
  note = note
  Instance = {i1}
  Command = {}
  Migrator = {i1}
  Nobody = Nobody
  LaneOrder <- LaneList
  Project = project
  Release = {v1, v2}
  First = v1
  Heads <- HeadsOf
  Defects <- Sound
  Kept = 5
  MaxProject = 0
  MaxEvents = 1
  AutoMigrate <- Always
  ServerOrder <- Servers
  Native = {note}
  ToolName = {add, list, ping, note}
  Listings <- Adverts
  ToolCap = 2
PROPERTY CancelStops
