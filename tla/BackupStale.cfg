SPECIFICATION Spec
CONSTANTS
  i1 = i1
  i2 = i2
  cli = cli
  core = core
  tasks = tasks
  project = project
  v1 = v1
  v2 = v2
  calendar = calendar
  mail = mail
  add = add
  list = list
  ping = ping
  note = note
  Instance = {i1}
  Command = {cli}
  Migrator = {i1, cli}
  Nobody = Nobody
  LaneOrder <- LaneList
  Project = project
  Release = {v1, v2}
  First = v1
  Heads <- HeadsOf
  Defects <- OnlyCore
  Kept = 5
  MaxProject = 0
  MaxEvents = 4
  AutoMigrate <- Always
  ServerOrder <- NoServers
  Native = {note}
  ToolName = {add, list, ping, note}
  Listings <- Nothing
  ToolCap = 2
PROPERTY SkippedCopyIsFresh
