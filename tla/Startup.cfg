SPECIFICATION Spec
CONSTANTS
  i1 = i1
  i2 = i2
  cli = cli
  core = core
  tasks = tasks
  project = project
  v1 = v1
  v2 = v2
  calendar = calendar
  mail = mail
  add = add
  list = list
  ping = ping
  note = note
  Instance = {i1, i2}
  Command = {cli}
  Migrator = {i1, i2, cli}
  Nobody = Nobody
  LaneOrder <- LaneList
  Project = project
  Release = {v1, v2}
  First = v1
  Heads <- HeadsOf
  Defects <- NoneOrTasks
  Kept = 3
  MaxProject = 1
  MaxEvents = 2
  AutoMigrate <- Booleans
  ServerOrder <- Servers
  Native = {note}
  ToolName = {add, list, ping, note}
  Listings <- Adverts
  ToolCap = 2
SYMMETRY InstanceSymmetry
INVARIANTS PartsUnderLock NeverBehind UndoExists FirstMountWins 
