SPECIFICATION FairSpec
CONSTANTS
  c1 = c1
  c2 = c2
  get = get
  put = put
  Caller = {c1, c2}
  Tool = {get}
  Registered <- OneNote
  Adverts <- Same
  Attempts = 2
  MaxGeneration = 2
  MaxQueued = 2
  Nobody = Nobody
PROPERTY CallsReturn
PROPERTY Recovers
