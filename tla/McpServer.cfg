SPECIFICATION Spec
CONSTANTS
  c1 = c1
  c2 = c2
  get = get
  put = put
  Caller = {c1, c2}
  Tool = {get, put}
  Registered <- Notes
  Adverts <- Everything
  Attempts = 1
  MaxGeneration = 2
  MaxQueued = 2
  Nobody = Nobody
SYMMETRY CallerSymmetry
 
INVARIANT HealthyConnectionKept
PROPERTY DriftWithholds
INVARIANT MutationsSentOnce
