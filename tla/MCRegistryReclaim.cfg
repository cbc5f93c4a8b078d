SPECIFICATION Spec
CHECK_DEADLOCK FALSE
CONSTANTS
  a = a
  b = b
  c = c
  here = here
  there = there
  NoOwner = NoOwner
  Operations = {a, b, c}
  Processes = {here, there}
  ProcessOf <- MCProcessOf
  MaxInstances = 5
  MayCrash = {there}
  MaySuspend = FALSE
  MayFail = {}
INVARIANTS
  MutualExclusion
