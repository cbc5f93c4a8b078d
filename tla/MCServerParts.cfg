SPECIFICATION MCSpec
CHECK_DEADLOCK FALSE
CONSTANTS
  a = a
  b = b
  c = c
  here = here
  there = there
  NoOwner = NoOwner
  Operations = {a, b, c}
  Processes = {here, there}
  ProcessOf <- MCProcessOf
  MaxInstances = 3
  MayCrash = {there}
  MaySuspend = TRUE
  MayFail = {a, b}
  Owner = owner
  Other = other
  MaxWrites = 1
  ViewPeers = {p1}
  Groups = {g1}
  MaxPolls = 2
  Callers = {c1, c2}
  Proxied = {c1}
  NoCaller = NoCaller
  MaxAdmissions = 2
  UploadCalls = {u1, u2}
  UploadPeers = {x1, x2}
  MaxUploads = 2
  Sweepers = {v1}
  Refreshers = {f1}
  Misses = 2
  Grace = 2
  MaxTime = 4
  MaxPersists = 1
SYMMETRY MCSymmetry
INVARIANTS
  LiveOwnerNotCondemned
  NothingLeftBehind
  LiveStudioIsRecorded
  GoneStaysGone
  NotExecutedIsFinal
  UploadedOnce
  ExitIsConfirmed
