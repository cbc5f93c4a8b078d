SPECIFICATION MCSpec
CHECK_DEADLOCK FALSE
CONSTANTS
  None = None
  server = server
  client = client
  Ids = {x1, x2, x3}
  Peers = {server, client}
  Transports = {server}
  TransportOf <- MCTransportOf
  Reports = {"success", "unknown"}
  Owners = {o1}
  MaxOutstanding = 1
  MaxPending = 2
  MaxRecords = 2
  MaxRetained = 1
  MaxTombstones = 1
  Retention = 2
  CancelTTL = 1
  Windows = {wa, wb}
  Runtimes = {r1, r2}
  NoRuntime = NoRuntime
  MaxPlays = 1
  ClientRequests = {q1, q2}
  StopRequests = {t1, t2}
  NoStop = NoStop
  MaxSessions = 2
  Sources <- MCSources
  EditLists <- MCEditLists
  LF = "n"
  Bytes = {"a", "n", "x"}
  NumScripts = 2
  EditCalls = {e1}
  Replace = replace
  Draft = draft
SYMMETRY MCSymmetry
INVARIANTS
  MapsAgree
  OutstandingBounded
  PruneComplete
  SettledNotCancelled
  NoTicketTakenTwice
  NotExecutedNeverRan
  StopIsTrue
  DiffIsTheChange
  WritersKeepFaith
PROPERTIES
  DispatchedAtMostOnce
  SettledIsFinal
