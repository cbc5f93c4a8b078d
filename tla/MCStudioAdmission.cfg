SPECIFICATION Spec
CONSTANTS
  None = None
  host = host
  client = client
  Ids = {x1, x2, x3}
  Peers = {host}
  Transports = {host}
  TransportOf <- MCHostOnly
  Reports = {"success"}
  Owners = {o1}
  Owner = o1
  Transport = host
  MaxAcks = 1
  MaxOutstanding = 1
  MaxPending = 3
  MaxRecords = 3
  MaxRetained = 0
  MaxTombstones = 0
  Retention = 1
  CancelTTL = 1
  MaxActive = 1
  MaxRejections = 1
  MaxTerminal = 2
  Heartbeats = FALSE
  LinkFrames = 1
  MaxFailures = 0
SYMMETRY MCSymmetry
INVARIANTS
  TombstonesReserved
