SPECIFICATION Spec
CONSTANTS
  None = None
  host = host
  client = client
  Ids = {x1, x2}
  Peers = {host}
  Transports = {host}
  TransportOf <- MCHostOnly
  Reports = {"success", "error"}
  Owners = {o1}
  Owner = o1
  Transport = host
  MaxAcks = 1
  MaxOutstanding = 1
  MaxPending = 2
  MaxRecords = 2
  MaxRetained = 2
  MaxTombstones = 2
  Retention = 1
  CancelTTL = 1
  MaxActive = 1
  MaxRejections = 1
  MaxTerminal = 8
  Heartbeats = FALSE
  LinkFrames = 2
  MaxFailures = 1
SYMMETRY MCSymmetry
INVARIANTS
  NoLostWakeup
  NoStrayCancel
  AcknowledgedIsRecorded
PROPERTIES
  EnteredAtMostOnce
  ImplementsContract
