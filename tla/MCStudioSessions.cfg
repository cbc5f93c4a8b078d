SPECIFICATION CleanupSpec
CHECK_DEADLOCK FALSE
CONSTANTS
  None = None
  edit = edit
  play = play
  host = host
  guest = guest
  other = other
  x = x
  y = y
  z = z
  w = w
  g = g
  Peers = {edit, play, host, guest, other}
  Instances = {x, y, z, w}
  Groups = {g}
  InstanceOf <- MCInstanceOf
  TransportOf <- MCTransportOf
  KindOf <- MCKindOf
  RunsFor <- MCRunsFor
  MaxClient = 2
  MaxFaults = 1
INVARIANTS
  GroupsAgree
  RolesBelongToOneInstance
  ClientsHaveTransport
PROPERTIES
  RuntimeKeepsGroup
  GoneLeave
