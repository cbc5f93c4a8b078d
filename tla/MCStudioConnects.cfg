SPECIFICATION FairSpec
CHECK_DEADLOCK FALSE
CONSTANTS
  None = None
  edit = edit
  play = play
  host = host
  guest = guest
  other = other
  x = x
  y = y
  z = z
  w = w
  g = g
  Peers = {edit, play, host}
  Instances = {x, y}
  Groups = {g}
  InstanceOf <- MCInstanceOf
  TransportOf <- MCTransportOf
  KindOf <- MCKindOf
  RunsFor <- MCRunsFor
  MaxClient = 2
  MaxFaults = 0
PROPERTIES
  RunningConnects
