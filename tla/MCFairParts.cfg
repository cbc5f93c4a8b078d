SPECIFICATION MCSpec
CHECK_DEADLOCK FALSE
CONSTANTS
  Waiters = {w1, w2, w3}
  NoSet = NoSet
  Servers = {s1, s2, s3}
  MaxAttempts = 2
  Inputs <- MCInputs
  LineLimit = 2
  MaxClients = 2
  MaxGenerations = 1
  MaxCopies = 2
INVARIANTS
  SleepersAreHeard
  CallsHaveConsumer
  StreamIsFramed
PROPERTIES
  WaitsReturn
  PortIsTaken
  EndCloses
  RegistryFollowsClients
