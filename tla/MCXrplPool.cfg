SPECIFICATION FairSpec
CONSTANTS
  N = 2
  Breakable = {0}
  Requests = {r1}
  MaxClients = 3
  MaxFaults = 3
INVARIANT Watched
INVARIANT OneStream
PROPERTY Recovers
CHECK_DEADLOCK FALSE
