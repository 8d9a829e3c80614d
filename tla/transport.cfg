CONSTANTS
  Remotes = {r1, r2}
  Nobody = nobody
  UnsetRemotes = {nobody}
  ListenPorts = {1}
  FirstPort = 2
  PortSpace = 3
  MaxSockets = 3
  MaxTcpSockets = 3
  MaxControls = 2
  Window = 2
  FinAck = 17
  UnsetAcks = {2}
  MallocFails = FALSE
SPECIFICATION Spec
INVARIANTS OneSenderEach OwnDatagrams OwnSegments NothingUnsentIsAcked
PROPERTY RefusedForEver
CHECK_DEADLOCK FALSE
SYMMETRY Symmetry
