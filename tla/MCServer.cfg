SPECIFICATION FairSpec
CONSTANTS
  Sources = {here, there, elsewhere}
  MaxConnections = 2
  MaxConnectionsPerIP = 1
  MaxArrivals = 3
  Worlds <- MCWorlds
INVARIANTS AdmissionAccounted LaunchesAuthorized
PROPERTY ServerStops
CHECK_DEADLOCK FALSE
