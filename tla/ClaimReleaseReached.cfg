SPECIFICATION DeviceSpec
CONSTANTS
  Clients  <- mcClients
  MaxLoads = 3
INVARIANT ReleaseReached
