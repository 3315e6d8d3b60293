SPECIFICATION SinglesSpec
CONSTANTS
  Benches  <- sgBenches
  Second   = 3
  Times    = 2
  Cells    = 2
  MaxTicks = 6
  Settings <- sgSettings
  MsbBase  = 2
  LsbBase  = 2
  XlsbBase = 2
  Devices  <- sgDevices
  FreeFds    = 5
  MaxRounds  = 3
  MaxChanges = 2
  Scripts  <- sgScripts
  MaxEdits = 2
  Base     = 4
  MaxWords = 4
  Clients  <- mcClients
  MaxLoads = 3
INVARIANT RatesAreOfTheTime
