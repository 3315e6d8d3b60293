SPECIFICATION SinglesSpec
CONSTANTS
  Benches  <- sgBenches
  Second   = 2
  Times    = 2
  Cells    = 2
  MaxTicks = 3
  Settings <- sgSettings
  MsbBase  = 2
  LsbBase  = 2
  XlsbBase = 2
  Devices  <- sgDevices
  FreeFds    = 5
  MaxRounds  = 3
  MaxChanges = 2
  Scripts  <- sgScripts
  MaxEdits = 2
  Base     = 4
  MaxWords = 4
  Clients  <- mcClients
  MaxLoads = 3
INVARIANTS LapsAreTrue StatsAreTrue PatternFindsFaults
INVARIANTS BusTypeOK FailureShowsInSign TornReading
INVARIANTS NetTypeOK VerdictWasTrue LeaksAccounted NothingLeftLoaded ReceiverAccepts
INVARIANTS RegisteredIsLoaded HeardInOrder
PROPERTY OtherLosesToUnload
