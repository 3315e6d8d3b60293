SPECIFICATION Spec
CONSTANTS
  Pins       <- arPins
  PwmPins    <- arPwmPins
  InputPin   = 7
  ChannelOf  <- arChannelOf
  Half       = 512
  Samples    = 1024
  WaveCounts <- arWaveCounts
  Counts     <- arCounts
  GpioPins   <- arGpioPins
  LowPins    <- arLowPins
  HighPins   <- arHighPins
  PwmSeq     <- arPwmSeq
  n          = 2
  FdLimit    = 16
  MaxRounds  = 2
  FaultMaps  <- arFaultMaps
  SpiFailing = {0, 1}
  Benches    <- arBenches
INVARIANTS TypeOK FdBudget OutputsConfined
PROPERTIES ImplementsStation AbortHasCause LoopbackPasses
