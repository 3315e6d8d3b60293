SPECIFICATION FairSpec
CONSTANTS
  Pins       <- mcPins
  PwmPins    <- mcPwmPins
  InputPin   = 7
  ChannelOf  <- mcChannelOf
  Half       = 512
  Samples    = 1024
  WaveCounts <- mcWaveCounts
  Counts     <- mcCounts
  GpioPins   <- mcGpioPins
  LowPins    <- mcLowPins
  HighPins   <- mcHighPins
  PwmSeq     <- mcPwmSeq
  n          = 1
  FdLimit    = 10
  MaxRounds  = 2
  FaultMaps  <- mcFaultMaps
  SpiFailing = {1}
  Benches    <- mcJumpered
INVARIANTS GpioNamesFaults FirstRoundPasses
PROPERTIES ImplementsStation RoundEnds
