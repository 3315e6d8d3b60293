SPECIFICATION PinsSpec
CONSTANTS
  Groups    <- mcGroups
  Found     <- mcFound
  PinEchoes <- mcPinEchoes
  Steps     = 4
  Setups   <- mcSetups
  Boards   <- mcBoards
  Echoes   <- mcEchoes
INVARIANTS PinTypeOK FunctionsStick EndsDark MarksComplement WaveIsTheOnesOwn
INVARIANTS WalkTypeOK OnlyTheTestedPin NamesFaults EndsUndriven
