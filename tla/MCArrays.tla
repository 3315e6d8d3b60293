------------------------------ MODULE MCArrays -------------------------------
(***************************************************************************)
(* The real arrays of test.c: the seventeen pins of GpioTest, the twelve   *)
(* and five of resetGPIO, the four of PWMTest.  The last pin is broken or  *)
(* none is; the jumper is that of ExampleCode/PWMTest2.c; and the buses    *)
(* are in any state.                                                       *)
(***************************************************************************)
EXTENDS CombineCodeClaims

arPwmSeq    == <<26, 23, 1, 24>>
arPwmPins   == Range(arPwmSeq)
arChannelOf == [p \in arPwmPins |-> IF p \in {26, 1} THEN 0 ELSE 1]
arGpioPins  == <<7, 0, 2, 3, 21, 22, 23, 25, 15, 16, 4, 5, 6, 31, 27, 28, 29>>
arLowPins   == <<0, 2, 3, 23, 25, 4, 5, 6, 31, 27, 28, 29>>
arHighPins  == <<7, 21, 22, 15, 16>>
arPins      == Range(arGpioPins) \union arPwmPins

arWaveCounts == {502, 522}
arCounts     == {0, 501, 502, 522, 523, 1024}

arSound == [p \in arPins |-> "ok"]
arFaultMaps == {arSound, [arSound EXCEPT ![29] = "low"]}

arBench(s, d) == [wired |-> {1}, spi |-> s, i2c |-> d]
arBenches ==
  {arBench(s, "device") : s \in [{0, 1} -> SpiStates]}
    \union {arBench([c \in {0, 1} |-> "loop"], d) : d \in I2cStates}
==============================================================================
