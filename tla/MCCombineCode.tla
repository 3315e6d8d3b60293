---------------------------- MODULE MCCombineCode ----------------------------
(***************************************************************************)
(* A small board for TLC: the input pin, one GPIO pin of each kind that    *)
(* the arrays of test.c tell apart (in LowPins, in HighPins, also a PWM    *)
(* pin), and the four PWM pins on their two channels.                      *)
(***************************************************************************)
EXTENDS CombineCodeClaims

mcPwmSeq    == <<26, 23, 1, 24>>
mcPwmPins   == {26, 23, 1, 24}
mcChannelOf == [p \in mcPwmPins |-> IF p \in {26, 1} THEN 0 ELSE 1]
mcGpioPins  == <<7, 0, 21, 23>>
mcLowPins   == <<0, 23>>
mcHighPins  == <<7, 21>>
mcPins      == {7, 0, 21} \union mcPwmPins

(* 502 and 522 are the first and the last count inside 49 % .. 51 % of     *)
(* 1024, 501 and 523 the nearest outside.                                  *)
mcWaveCounts == {502, 522}
mcCounts     == {0, 501, 502, 522, 523, 1024}

mcSound == [p \in mcPins |-> "ok"]

(* At most one broken pin, of those that play different parts *)
mcFaultMaps ==
  {mcSound} \union {[mcSound EXCEPT ![p] = f] : p \in {7, 0, 23, 1},
                                                f \in {"low", "high", "dead"}}

mcBench(w) == [wired |-> w, spi |-> [c \in {0, 1} |-> "loop"], i2c |-> "device"]

(* Stations that differ in the jumpers to the input pin *)
mcJumpered == {mcBench(w) : w \in {{}, {1}, {23}, {26, 1}, mcPwmPins}}
==============================================================================
