-------------------------------- MODULE Board --------------------------------
(***************************************************************************)
(* The Raspberry Pi under test as the program of src/CombineCode reaches   *)
(* it: through wiringPi, a pin at a time.  wiringPi and the BCM2711 are    *)
(* not in the repository; this module says what the calls in test.c rely   *)
(* on them for.  A pin has a function (mode) and an output latch; the two  *)
(* PWM channels each feed two pins (src/document/KNH_Study/study.md:84);   *)
(* the jumper wires of the station join some PWM pins to the input pin     *)
(* that logPWMInput samples.  A pin may be broken (fault): shorted to      *)
(* ground or to the supply, or its driver dead.                            *)
(*                                                                         *)
(* The module has no actions of its own.  It has the operations the        *)
(* program's actions are made of, each a function from the old value of a  *)
(* variable to the new one, and what a read can return.                    *)
(***************************************************************************)
EXTENDS Integers, FiniteSets

CONSTANTS
  Pins,         \* wiringPi numbers of the pins the program touches
  PwmPins,      \* the pins that a PWM channel can drive
  InputPin,     \* INPUT_PIN, where logPWMInput listens
  ChannelOf,    \* the PWM channel of each PWM pin
  Half,         \* the duty value the program writes: 512 of 1024
  Samples,      \* totalCount, the reads logPWMInput makes
  WaveCounts,   \* HIGH reads among them of a clean half-duty wave
  Counts        \* HIGH reads among them when drivers oppose each other

LOW  == 0
HIGH == 1

Channels == {ChannelOf[p] : p \in PwmPins}

ASSUME BoardAssumption ==
  /\ PwmPins \subseteq Pins
  /\ InputPin \in Pins \ PwmPins
  /\ DOMAIN ChannelOf = PwmPins
  /\ Half \in Nat \ {0}
  /\ Samples \in Nat \ {0}
  /\ Counts \subseteq 0..Samples
  /\ WaveCounts \subseteq Counts

Modes  == {"INPUT", "OUTPUT", "PWM_OUTPUT"}
Faults == {"ok", "low", "high", "dead"}

VARIABLES
  mode,    \* the function each pin is switched to
  latch,   \* the level each pin drives when it is an OUTPUT
  duty,    \* the duty each PWM channel runs at, 0 at power-up
  fault    \* what is wrong with each pin, if anything

boardVars == <<mode, latch, duty, fault>>

BoardTypeOK ==
  /\ mode \in [Pins -> Modes]
  /\ latch \in [Pins -> {LOW, HIGH}]
  /\ duty \in [Channels -> {0, Half}]
  /\ fault \in [Pins -> Faults]

(***************************************************************************)
(* pinMode, digitalWrite and pwmWrite.  Writing the latch does not need    *)
(* the pin to be an output and does not make it one; switching a pin away  *)
(* from PWM_OUTPUT leaves its channel running for the other pin.           *)
(***************************************************************************)
PinMode(modes, ps, f) == [p \in Pins |-> IF p \in ps THEN f ELSE modes[p]]

DigitalWrite(levels, ps, v) == [p \in Pins |-> IF p \in ps THEN v ELSE levels[p]]

PwmWrite(duties, p, d) == [duties EXCEPT ![ChannelOf[p]] = d]

-----------------------------------------------------------------------------
(***************************************************************************)
(* What a pin reads.  wired is the set of PWM pins jumpered to InputPin:   *)
(* they and InputPin are one net.                                          *)
(***************************************************************************)
Net(wired, p) ==
  IF p \in wired \union {InputPin} THEN wired \union {InputPin} ELSE {p}

Drivers(wired, p) ==
  {q \in Net(wired, p) : mode[q] # "INPUT" /\ fault[q] # "dead"}

Shorted(wired, p, how) == \E q \in Net(wired, p) : fault[q] = how

(* The levels a working driver puts on its net over time. *)
Driven(q) ==
  IF mode[q] = "OUTPUT" THEN {latch[q]}
  ELSE IF duty[ChannelOf[q]] = 0 THEN {LOW} ELSE {LOW, HIGH}

(* digitalRead(p).  A short decides (a short to ground before one to the   *)
(* supply); with no driver the net floats; drivers that disagree make the  *)
(* read either.                                                            *)
Levels(wired, p) ==
  IF Shorted(wired, p, "low") THEN {LOW}
  ELSE IF Shorted(wired, p, "high") THEN {HIGH}
  ELSE IF Drivers(wired, p) = {} THEN {LOW, HIGH}
  ELSE UNION {Driven(q) : q \in Drivers(wired, p)}

(* How many of the Samples reads of InputPin are HIGH.  An undriven input  *)
(* counts as steady at either level; one running channel alone gives a     *)
(* clean wave; two running channels, or one against a steady driver,       *)
(* oppose each other.                                                      *)
SteadyCounts(vs) == {IF v = HIGH THEN Samples ELSE 0 : v \in vs}

Running(q) == mode[q] = "PWM_OUTPUT" /\ duty[ChannelOf[q]] # 0

HighCounts(wired) ==
  LET ds == Drivers(wired, InputPin)
  IN  IF \/ Shorted(wired, InputPin, "low")
         \/ Shorted(wired, InputPin, "high")
         \/ \A q \in ds : ~Running(q)
      THEN SteadyCounts(Levels(wired, InputPin))
      ELSE IF \A q, r \in ds : Running(q) /\ ChannelOf[q] = ChannelOf[r]
      THEN WaveCounts
      ELSE Counts
==============================================================================
