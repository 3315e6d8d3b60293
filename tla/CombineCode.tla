----------------------------- MODULE CombineCode -----------------------------
(***************************************************************************)
(* The combined test program: main.c and the tests of test.c it calls.     *)
(*                                                                         *)
(* main reads a menu number for ever; 0 runs a round: n times GpioTest,    *)
(* resetGPIO, PWMTest, SPITest_0, SPITest_1 and i2cTest, adding each       *)
(* test's verdict to a global counter, then a summary of the counters.     *)
(* Everything runs in one thread, so one variable pc says where it is.     *)
(* A test that touches the pins is split where it sleeps or samples, for   *)
(* the pins keep what earlier tests left on them and the read depends on   *)
(* it.  Between rounds the operator may rewire the station.                *)
(***************************************************************************)
EXTENDS Board, Sequences, Functions

CONSTANTS
  GpioPins,   \* the pins of GpioTest, in order
  LowPins,    \* the first array of resetGPIO
  HighPins,   \* the second array of resetGPIO, HighPin
  PwmSeq,     \* the pins of PWMTest, in order
  n,          \* iterations of a round
  FdLimit,    \* descriptors the process can still open when it starts
  MaxRounds,  \* bound: rounds the operator asks for
  FaultMaps,  \* the boards considered: the possible values of fault
  SpiFailing, \* bound: the SPI channels whose transfers may fail
  Benches     \* the stations considered: the possible values of bench

RunTests == {"GPIO", "PWM", "SPI0", "SPI1", "I2C"}
Reported == RunTests \union {"wifi", "Ethernet", "Bluetooth"}

SpiStates == {"loop", "open", "absent"}      \* jumpered, not, no device node
I2cStates == {"device", "silent", "absent"}  \* answers, does not, no adapter

ASSUME ProgramAssumption ==
  /\ GpioPins \in Seq(Pins)
  /\ LowPins \in Seq(Pins)
  /\ HighPins \in Seq(Pins)
  /\ Len(HighPins) <= Len(LowPins)
  /\ PwmSeq \in Seq(PwmPins) \ {<<>>}
  /\ n \in Nat \ {0}
  /\ FdLimit \in Nat
  /\ MaxRounds \in Nat
  /\ FaultMaps \subseteq [Pins -> Faults]
  /\ SpiFailing \subseteq {0, 1}
  /\ Benches \subseteq [wired : SUBSET PwmPins,
                        spi   : [{0, 1} -> SpiStates],
                        i2c   : I2cStates]

(* resetGPIO names every pin that GpioTest drives. *)
ASSUME ArraysFit ==
  Range(GpioPins) \subseteq Range(LowPins) \union Range(HighPins)

VARIABLES
  pc,         \* the step the program is at
  m,          \* the menu number, a global
  converted,  \* what the last scanf returned: did it store a number in m?
  iter,       \* the loop index of main
  i,          \* 1 + the loop index of GpioTest; in PWMTest, the pin's number
  check,      \* the local of GpioTest and of PWMTest (opposite senses)
  printed,    \* the pins the last GpioTest and PWMTest printed as failed
  counts,     \* the global counters of passes
  ready,      \* has wiringPiSetup succeeded?
  fds,        \* descriptors the tests have opened
  rounds,     \* rounds started
  bench,      \* how the station is wired to the board
  spiFailed   \* the channels whose last transfer failed, and was printed so

progVars == <<pc, m, converted, iter, i, check, printed, counts, ready, fds,
              rounds, bench, spiFailed>>
vars == <<boardVars, progVars>>

pinVars == <<mode, latch, duty>>

Locations ==
  {"menu", "gpioSetup", "gpioDrive", "gpioSense", "reset", "pwmSetup",
   "pwmWrite", "pwmSense", "spi0", "spi1", "i2c", "summary", "exited"}

Init ==
  /\ mode = [p \in Pins |-> "INPUT"]
  /\ latch = [p \in Pins |-> LOW]
  /\ duty = [c \in Channels |-> 0]
  /\ fault \in FaultMaps
  /\ bench \in Benches
  /\ pc = "menu"
  /\ m = 0
  /\ converted = FALSE
  /\ iter = 0
  /\ i = 1
  /\ check = 0
  /\ printed = [t \in {"GPIO", "PWM"} |-> {}]
  /\ counts = [t \in Reported |-> 0]
  /\ ready = FALSE
  /\ fds = 0
  /\ rounds = 0
  /\ spiFailed = {}

-----------------------------------------------------------------------------
(***************************************************************************)
(* Slips: what some definitions below would say if the code had a likely   *)
(* bug.  No definition uses them; they serve to show that each property    *)
(* notices such a bug.                                                     *)
(***************************************************************************)

(* = where main has +=: a verdict replaces the count. *)
ReturnAssigned(t, verdict, next) ==
  /\ counts' = [counts EXCEPT ![t] = verdict]
  /\ pc' = next

(* check follows the last pin alone. *)
JudgePinLast(v) ==
  /\ printed' = IF v = LOW
                THEN [printed EXCEPT !["GPIO"] = @ \union {GpioPins[i]}]
                ELSE printed
  /\ check' = IF v = LOW THEN 0 ELSE 1

(* A pin that failed is tried again until it passes. *)
NextPinRetried == i' = IF check' = 0 THEN i ELSE i + 1

(* resetGPIO without its second loop. *)
ResetModesFirst(modes) == PinMode(modes, Range(LowPins), "INPUT")

(* The lower bound of the band is 50 %. *)
InBandHalf(h) == 50 * Samples <= 100 * h /\ 100 * h <= 51 * Samples

(* A descriptor is assumed to be there. *)
SpiOpenedUnchecked ==
  IF bench.spi[0] = "absent" THEN 0 ELSE IF bench.spi[1] = "absent" THEN 1 ELSE 2

(* The adapter is opened again for the write part of i2cTest. *)
I2cOpenedTwice == 2

(* A device that does not answer ends the program, like a missing adapter. *)
I2cOpensSilent == bench.i2c = "device" /\ fds < FdLimit

-----------------------------------------------------------------------------
(* main adds the verdict that a test returns to the test's counter. *)
Return(t, verdict, next) ==
  /\ counts' = [counts EXCEPT ![t] = @ + verdict]
  /\ pc' = next

(* The i++ of the two loops over pins *)
NextPin == i' = i + 1

-----------------------------------------------------------------------------
(***************************************************************************)
(* main: the menu                                                          *)
(***************************************************************************)
Dispatch ==
  /\ pc = "menu"
  /\ IF m' = 0
     THEN /\ rounds < MaxRounds
          /\ rounds' = rounds + 1
          /\ pc' = "gpioSetup"
     ELSE UNCHANGED <<rounds, pc>>
  /\ UNCHANGED <<boardVars, iter, i, check, printed, counts, ready, fds, bench,
                 spiFailed>>

(* scanf stores the number the operator types. *)
ReadMenu(x) ==
  /\ m' = x
  /\ converted' = TRUE
  /\ Dispatch

(* scanf converts nothing (a letter, the end of the input): m keeps its value. *)
ReadNothing ==
  /\ m' = m
  /\ converted' = FALSE
  /\ Dispatch

(* The operator rewires the station, which only happens between rounds. *)
Rewire ==
  /\ pc = "menu"
  /\ bench' \in Benches \ {bench}
  /\ UNCHANGED <<boardVars, pc, m, converted, iter, i, check, printed, counts,
                 ready, fds, rounds, spiFailed>>

-----------------------------------------------------------------------------
(***************************************************************************)
(* GpioTest and resetGPIO                                                  *)
(***************************************************************************)

(* wiringPiSetup can fail until it has succeeded once; later calls return  *)
(* at once.  When it fails GpioTest returns 1, a pass.                     *)
GpioSetup ==
  /\ pc = "gpioSetup"
  /\ \/ /\ ready' = TRUE
        /\ check' = 1
        /\ i' = 1
        /\ printed' = [printed EXCEPT !["GPIO"] = {}]
        /\ pc' = "gpioDrive"
        /\ UNCHANGED counts
     \/ /\ ~ready
        /\ Return("GPIO", 1, "reset")
        /\ UNCHANGED <<ready, check, i, printed>>
  /\ UNCHANGED <<boardVars, m, converted, iter, fds, rounds, bench, spiFailed>>

GpioDrive ==
  /\ pc = "gpioDrive"
  /\ i <= Len(GpioPins)
  /\ mode' = PinMode(mode, {GpioPins[i]}, "OUTPUT")
  /\ latch' = DigitalWrite(latch, {GpioPins[i]}, HIGH)
  /\ pc' = "gpioSense"
  /\ UNCHANGED <<duty, fault, m, converted, iter, i, check, printed, counts,
                 ready, fds, rounds, bench, spiFailed>>

JudgePin(v) ==
  IF v = LOW
  THEN /\ printed' = [printed EXCEPT !["GPIO"] = @ \union {GpioPins[i]}]
       /\ check' = 0
  ELSE UNCHANGED <<printed, check>>

(* 0.3 s later: read the pin back, then drive it LOW and leave it so. *)
GpioSense ==
  /\ pc = "gpioSense"
  /\ \E v \in Levels(bench.wired, GpioPins[i]) : JudgePin(v)
  /\ latch' = DigitalWrite(latch, {GpioPins[i]}, LOW)
  /\ NextPin
  /\ pc' = "gpioDrive"
  /\ UNCHANGED <<mode, duty, fault, m, converted, iter, counts, ready, fds,
                 rounds, bench, spiFailed>>

GpioReturn ==
  /\ pc = "gpioDrive"
  /\ i > Len(GpioPins)
  /\ Return("GPIO", IF check = 1 THEN 1 ELSE 0, "reset")
  /\ UNCHANGED <<boardVars, m, converted, iter, i, check, printed, ready, fds,
                 rounds, bench, spiFailed>>

(* The pinMode calls of both loops of resetGPIO *)
ResetModes(modes) ==
  PinMode(modes, Range(LowPins) \union Range(HighPins), "INPUT")

(* The second loop writes pins[i], not HighPin[i].  Without a successful    *)
(* wiringPiSetup the first pinMode ends the process.                        *)
ResetGPIO ==
  /\ pc = "reset"
  /\ \/ /\ ready
        /\ mode' = ResetModes(mode)
        /\ latch' = DigitalWrite(DigitalWrite(latch, Range(LowPins), LOW),
                                 {LowPins[k] : k \in DOMAIN HighPins}, HIGH)
        /\ pc' = "pwmSetup"
     \/ /\ ~ready
        /\ pc' = "exited"
        /\ UNCHANGED <<mode, latch>>
  /\ UNCHANGED <<duty, fault, m, converted, iter, i, check, printed, counts,
                 ready, fds, rounds, bench, spiFailed>>

-----------------------------------------------------------------------------
(***************************************************************************)
(* PWMTest.  setup() is past the only place wiringPiSetup could fail.  A    *)
(* pin is switched on at half duty and InputPin sampled; nothing switches   *)
(* it off again, here or after the round.                                   *)
(***************************************************************************)
PwmSetup ==
  /\ pc = "pwmSetup"
  /\ mode' = PinMode(PinMode(mode, Range(PwmSeq), "PWM_OUTPUT"),
                     {InputPin}, "INPUT")
  /\ check' = 0
  /\ i' = 1
  /\ printed' = [printed EXCEPT !["PWM"] = {}]
  /\ pc' = "pwmWrite"
  /\ UNCHANGED <<latch, duty, fault, m, converted, iter, counts, ready, fds,
                 rounds, bench, spiFailed>>

PwmStart ==
  /\ pc = "pwmWrite"
  /\ i <= Len(PwmSeq)
  /\ duty' = PwmWrite(duty, PwmSeq[i], Half)
  /\ pc' = "pwmSense"
  /\ UNCHANGED <<mode, latch, fault, m, converted, iter, i, check, printed,
                 counts, ready, fds, rounds, bench, spiFailed>>

(* 49 % .. 51 % of the samples HIGH *)
InBand(h) == 49 * Samples <= 100 * h /\ 100 * h <= 51 * Samples

PwmSense ==
  /\ pc = "pwmSense"
  /\ \E h \in HighCounts(bench.wired) :
       IF InBand(h)
       THEN UNCHANGED <<printed, check>>
       ELSE /\ printed' = [printed EXCEPT !["PWM"] = @ \union {PwmSeq[i]}]
            /\ check' = 1
  /\ NextPin
  /\ pc' = "pwmWrite"
  /\ UNCHANGED <<boardVars, m, converted, iter, counts, ready, fds, rounds,
                 bench, spiFailed>>

PwmReturn ==
  /\ pc = "pwmWrite"
  /\ i > Len(PwmSeq)
  /\ Return("PWM", IF check = 1 THEN 0 ELSE 1, "spi0")
  /\ UNCHANGED <<boardVars, m, converted, iter, i, check, printed, ready, fds,
                 rounds, bench, spiFailed>>

-----------------------------------------------------------------------------
(***************************************************************************)
(* SPITest_0, SPITest_1 and i2cTest.  Each opens its device nodes anew and *)
(* closes none of them.                                                    *)
(***************************************************************************)
SpiOpened ==
  IF bench.spi[0] = "absent" \/ fds >= FdLimit THEN 0
  ELSE IF bench.spi[1] = "absent" \/ fds + 1 >= FdLimit THEN 1
  ELSE 2

(* (A slip.)  SPITest_1 copied from SPITest_0 with the channel left as it was. *)
SpiVerdictCopied(c) ==
  IF SpiOpened = 2 /\ c \notin spiFailed' /\ bench.spi[0] = "loop" THEN 1 ELSE 0

(* Both tests set up both channels and give up at the first that fails.    *)
(* The transfer of channel c may then fail; if it works it returns the     *)
(* bytes sent where the channel's data pins are joined.                    *)
Transfer(c) ==
  IF SpiOpened = 2
  THEN \/ spiFailed' = spiFailed \ {c}
       \/ c \in SpiFailing /\ spiFailed' = spiFailed \union {c}
  ELSE UNCHANGED spiFailed

SpiVerdict(c) ==
  IF SpiOpened = 2 /\ c \notin spiFailed' /\ bench.spi[c] = "loop" THEN 1 ELSE 0

SPITest(t, c, here, next) ==
  /\ pc = here
  /\ fds' = fds + SpiOpened
  /\ Transfer(c)
  /\ Return(t, SpiVerdict(c), next)
  /\ UNCHANGED <<boardVars, m, converted, iter, i, check, printed, ready,
                 rounds, bench>>

SPITest_0 == SPITest("SPI0", 0, "spi0", "spi1")
SPITest_1 == SPITest("SPI1", 1, "spi1", "i2c")

(* wiringPiI2CSetupInterface: whether it opens the adapter, and what it takes *)
I2cOpens  == bench.i2c # "absent" /\ fds < FdLimit
I2cOpened == 1

(* Failing to open the adapter ends the whole program; otherwise this was  *)
(* the last test of the iteration.                                         *)
I2cTest ==
  /\ pc = "i2c"
  /\ \/ /\ I2cOpens
        /\ fds' = fds + I2cOpened
        /\ Return("I2C", IF bench.i2c = "device" THEN 1 ELSE 0,
                  IF iter + 1 < n THEN "gpioSetup" ELSE "summary")
        /\ iter' = IF iter + 1 < n THEN iter + 1 ELSE 0
     \/ /\ ~I2cOpens
        /\ pc' = "exited"
        /\ UNCHANGED <<fds, counts, iter>>
  /\ UNCHANGED <<boardVars, m, converted, i, check, printed, ready, rounds,
                 bench, spiFailed>>

(* The summary prints counts[t] as the passes of test t and this as its     *)
(* failures.                                                                *)
Fail(t) == n - counts[t]

Summary ==
  /\ pc = "summary"
  /\ pc' = "menu"
  /\ UNCHANGED <<boardVars, m, converted, iter, i, check, printed, counts,
                 ready, fds, rounds, bench, spiFailed>>

-----------------------------------------------------------------------------
(* exit(1): the process is gone. *)
Exited == pc = "exited" /\ UNCHANGED vars

Operator == (\E x \in 0..5 : ReadMenu(x)) \/ ReadNothing \/ Rewire

Step ==
  \/ GpioSetup \/ GpioDrive \/ GpioSense \/ GpioReturn \/ ResetGPIO
  \/ PwmSetup \/ PwmStart \/ PwmSense \/ PwmReturn
  \/ SPITest_0 \/ SPITest_1 \/ I2cTest \/ Summary

Next == Operator \/ Step \/ Exited

(* The program is one thread that nothing blocks between the menu's reads: *)
(* it keeps stepping.  Nothing obliges the operator to type.               *)
Spec == Init /\ [][Next]_vars
FairSpec == Spec /\ WF_vars(Step)

-----------------------------------------------------------------------------
(***************************************************************************)
(* What must hold                                                          *)
(***************************************************************************)

(* Every variable stays in its range; the descriptors never exceed what the *)
(* process may open.                                                       *)
TypeOK ==
  /\ BoardTypeOK
  /\ pc \in Locations
  /\ m \in 0..5
  /\ converted \in BOOLEAN
  /\ iter \in 0..(n - 1)
  /\ i \in 1..(Len(GpioPins) + Len(PwmSeq) + 1)
  /\ check \in {0, 1}
  /\ printed \in [{"GPIO", "PWM"} -> SUBSET Pins]
  /\ counts \in [Reported -> Nat]
  /\ ready \in BOOLEAN
  /\ fds \in 0..FdLimit
  /\ rounds \in 0..MaxRounds
  /\ bench \in Benches
  /\ spiFailed \subseteq {0, 1}

InGpioTest == pc \in {"gpioDrive", "gpioSense"}

GpioTested ==
  IF InGpioTest THEN {GpioPins[k] : k \in 1..(i - 1)}
  ELSE IF ready THEN Range(GpioPins) ELSE {}

(* A pin that GpioTest may rightly, or excusably, print as failed: shorted  *)
(* to ground, not driving, or tied by a jumper to pins that oppose it.      *)
Suspect(p) ==
  \/ fault[p] \in {"low", "dead"}
  \/ bench.wired # {} /\ p \in bench.wired \union {InputPin}

(* GpioTest (test.c:50-59) names the right pins: from its loop to the       *)
(* summary of its round, every pin tried that is shorted to ground has been *)
(* printed as failed, none was printed that is sound and unconnected, and   *)
(* check is 0 exactly when one was printed.                                 *)
GpioNamesFaults ==
  pc \notin {"menu", "gpioSetup", "exited"} =>
    /\ \A p \in GpioTested : fault[p] = "low" => p \in printed["GPIO"]
    /\ \A p \in printed["GPIO"] : Suspect(p)
    /\ InGpioTest => (check = 0 <=> printed["GPIO"] # {})

(* No test leaves a pin driven for the ones after it: outside GpioTest and  *)
(* the resetGPIO after it no pin is a plain output, so at the menu, where   *)
(* the operator rewires, only PWM pins drive anything.  It needs the        *)
(* three pin arrays of test.c:48, 488 and 489 to fit each other.            *)
OutputsConfined ==
  /\ pc \notin {"gpioDrive", "gpioSense", "reset", "exited"} =>
       \A p \in Pins : mode[p] # "OUTPUT"
  /\ \A p \in Pins : mode[p] = "PWM_OUTPUT" => p \in PwmPins

(* Iterations completed since the program started *)
Completed ==
  IF pc = "menu" \/ pc = "summary" THEN rounds * n ELSE (rounds - 1) * n + iter

(* The leak of the SPI and I2C tests (test.c:213, 218, 460) is bounded: five *)
(* descriptors an iteration, spent at the places the tests take them.        *)
FdBudget ==
  fds <= 5 * Completed + (CASE pc = "spi1" -> 2
                            [] pc \in {"i2c", "exited"} -> 4
                            [] OTHER -> 0)

(* A test may only end the whole program for a cause: wiringPi could not be *)
(* set up, the I2C adapter is not there, or the iterations so far left no   *)
(* room for the five descriptors one takes (test.c:460-463).                *)
AbortHasCause ==
  [][pc' = "exited" /\ pc # "exited" =>
       \/ ~ready
       \/ bench.i2c = "absent"
       \/ 5 * (Completed + 1) > FdLimit]_vars

(* A jumpered SPI channel passes unless its own transfer fails and is       *)
(* printed so (test.c:181-184), however many rounds came before, as long as *)
(* both device nodes exist and the descriptors of the iteration fit.        *)
LoopbackPasses ==
  [][\A c \in {0, 1} :
       /\ pc = <<"spi0", "spi1">>[c + 1] /\ pc' # pc
       /\ bench.spi[c] = "loop" /\ bench.spi[1 - c] # "absent"
       /\ 5 * (Completed + 1) <= FdLimit
       => LET t == <<"SPI0", "SPI1">>[c + 1]
          IN counts'[t] = counts[t] + (IF c \in spiFailed' THEN 0 ELSE 1)]_vars

(* A sound board on a station wired for it: only pins of the channel that   *)
(* is switched on first are joined to InputPin, and GpioTest drives none.   *)
SoundStation ==
  /\ \A p \in Pins : fault[p] = "ok"
  /\ bench.wired # {}
  /\ \A p \in bench.wired : /\ p \notin Range(GpioPins)
                            /\ ChannelOf[p] = ChannelOf[PwmSeq[1]]
  /\ bench.spi = [c \in {0, 1} |-> "loop"]
  /\ bench.i2c = "device"

AllPassed == \A t \in RunTests : Fail(t) = 0

(* The first round of one iteration passes every test of a sound board,     *)
(* but for an SPI transfer that failed.                                     *)
FirstRoundPasses ==
  pc = "summary" /\ rounds = 1 /\ n = 1 /\ SoundStation /\ spiFailed = {}
    => AllPassed

(* A round that was started ends: the menu is back or the process is gone.  *)
RoundEnds == pc = "gpioSetup" ~> pc \in {"menu", "exited"}

(***************************************************************************)
(* The program implements TestStation.  While wiringPiSetup has not        *)
(* succeeded the program is about to end or has counted nothing, so the    *)
(* pass that a failed set-up returns (test.c:44-47) is never reported.     *)
(***************************************************************************)
PwmGrounds ==
  /\ \A q \in Net(bench.wired, InputPin) : fault[q] \notin {"low", "high"}
  /\ \E q \in bench.wired : fault[q] = "ok"

Grounds(t) ==
  \/ t = "GPIO" /\ \A p \in Range(GpioPins) : fault[p] # "low"
  \/ t = "PWM"  /\ PwmGrounds
  \/ t = "SPI0" /\ bench.spi[0] = "loop" /\ bench.spi[1] # "absent"
  \/ t = "SPI1" /\ bench.spi[1] = "loop" /\ bench.spi[0] # "absent"
  \/ t = "I2C"  /\ bench.i2c = "device"

Turn ==
  CASE pc \in {"pwmSetup", "pwmWrite", "pwmSense"} -> 2
    [] pc = "reset" -> IF ready THEN 2 ELSE 1
    [] pc = "spi0" -> 3
    [] pc = "spi1" -> 4
    [] pc = "i2c" -> 5
    [] pc = "exited" -> IF ready THEN 5 ELSE 1
    [] OTHER -> 1

Phase ==
  CASE pc = "menu" -> "idle"
    [] pc = "summary" -> "summary"
    [] pc = "exited" -> "off"
    [] OTHER -> "testing"

TestOrder == <<"GPIO", "PWM", "SPI0", "SPI1", "I2C">>
Tally     == [t \in Reported |-> IF ready THEN counts[t] ELSE 0]
Able      == {t \in RunTests : Grounds(t)}

Station == INSTANCE TestStation WITH
  Tests <- Reported, Order <- TestOrder,
  phase <- Phase, lap <- iter, turn <- Turn, tally <- Tally, able <- Able

(* Every step of the program is a step of the abstract station or none:     *)
(* the tests come in order and as often as asked, each counter moves only   *)
(* by its own test's verdict, and no test is passed without grounds.        *)
ImplementsStation == Station!Spec
==============================================================================
