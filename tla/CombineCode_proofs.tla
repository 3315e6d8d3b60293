------------------------- MODULE CombineCode_proofs --------------------------
(***************************************************************************)
(* Theorems about the combined test program, for every choice of pins,     *)
(* arrays, wirings, faults, iterations, rounds and descriptors.            *)
(***************************************************************************)
EXTENDS CombineCode, TLAPS

-----------------------------------------------------------------------------
(***************************************************************************)
(* Types                                                                   *)
(***************************************************************************)

(* The loop index stays inside the array that its loop walks. *)
Indexed ==
  /\ pc = "gpioDrive" => i <= Len(GpioPins) + 1
  /\ pc = "gpioSense" => i <= Len(GpioPins)
  /\ pc = "pwmWrite"  => i <= Len(PwmSeq) + 1
  /\ pc = "pwmSense"  => i <= Len(PwmSeq)

TypeInv == TypeOK /\ Indexed

(* The lengths of the arrays are numbers and their entries are pins. *)
LEMMA ArrayFacts ==
  /\ Len(GpioPins) \in Nat /\ Len(PwmSeq) \in Nat
  /\ Len(LowPins) \in Nat /\ Len(HighPins) \in Nat
  /\ DOMAIN GpioPins = 1..Len(GpioPins) /\ DOMAIN PwmSeq = 1..Len(PwmSeq)
  /\ DOMAIN LowPins = 1..Len(LowPins) /\ DOMAIN HighPins = 1..Len(HighPins)
  /\ \A k \in 1..Len(GpioPins) : GpioPins[k] \in Pins
  /\ \A k \in 1..Len(PwmSeq) : PwmSeq[k] \in PwmPins
  /\ \A k \in 1..Len(LowPins) : LowPins[k] \in Pins
  /\ \A k \in 1..Len(HighPins) : HighPins[k] \in Pins
  BY ProgramAssumption

(* Setting pins keeps the types of the mode and latch functions. *)
LEMMA PinModeType ==
  ASSUME NEW modes \in [Pins -> Modes], NEW ps, NEW f \in Modes
  PROVE  PinMode(modes, ps, f) \in [Pins -> Modes]
  BY DEF PinMode

LEMMA DigitalWriteType ==
  ASSUME NEW levels \in [Pins -> {LOW, HIGH}], NEW ps, NEW v \in {LOW, HIGH}
  PROVE  DigitalWrite(levels, ps, v) \in [Pins -> {LOW, HIGH}]
  BY DEF DigitalWrite

LEMMA PwmWriteType ==
  ASSUME NEW duties \in [Channels -> {0, Half}], NEW p \in PwmPins
  PROVE  PwmWrite(duties, p, Half) \in [Channels -> {0, Half}]
  BY BoardAssumption DEF PwmWrite, Channels

(* A test never opens more descriptors than there are. *)
LEMMA SpiOpenedBound ==
  ASSUME fds \in 0..FdLimit
  PROVE  SpiOpened \in 0..2 /\ fds + SpiOpened \in 0..FdLimit
  BY ProgramAssumption DEF SpiOpened

LEMMA ReturnType ==
  ASSUME counts \in [Reported -> Nat], NEW t \in Reported, NEW v \in {0, 1},
         NEW next, Return(t, v, next)
  PROVE  counts' \in [Reported -> Nat] /\ pc' = next
  BY DEF Return

LEMMA InitTypes == Init => TypeInv
<1> SUFFICES ASSUME Init PROVE TypeInv
  OBVIOUS
<1> USE DEF Init
<1>1. BoardTypeOK
  BY ProgramAssumption DEF BoardTypeOK, Modes
<1>2. i \in 1..(Len(GpioPins) + Len(PwmSeq) + 1)
  BY ArrayFacts
<1>3. /\ printed \in [{"GPIO", "PWM"} -> SUBSET Pins]
      /\ counts \in [Reported -> Nat]
  OBVIOUS
<1>4. iter \in 0..(n - 1) /\ fds \in 0..FdLimit /\ rounds \in 0..MaxRounds
  BY ProgramAssumption
<1>5. /\ pc \in Locations /\ m \in 0..5 /\ check \in {0, 1} /\ bench \in Benches
      /\ converted \in BOOLEAN /\ ready \in BOOLEAN
  <2>1. pc \in Locations /\ m \in 0..5 /\ check \in {0, 1} /\ bench \in Benches
    BY DEF Locations
  <2>2. converted \in BOOLEAN /\ ready \in BOOLEAN
    BY Zenon
  <2>3. QED
    BY <2>1, <2>2
<1>6. Indexed
  BY DEF Indexed
<1>7. QED
  BY <1>1, <1>2, <1>3, <1>4, <1>5, <1>6, Zenon DEF TypeInv, TypeOK

LEMMA NextTypes == TypeInv /\ [Next]_vars => TypeInv'
<1> SUFFICES ASSUME TypeInv, [Next]_vars PROVE TypeInv'
  OBVIOUS
<1> USE DEF TypeInv, TypeOK, Indexed, BoardTypeOK, Locations
<1>1. ASSUME NEW x \in 0..5, ReadMenu(x) PROVE TypeInv'
  BY <1>1, ProgramAssumption DEF ReadMenu, Dispatch, boardVars
<1>2. CASE ReadNothing
  <2>1. m' \in 0..5 /\ converted' \in BOOLEAN
    BY <1>2 DEF ReadNothing
  <2>2. rounds' \in 0..MaxRounds /\ pc' \in Locations /\ Indexed'
    BY <1>2, ProgramAssumption DEF ReadNothing, Dispatch
  <2>3. QED
    BY <1>2, <2>1, <2>2 DEF ReadNothing, Dispatch, boardVars
<1>3. CASE Rewire
  BY <1>3 DEF Rewire, boardVars
<1>4. CASE GpioSetup
  <2>1. counts' \in [Reported -> Nat]
    BY <1>4, ReturnType DEF GpioSetup, Reported, RunTests
  <2>2. i' \in 1..(Len(GpioPins) + Len(PwmSeq) + 1)
    BY <1>4, ArrayFacts DEF GpioSetup
  <2>3. pc' \in Locations /\ Indexed'
    BY <1>4, <2>2, ArrayFacts DEF GpioSetup, Return
  <2>4. /\ ready' \in BOOLEAN /\ check' \in {0, 1}
        /\ printed' \in [{"GPIO", "PWM"} -> SUBSET Pins]
    BY <1>4 DEF GpioSetup
  <2>5. QED
    BY <1>4, <2>1, <2>2, <2>3, <2>4 DEF GpioSetup, boardVars
<1>5. CASE GpioDrive
  <2>1. /\ mode' \in [Pins -> Modes]
        /\ latch' \in [Pins -> {LOW, HIGH}]
    BY <1>5, PinModeType, DigitalWriteType DEF GpioDrive, Modes
  <2>2. QED
    BY <1>5, <2>1 DEF GpioDrive
<1>6. CASE GpioSense
  <2>1. latch' \in [Pins -> {LOW, HIGH}]
    BY <1>6, DigitalWriteType DEF GpioSense
  <2>2. i' \in 1..(Len(GpioPins) + Len(PwmSeq) + 1) /\ i' <= Len(GpioPins) + 1
    BY <1>6, ArrayFacts DEF GpioSense, NextPin
  <2>3. GpioPins[i] \in Pins
    BY <1>6, ArrayFacts DEF GpioSense
  <2>4. /\ printed' \in [{"GPIO", "PWM"} -> SUBSET Pins]
        /\ check' \in {0, 1}
    BY <1>6, <2>3 DEF GpioSense, JudgePin
  <2>5. QED
    BY <1>6, <2>1, <2>2, <2>4 DEF GpioSense
<1>7. CASE GpioReturn
  <2>1. counts' \in [Reported -> Nat] /\ pc' = "reset"
    BY <1>7, ReturnType DEF GpioReturn, Reported, RunTests
  <2>2. QED
    BY <1>7, <2>1 DEF GpioReturn, boardVars
<1>8. CASE ResetGPIO
  <2>1. mode' \in [Pins -> Modes]
    BY <1>8, PinModeType DEF ResetGPIO, ResetModes, Modes
  <2>2. latch' \in [Pins -> {LOW, HIGH}]
    <3>1. CASE ready
      <4>1. DigitalWrite(latch, Range(LowPins), LOW) \in [Pins -> {LOW, HIGH}]
        BY DigitalWriteType
      <4>2. QED
        BY <1>8, <3>1, <4>1, DigitalWriteType DEF ResetGPIO
    <3>2. CASE ~ready
      BY <1>8, <3>2 DEF ResetGPIO
    <3>3. QED
      BY <3>1, <3>2
  <2>3. QED
    BY <1>8, <2>1, <2>2 DEF ResetGPIO
<1>9. CASE PwmSetup
  <2>1. mode' \in [Pins -> Modes]
    <3>1. PinMode(mode, Range(PwmSeq), "PWM_OUTPUT") \in [Pins -> Modes]
      BY PinModeType DEF Modes
    <3>2. QED
      BY <1>9, <3>1, PinModeType DEF PwmSetup, Modes
  <2>2. i' \in 1..(Len(GpioPins) + Len(PwmSeq) + 1) /\ i' <= Len(PwmSeq) + 1
    BY <1>9, ArrayFacts DEF PwmSetup
  <2>3. printed' \in [{"GPIO", "PWM"} -> SUBSET Pins]
    BY <1>9 DEF PwmSetup
  <2>4. QED
    BY <1>9, <2>1, <2>2, <2>3 DEF PwmSetup
<1>10. CASE PwmStart
  <2>1. PwmSeq[i] \in PwmPins
    BY <1>10, ArrayFacts DEF PwmStart
  <2>2. duty' \in [Channels -> {0, Half}]
    BY <1>10, <2>1, PwmWriteType DEF PwmStart
  <2>3. QED
    BY <1>10, <2>2 DEF PwmStart
<1>11. CASE PwmSense
  <2>1. i' \in 1..(Len(GpioPins) + Len(PwmSeq) + 1) /\ i' <= Len(PwmSeq) + 1
    BY <1>11, ArrayFacts DEF PwmSense, NextPin
  <2>2. PwmSeq[i] \in Pins
    BY <1>11, ArrayFacts, BoardAssumption DEF PwmSense
  <2>3. /\ printed' \in [{"GPIO", "PWM"} -> SUBSET Pins]
        /\ check' \in {0, 1}
    BY <1>11, <2>2 DEF PwmSense
  <2>4. QED
    BY <1>11, <2>1, <2>3 DEF PwmSense, boardVars
<1>12. CASE PwmReturn
  <2>1. counts' \in [Reported -> Nat] /\ pc' = "spi0"
    BY <1>12, ReturnType DEF PwmReturn, Reported, RunTests
  <2>2. QED
    BY <1>12, <2>1 DEF PwmReturn, boardVars
<1>13. ASSUME NEW t \in {"SPI0", "SPI1"}, NEW c \in {0, 1}, NEW here,
              NEW next \in {"spi1", "i2c"}, SPITest(t, c, here, next)
       PROVE  TypeInv'
  <2>1. counts' \in [Reported -> Nat] /\ pc' = next
    BY <1>13, ReturnType DEF SPITest, SpiVerdict, Reported, RunTests
  <2>2. fds' \in 0..FdLimit
    BY <1>13, SpiOpenedBound DEF SPITest
  <2>3. spiFailed' \subseteq {0, 1}
    BY <1>13 DEF SPITest, Transfer
  <2>4. QED
    BY <1>13, <2>1, <2>2, <2>3 DEF SPITest, boardVars
<1>14. CASE I2cTest
  <2>1. fds' \in 0..FdLimit
    BY <1>14, ProgramAssumption DEF I2cTest, I2cOpens, I2cOpened
  <2>2. iter' \in 0..(n - 1)
    BY <1>14, ProgramAssumption DEF I2cTest
  <2>3. counts' \in [Reported -> Nat]
    BY <1>14, ReturnType DEF I2cTest, Reported, RunTests
  <2>4. QED
    BY <1>14, <2>1, <2>2, <2>3 DEF I2cTest, Return, boardVars
<1>15. CASE Summary
  BY <1>15 DEF Summary, boardVars
<1>16. CASE UNCHANGED vars
  BY <1>16 DEF vars, boardVars, progVars
<1>17. QED
  BY <1>1, <1>2, <1>3, <1>4, <1>5, <1>6, <1>7, <1>8, <1>9, <1>10, <1>11,
     <1>12, <1>13, <1>14, <1>15, <1>16
     DEF Next, Operator, Step, Exited, SPITest_0, SPITest_1

(* Every variable stays in its range, every array index inside its array,  *)
(* and the program never holds more descriptors than the process may open. *)
THEOREM TypeCorrect == Spec => []TypeOK
<1>1. Spec => []TypeInv
  BY InitTypes, NextTypes, PTL DEF Spec
<1>2. QED
  BY <1>1, PTL DEF TypeInv

-----------------------------------------------------------------------------
(***************************************************************************)
(* What is driven                                                          *)
(***************************************************************************)

(* A plain output is a pin of GpioTest's array, and resetGPIO has yet to     *)
(* come; what runs a PWM is a PWM pin.                                      *)
ModeInv ==
  \A p \in Pins :
    /\ mode[p] = "OUTPUT" => /\ p \in Range(GpioPins)
                             /\ pc \in {"gpioDrive", "gpioSense", "reset", "exited"}
    /\ mode[p] = "PWM_OUTPUT" => p \in PwmPins

LEMMA PinModeAt ==
  ASSUME NEW modes, NEW ps, NEW f, NEW p \in Pins
  PROVE  PinMode(modes, ps, f)[p] = IF p \in ps THEN f ELSE modes[p]
  BY DEF PinMode

LEMMA DigitalWriteAt ==
  ASSUME NEW levels, NEW ps, NEW v, NEW p \in Pins
  PROVE  DigitalWrite(levels, ps, v)[p] = IF p \in ps THEN v ELSE levels[p]
  BY DEF DigitalWrite

LEMMA RangeFacts ==
  /\ \A p : p \in Range(GpioPins) <=> \E k \in 1..Len(GpioPins) : p = GpioPins[k]
  /\ \A p : p \in Range(PwmSeq) <=> \E k \in 1..Len(PwmSeq) : p = PwmSeq[k]
  /\ Range(GpioPins) \subseteq Pins /\ Range(PwmSeq) \subseteq PwmPins
  BY ArrayFacts DEF Range

LEMMA NextModes == TypeInv /\ ModeInv /\ [Next]_vars => ModeInv'
<1> SUFFICES ASSUME TypeInv, ModeInv, [Next]_vars,
                    NEW p \in Pins
             PROVE  /\ mode'[p] = "OUTPUT" =>
                         /\ p \in Range(GpioPins)
                         /\ pc' \in {"gpioDrive", "gpioSense", "reset", "exited"}
                    /\ mode'[p] = "PWM_OUTPUT" => p \in PwmPins
  BY DEF ModeInv
<1>0. /\ mode[p] = "OUTPUT" => /\ p \in Range(GpioPins)
                               /\ pc \in {"gpioDrive", "gpioSense", "reset", "exited"}
      /\ mode[p] = "PWM_OUTPUT" => p \in PwmPins
  BY DEF ModeInv
<1>1. CASE GpioDrive
  <2>1. GpioPins[i] \in Range(GpioPins)
    BY <1>1, ArrayFacts, RangeFacts DEF GpioDrive, TypeInv, TypeOK
  <2>2. mode'[p] = IF p = GpioPins[i] THEN "OUTPUT" ELSE mode[p]
    BY <1>1, PinModeAt DEF GpioDrive
  <2>3. QED
    BY <1>0, <1>1, <2>1, <2>2 DEF GpioDrive
<1>2. CASE ResetGPIO
  <2>1. CASE ready
    <3>1. mode'[p] = IF p \in Range(LowPins) \union Range(HighPins)
                     THEN "INPUT" ELSE mode[p]
      BY <1>2, <2>1, PinModeAt DEF ResetGPIO, ResetModes
    <3>2. QED
      BY <1>0, <3>1, ArraysFit
  <2>2. CASE ~ready
    BY <1>0, <1>2, <2>2 DEF ResetGPIO
  <2>3. QED
    BY <2>1, <2>2
<1>3. CASE PwmSetup
  <2>1. mode'[p] = IF p = InputPin THEN "INPUT"
                   ELSE IF p \in Range(PwmSeq) THEN "PWM_OUTPUT" ELSE mode[p]
    BY <1>3, PinModeAt DEF PwmSetup
  <2>2. QED
    BY <1>0, <1>3, <2>1, RangeFacts DEF PwmSetup
<1>4. CASE (\E x \in 0..5 : ReadMenu(x)) \/ ReadNothing
  BY <1>0, <1>4 DEF ReadMenu, ReadNothing, Dispatch, boardVars
<1>5. CASE Rewire \/ GpioSetup \/ GpioSense \/ GpioReturn
  BY <1>0, <1>5
     DEF Rewire, GpioSetup, GpioSense, GpioReturn, Return, boardVars
<1>6. CASE PwmStart \/ PwmSense \/ PwmReturn \/ SPITest_0 \/ SPITest_1
  BY <1>0, <1>6
     DEF PwmStart, PwmSense, PwmReturn, SPITest_0, SPITest_1, SPITest, Return,
         boardVars
<1>7. CASE I2cTest \/ Summary \/ UNCHANGED vars
  BY <1>0, <1>7
     DEF I2cTest, Summary, Return, vars, boardVars, progVars
<1>8. QED
  BY <1>1, <1>2, <1>3, <1>4, <1>5, <1>6, <1>7 DEF Next, Operator, Step, Exited

LEMMA InitModes == Init => ModeInv
  BY DEF Init, ModeInv

(* Between the tests, and so at the menu where the operator rewires, no pin *)
(* is left a plain output, and only PWM pins run a PWM.                      *)
THEOREM NothingLeftDriven == Spec => []OutputsConfined
<1>1. TypeInv /\ ModeInv => OutputsConfined
  BY DEF ModeInv, OutputsConfined, TypeInv, TypeOK, Locations
<1>2. QED
  BY <1>1, InitTypes, NextTypes, InitModes, NextModes, PTL DEF Spec

-----------------------------------------------------------------------------
(***************************************************************************)
(* What GpioTest prints                                                    *)
(***************************************************************************)

(* Until wiringPiSetup succeeds nothing has been printed and nothing but    *)
(* the pass of the failed GpioTest counted.                                 *)
ReadyInv ==
  ~ready =>
    /\ pc \in {"menu", "gpioSetup", "reset", "exited"}
    /\ iter = 0
    /\ printed["GPIO"] = {}
    /\ pc \in {"menu", "gpioSetup"} => counts = [t \in Reported |-> 0]
    /\ \A t \in Reported \ {"GPIO"} : counts[t] = 0

(* The pin about to be read back is driven HIGH. *)
DriveInv ==
  pc = "gpioSense" =>
    mode[GpioPins[i]] = "OUTPUT" /\ latch[GpioPins[i]] = HIGH

NamesInv == ReadyInv /\ DriveInv /\ GpioNamesFaults

(* digitalRead of a driven pin: LOW if the pin is shorted to ground, and    *)
(* LOW only if something is wrong with the pin or its net.                  *)
LEMMA ReadBack ==
  ASSUME NEW p \in Pins, mode[p] = "OUTPUT", latch[p] = HIGH,
         fault \in [Pins -> Faults], NEW v \in Levels(bench.wired, p)
  PROVE  /\ fault[p] = "low" => v = LOW
         /\ v = LOW => Suspect(p)
<1>1. p \in Net(bench.wired, p)
  BY DEF Net
<1>2. ASSUME fault[p] = "low" PROVE v = LOW
  BY <1>1, <1>2 DEF Levels, Shorted
<1>3. ASSUME ~Suspect(p) PROVE v = HIGH
  <2>1. fault[p] \in {"ok", "high"}
    BY <1>3 DEF Suspect, Faults
  <2>2. Net(bench.wired, p) = {p}
    BY <1>3 DEF Suspect, Net
  <2>3. ~Shorted(bench.wired, p, "low")
    BY <2>1, <2>2 DEF Shorted
  <2>4. CASE fault[p] = "high"
    BY <2>2, <2>3, <2>4 DEF Levels, Shorted
  <2>5. CASE fault[p] = "ok"
    <3>1. ~Shorted(bench.wired, p, "high")
      BY <2>2, <2>5 DEF Shorted
    <3>2. Drivers(bench.wired, p) = {p}
      BY <2>2, <2>5 DEF Drivers
    <3>3. Driven(p) = {HIGH}
      BY DEF Driven
    <3>4. QED
      BY <2>3, <3>1, <3>2, <3>3 DEF Levels
  <2>6. QED
    BY <2>1, <2>4, <2>5
<1>4. QED
  BY <1>2, <1>3 DEF LOW, HIGH

LEMMA NextReady == TypeInv /\ ReadyInv /\ [Next]_vars => ReadyInv'
<1> SUFFICES ASSUME TypeInv, ReadyInv, [Next]_vars PROVE ReadyInv'
  OBVIOUS
<1> USE DEF ReadyInv
<1>1. CASE (\E x \in 0..5 : ReadMenu(x)) \/ ReadNothing \/ Rewire
  BY <1>1 DEF ReadMenu, ReadNothing, Rewire, Dispatch
<1>2. CASE GpioSetup
  <2>1. CASE ready'
    BY <2>1
  <2>2. CASE ~ready'
    <3>1. /\ ~ready /\ UNCHANGED <<ready, printed, iter>>
          /\ Return("GPIO", 1, "reset")
      BY <1>2, <2>2 DEF GpioSetup
    <3>2. counts' = [counts EXCEPT !["GPIO"] = @ + 1] /\ pc' = "reset"
      BY <3>1 DEF Return
    <3>3. \A t \in Reported \ {"GPIO"} : counts'[t] = 0
      BY <3>1, <3>2 DEF TypeInv, TypeOK
    <3>4. QED
      BY <3>1, <3>2, <3>3
  <2>3. QED
    BY <2>1, <2>2
<1>3. CASE GpioDrive \/ GpioSense \/ GpioReturn
  BY <1>3 DEF GpioDrive, GpioSense, GpioReturn
<1>4. CASE ResetGPIO
  BY <1>4 DEF ResetGPIO
<1>5. CASE PwmSetup \/ PwmStart \/ PwmSense \/ PwmReturn
  BY <1>5 DEF PwmSetup, PwmStart, PwmSense, PwmReturn
<1>6. CASE SPITest_0 \/ SPITest_1 \/ I2cTest \/ Summary
  BY <1>6 DEF SPITest_0, SPITest_1, SPITest, I2cTest, Summary
<1>7. CASE UNCHANGED vars
  BY <1>7 DEF vars, progVars
<1>8. QED
  BY <1>1, <1>2, <1>3, <1>4, <1>5, <1>6, <1>7 DEF Next, Operator, Step, Exited

LEMMA NextDrive == TypeInv /\ DriveInv /\ [Next]_vars => DriveInv'
<1> SUFFICES ASSUME TypeInv, DriveInv, [Next]_vars, pc' = "gpioSense"
             PROVE  mode'[GpioPins[i']] = "OUTPUT" /\ latch'[GpioPins[i']] = HIGH
  BY DEF DriveInv
<1>1. CASE GpioDrive
  <2>1. GpioPins[i] \in Pins
    BY <1>1, ArrayFacts DEF GpioDrive, TypeInv, TypeOK
  <2>2. mode'[GpioPins[i]] = "OUTPUT" /\ latch'[GpioPins[i]] = HIGH
    BY <1>1, <2>1 DEF GpioDrive, PinMode, DigitalWrite
  <2>3. i' = i
    BY <1>1 DEF GpioDrive
  <2>4. QED
    BY <2>2, <2>3
<1>2. CASE UNCHANGED vars
  BY <1>2 DEF DriveInv, vars, boardVars, progVars
<1>3. CASE (\E x \in 0..5 : ReadMenu(x)) \/ ReadNothing \/ Rewire
  BY <1>3 DEF ReadMenu, ReadNothing, Rewire, Dispatch
<1>4. CASE Step /\ ~GpioDrive
  BY <1>4
     DEF Step, GpioSetup, GpioSense, GpioReturn, ResetGPIO, PwmSetup, PwmStart,
         PwmSense, PwmReturn, SPITest_0, SPITest_1, SPITest, I2cTest, Summary,
         Return
<1>5. QED
  BY <1>1, <1>2, <1>3, <1>4 DEF Next, Operator, Exited

LEMMA NextNames ==
  TypeInv /\ ModeInv /\ NamesInv /\ [Next]_vars => GpioNamesFaults'
<1> SUFFICES ASSUME TypeInv, NamesInv, [Next]_vars,
                    pc' \notin {"menu", "gpioSetup", "exited"}
             PROVE  /\ \A p \in GpioTested' : fault'[p] = "low" => p \in printed'["GPIO"]
                    /\ \A p \in printed'["GPIO"] : Suspect(p)'
                    /\ InGpioTest' => (check' = 0 <=> printed'["GPIO"] # {})
  BY DEF GpioNamesFaults
<1> USE DEF NamesInv, GpioNamesFaults
<1>1. fault' = fault
  BY DEF Next, Operator, Step, Exited, ReadMenu, ReadNothing, Rewire, Dispatch,
         GpioSetup, GpioDrive, GpioSense, GpioReturn, ResetGPIO, PwmSetup,
         PwmStart, PwmSense, PwmReturn, SPITest_0, SPITest_1, SPITest, I2cTest,
         Summary, vars, boardVars
<1>2. CASE GpioSetup
  <2>1. CASE ready'
    <3>1. /\ pc' = "gpioDrive" /\ i' = 1 /\ check' = 1
          /\ printed'["GPIO"] = {}
      BY <1>2, <2>1, <1>1 DEF GpioSetup, Return, ReadyInv, TypeInv, TypeOK
    <3>2. GpioTested' = {}
      BY <3>1 DEF GpioTested, InGpioTest
    <3>3. QED
      BY <3>1, <3>2
  <2>2. CASE ~ready'
    <3>1. pc' = "reset" /\ printed'["GPIO"] = {}
      BY <1>2, <2>2 DEF GpioSetup, Return, ReadyInv
    <3>2. GpioTested' = {}
      BY <2>2, <3>1 DEF GpioTested, InGpioTest
    <3>3. QED
      BY <3>1, <3>2 DEF InGpioTest
  <2>3. QED
    BY <2>1, <2>2
<1>3. CASE GpioDrive
  BY <1>3 DEF GpioDrive, GpioTested, InGpioTest, Suspect
<1>4. CASE GpioSense
  <2>1. i \in 1..Len(GpioPins) /\ i' = i + 1 /\ GpioPins[i] \in Pins /\ pc = "gpioSense"
        /\ pc' = "gpioDrive" /\ bench' = bench
    BY <1>4, ArrayFacts DEF GpioSense, NextPin, TypeInv, TypeOK, Indexed
  <2>2. PICK v \in Levels(bench.wired, GpioPins[i]) : JudgePin(v)
    BY <1>4 DEF GpioSense
  <2>3. /\ fault[GpioPins[i]] = "low" => v = LOW
        /\ v = LOW => Suspect(GpioPins[i])
    BY <2>1, ReadBack DEF DriveInv, TypeInv, TypeOK, BoardTypeOK
  <2>4. /\ v = LOW => /\ printed'["GPIO"] = printed["GPIO"] \union {GpioPins[i]}
                      /\ check' = 0
        /\ v # LOW => printed' = printed /\ check' = check
    BY <2>2 DEF JudgePin, TypeInv, TypeOK
  <2>5. GpioTested' = GpioTested \union {GpioPins[i]}
    BY <2>1 DEF GpioTested, InGpioTest
  <2>6. /\ \A p \in GpioTested : fault[p] = "low" => p \in printed["GPIO"]
        /\ \A p \in printed["GPIO"] : Suspect(p)
        /\ check = 0 <=> printed["GPIO"] # {}
    BY <2>1 DEF InGpioTest
  <2>7. \A p : Suspect(p)' <=> Suspect(p)
    BY <1>1, <2>1 DEF Suspect
  <2>8. CASE v = LOW
    BY <1>1, <2>3, <2>4, <2>5, <2>6, <2>7, <2>8
  <2>9. CASE v # LOW
    BY <1>1, <2>3, <2>4, <2>5, <2>6, <2>7, <2>9
  <2>10. QED
    BY <2>8, <2>9
<1>5. CASE GpioReturn
  <2>1. Range(GpioPins) = {GpioPins[k] : k \in 1..(i - 1)}
    <3>1. i = Len(GpioPins) + 1
      BY <1>5, ArrayFacts DEF GpioReturn, TypeInv, TypeOK, Indexed
    <3>2. QED
      BY <3>1, ArrayFacts, RangeFacts
  <2>2. QED
    BY <1>1, <1>5, <2>1
       DEF GpioReturn, Return, GpioTested, InGpioTest, Suspect
<1>6. CASE ResetGPIO
  BY <1>1, <1>6 DEF ResetGPIO, GpioTested, InGpioTest, Suspect
<1>7. CASE PwmSetup
  BY <1>1, <1>7 DEF PwmSetup, GpioTested, InGpioTest, Suspect, TypeInv, TypeOK
<1>8. CASE PwmSense
  <2>1. /\ printed'["GPIO"] = printed["GPIO"] /\ pc = "pwmSense" /\ pc' = "pwmWrite"
        /\ ready' = ready /\ bench' = bench
    BY <1>8 DEF PwmSense, TypeInv, TypeOK
  <2>2. QED
    BY <1>1, <2>1 DEF GpioTested, InGpioTest, Suspect
<1>9. CASE PwmStart \/ PwmReturn \/ SPITest_0 \/ SPITest_1 \/ I2cTest
  BY <1>1, <1>9
     DEF PwmStart, PwmReturn, SPITest_0, SPITest_1, SPITest, I2cTest, Return,
         GpioTested, InGpioTest, Suspect
<1>10. CASE (\E x \in 0..5 : ReadMenu(x)) \/ ReadNothing \/ Rewire \/ Summary
  BY <1>10 DEF ReadMenu, ReadNothing, Rewire, Dispatch, Summary
<1>11. CASE UNCHANGED vars
  BY <1>11 DEF vars, boardVars, progVars, GpioTested, InGpioTest, Suspect
<1>12. QED
  BY <1>2, <1>3, <1>4, <1>5, <1>6, <1>7, <1>8, <1>9, <1>10, <1>11
     DEF Next, Operator, Step, Exited

LEMMA InitNames == Init => NamesInv
  BY DEF Init, NamesInv, ReadyInv, DriveInv, GpioNamesFaults

(* GpioTest prints every pin shorted to ground and no pin that is sound and  *)
(* unconnected, on every board, wiring and choice of pins.                   *)
THEOREM FaultsNamed == Spec => []GpioNamesFaults
<1>1. TypeInv /\ ModeInv /\ NamesInv /\ [Next]_vars => NamesInv'
  BY NextReady, NextDrive, NextNames DEF NamesInv
<1>2. NamesInv => GpioNamesFaults
  BY DEF NamesInv
<1>3. QED
  BY <1>1, <1>2, InitTypes, NextTypes, InitModes, NextModes, InitNames, PTL
     DEF Spec

-----------------------------------------------------------------------------
(***************************************************************************)
(* What the tests take                                                     *)
(***************************************************************************)

(* Between rounds no iteration is under way. *)
IterInv == pc \in {"menu", "summary"} => iter = 0

FdInv == IterInv /\ FdBudget

(* Rounds in iterations: the one arithmetic fact that is not linear. *)
LEMMA RoundLength ==
  ASSUME NEW r \in Int
  PROVE  /\ r * n \in Int /\ (r - 1) * n \in Int
         /\ ((r + 1) - 1) * n = r * n
         /\ (r - 1) * n + n = r * n
<1>1. n \in Int
  BY ProgramAssumption
<1>2. QED
  BY <1>1

(* What may have been taken when the program is at l, beyond whole iterations *)
Taken(l) == CASE l = "spi1" -> 2
              [] l \in {"i2c", "exited"} -> 4
              [] OTHER -> 0

LEMMA BudgetIs == FdBudget <=> fds <= 5 * Completed + Taken(pc)
  BY DEF FdBudget, Taken

LEMMA NextBudget == TypeInv /\ FdInv /\ [Next]_vars => FdInv'
<1> SUFFICES ASSUME TypeInv, FdInv, [Next]_vars PROVE FdInv'
  OBVIOUS
<1>1. /\ rounds \in Nat /\ iter \in Nat /\ fds \in Nat /\ n \in Nat
      /\ fds <= 5 * Completed + Taken(pc)
      /\ pc \in {"menu", "summary"} => iter = 0
  BY ProgramAssumption, BudgetIs DEF TypeInv, TypeOK, FdInv, IterInv
<1>2. SUFFICES /\ fds' <= 5 * Completed' + Taken(pc')
               /\ pc' \in {"menu", "summary"} => iter' = 0
  BY DEF FdInv, IterInv, FdBudget, Taken
<1>3. /\ Completed = (IF pc \in {"menu", "summary"} THEN rounds * n
                      ELSE (rounds - 1) * n + iter)
      /\ Completed' = (IF pc' \in {"menu", "summary"} THEN rounds' * n
                       ELSE (rounds' - 1) * n + iter')
  BY DEF Completed
<1>4. /\ rounds * n \in Int /\ (rounds - 1) * n \in Int
      /\ ((rounds + 1) - 1) * n = rounds * n
      /\ (rounds - 1) * n + n = rounds * n
  BY <1>1, RoundLength
<1>5. ASSUME UNCHANGED <<fds, rounds, iter>>,
             pc \notin {"menu", "summary"}, pc' \notin {"menu", "summary"},
             Taken(pc) <= Taken(pc')
      PROVE  fds' <= 5 * Completed' + Taken(pc')
  BY <1>1, <1>3, <1>4, <1>5 DEF Taken
<1>6. CASE (\E x \in 0..5 : ReadMenu(x)) \/ ReadNothing
  <2>1. Dispatch
    BY <1>6 DEF ReadMenu, ReadNothing
  <2>2. CASE pc' = "gpioSetup" /\ rounds' = rounds + 1
    <3>1. Completed' = Completed
      BY <1>1, <1>3, <1>4, <2>1, <2>2 DEF Dispatch
    <3>2. QED
      BY <1>1, <2>1, <2>2, <3>1 DEF Dispatch, Taken
  <2>3. CASE UNCHANGED <<pc, rounds>>
    BY <1>1, <1>3, <1>4, <2>1, <2>3 DEF Dispatch
  <2>4. QED
    BY <2>1, <2>2, <2>3 DEF Dispatch
<1>7. CASE Rewire \/ UNCHANGED vars
  BY <1>1, <1>3, <1>4, <1>7 DEF Rewire, vars, progVars
<1>8. CASE GpioSetup \/ GpioDrive \/ GpioSense \/ GpioReturn \/ ResetGPIO
  BY <1>5, <1>8
     DEF GpioSetup, GpioDrive, GpioSense, GpioReturn, ResetGPIO, Return, Taken
<1>9. CASE PwmSetup \/ PwmStart \/ PwmSense \/ PwmReturn
  BY <1>5, <1>9 DEF PwmSetup, PwmStart, PwmSense, PwmReturn, Return, Taken
<1>10. CASE SPITest_0 \/ SPITest_1
  <2>1. SpiOpened \in 0..2
    BY SpiOpenedBound DEF TypeInv, TypeOK
  <2>2. /\ UNCHANGED <<rounds, iter>> /\ fds' = fds + SpiOpened
        /\ \/ pc = "spi0" /\ pc' = "spi1"
           \/ pc = "spi1" /\ pc' = "i2c"
    BY <1>10 DEF SPITest_0, SPITest_1, SPITest, Return
  <2>3. QED
    BY <1>1, <1>3, <1>4, <2>1, <2>2 DEF Taken
<1>11. CASE I2cTest
  <2>1. CASE I2cOpens
    <3>1. fds' = fds + 1 /\ rounds' = rounds /\ pc = "i2c"
      BY <1>11, <2>1 DEF I2cTest, I2cOpened
    <3>2. CASE iter + 1 < n
      <4>1. pc' = "gpioSetup" /\ iter' = iter + 1
        BY <1>11, <2>1, <3>2 DEF I2cTest, Return
      <4>2. QED
        BY <1>1, <1>3, <1>4, <3>1, <4>1 DEF Taken
    <3>3. CASE ~(iter + 1 < n)
      <4>1. pc' = "summary" /\ iter' = 0
        BY <1>11, <2>1, <3>3 DEF I2cTest, Return
      <4>2. iter + 1 = n
        BY <3>3, ProgramAssumption DEF TypeInv, TypeOK
      <4>3. QED
        BY <1>1, <1>3, <1>4, <3>1, <4>1, <4>2 DEF Taken
    <3>4. QED
      BY <3>2, <3>3
  <2>2. CASE ~I2cOpens
    BY <1>5, <1>11, <2>2 DEF I2cTest, Taken
  <2>3. QED
    BY <2>1, <2>2
<1>12. CASE Summary
  BY <1>1, <1>3, <1>4, <1>12 DEF Summary, Taken
<1>13. QED
  BY <1>6, <1>7, <1>8, <1>9, <1>10, <1>11, <1>12 DEF Next, Operator, Step, Exited

LEMMA InitBudget == Init => FdInv
<1> SUFFICES ASSUME Init PROVE FdInv
  OBVIOUS
<1>1. rounds * n = 0
  BY ProgramAssumption DEF Init
<1>2. QED
  BY <1>1 DEF Init, FdInv, IterInv, FdBudget, Completed

(* The descriptors lost are at most five for every iteration, in every       *)
(* state, however many rounds are run.                                       *)
THEOREM LeakBounded == Spec => []FdBudget
<1>1. FdInv => FdBudget
  BY DEF FdInv
<1>2. QED
  BY <1>1, InitTypes, NextTypes, InitBudget, NextBudget, PTL DEF Spec

(* The program ends itself only when wiringPi cannot be set up, the adapter  *)
(* is not there, or another iteration would not fit the descriptors.         *)
THEOREM AbortsHaveCause == Spec => AbortHasCause
<1>1. ASSUME TypeInv, ReadyInv, FdInv, Next, pc' = "exited", pc # "exited"
      PROVE  \/ ~ready
             \/ bench.i2c = "absent"
             \/ 5 * (Completed + 1) > FdLimit
  <2>1. CASE ResetGPIO
    BY <1>1, <2>1 DEF ResetGPIO
  <2>2. CASE I2cTest
    <3>1. pc = "i2c" /\ ~I2cOpens
      BY <1>1, <2>2 DEF I2cTest, Return
    <3>2. fds <= 5 * Completed + 4
      BY <1>1, <3>1 DEF FdInv, FdBudget
    <3>3. Completed \in Int
      BY <3>1, ProgramAssumption, RoundLength, <1>1 DEF Completed, TypeInv, TypeOK
    <3>4. QED
      BY <1>1, <3>1, <3>2, <3>3, ProgramAssumption DEF I2cOpens, TypeInv, TypeOK
  <2>3. QED
    BY <1>1, <2>1, <2>2
       DEF Next, Operator, Step, Exited, ReadMenu, ReadNothing, Rewire, Dispatch,
           GpioSetup, GpioDrive, GpioSense, GpioReturn, PwmSetup, PwmStart,
           PwmSense, PwmReturn, SPITest_0, SPITest_1, SPITest, Summary, Return
<1>2. TypeInv /\ ReadyInv /\ FdInv /\ [Next]_vars =>
        [pc' = "exited" /\ pc # "exited" =>
           \/ ~ready
           \/ bench.i2c = "absent"
           \/ 5 * (Completed + 1) > FdLimit]_vars
  BY <1>1
<1>3. Init => ReadyInv
  BY DEF Init, ReadyInv
<1>4. QED
  BY <1>2, <1>3, InitTypes, NextTypes, NextReady, InitBudget, NextBudget, PTL
     DEF Spec, AbortHasCause

(* SPITest_0 and SPITest_1 pass a jumpered channel in every round unless    *)
(* its transfer fails (test.c:181): as long as the iteration fits the       *)
(* descriptors, what earlier ones leaked leaves room for both device nodes. *)
THEOREM LoopbackHolds == Spec => LoopbackPasses
<1>1. ASSUME TypeInv, FdInv, Next, NEW c \in {0, 1},
             pc = <<"spi0", "spi1">>[c + 1], pc' # pc,
             bench.spi[c] = "loop", bench.spi[1 - c] # "absent",
             5 * (Completed + 1) <= FdLimit
      PROVE  counts'[<<"SPI0", "SPI1">>[c + 1]]
               = counts[<<"SPI0", "SPI1">>[c + 1]] + (IF c \in spiFailed' THEN 0 ELSE 1)
  <2>1. pc \in {"spi0", "spi1"} /\ Completed \in Int
    <3>1. pc \in {"spi0", "spi1"}
      BY <1>1
    <3>2. QED
      BY <1>1, <3>1, ProgramAssumption, RoundLength DEF Completed, TypeInv, TypeOK
  <2>2. fds + 1 < FdLimit /\ fds \in Nat
    <3>1. fds <= 5 * Completed + 2 /\ fds \in Nat
      BY <1>1, <2>1 DEF FdInv, FdBudget, TypeInv, TypeOK
    <3>2. 5 * (Completed + 1) <= FdLimit /\ FdLimit \in Nat
      BY <1>1, ProgramAssumption
    <3> QED BY <2>1, <3>1, <3>2
  <2>3. bench.spi[0] # "absent" /\ bench.spi[1] # "absent"
    BY <1>1
  <2>4. SpiOpened = 2
    BY <2>2, <2>3, ProgramAssumption DEF SpiOpened
  <2> DEFINE v == IF c \in spiFailed' THEN 0 ELSE 1
  <2>5. SpiVerdict(c) = v /\ v \in {0, 1}
    BY <1>1, <2>4 DEF SpiVerdict
  <2>6. \/ c = 0 /\ SPITest_0
        \/ c = 1 /\ SPITest_1
    BY <1>1, <2>1
       DEF Next, Operator, Step, Exited, ReadMenu, ReadNothing, Rewire, Dispatch,
           GpioSetup, GpioDrive, GpioSense, GpioReturn, ResetGPIO, PwmSetup,
           PwmStart, PwmSense, PwmReturn, SPITest_0, SPITest_1, SPITest, I2cTest,
           Summary, vars, progVars
  <2> HIDE DEF v
  <2>7. CASE c = 0
    <3>1. Return("SPI0", v, "spi1")
      BY <2>5, <2>6, <2>7 DEF SPITest_0, SPITest
    <3>2. QED
      BY <1>1, <2>5, <2>7, <3>1 DEF Return, TypeInv, TypeOK, Reported, RunTests, v
  <2>8. CASE c = 1
    <3>1. Return("SPI1", v, "i2c")
      BY <2>5, <2>6, <2>8 DEF SPITest_1, SPITest
    <3>2. QED
      BY <1>1, <2>5, <2>8, <3>1 DEF Return, TypeInv, TypeOK, Reported, RunTests, v
  <2>9. QED
    BY <2>7, <2>8
<1> DEFINE Passes ==
      \A c \in {0, 1} :
       /\ pc = <<"spi0", "spi1">>[c + 1] /\ pc' # pc
       /\ bench.spi[c] = "loop" /\ bench.spi[1 - c] # "absent"
       /\ 5 * (Completed + 1) <= FdLimit
       => LET t == <<"SPI0", "SPI1">>[c + 1]
          IN counts'[t] = counts[t] + (IF c \in spiFailed' THEN 0 ELSE 1)
<1>2. TypeInv /\ FdInv /\ [Next]_vars => [Passes]_vars
  BY <1>1
<1>3. QED
  BY <1>2, InitTypes, NextTypes, InitBudget, NextBudget, PTL
     DEF Spec, LoopbackPasses

-----------------------------------------------------------------------------
(***************************************************************************)
(* The program implements TestStation                                      *)
(***************************************************************************)

(* As long as PWMTest has failed no pin, and has judged one, a sound PWM pin *)
(* is jumpered to an input pin that is not shorted.                          *)
PwmInv ==
  pc \in {"pwmWrite", "pwmSense"} /\ check = 0 /\ i > 1 => PwmGrounds

LEMMA SteadyIsOutside == \A h \in {0, Samples} : ~InBand(h)
  BY BoardAssumption DEF InBand

LEMMA LevelsAreLevels ==
  ASSUME BoardTypeOK, NEW w, NEW p, NEW v \in Levels(w, p), ModeInv,
         w \subseteq PwmPins, p \in Pins
  PROVE  v \in {LOW, HIGH}
<1>1. \A q \in Drivers(w, p) : q \in Pins
  BY BoardAssumption DEF Drivers, Net
<1>2. \A q \in Pins : mode[q] # "INPUT" => Driven(q) \subseteq {LOW, HIGH}
  BY DEF Driven, BoardTypeOK
<1>3. \A q \in Drivers(w, p) : Driven(q) \subseteq {LOW, HIGH}
  BY <1>1, <1>2 DEF Drivers
<1>4. QED
  BY <1>3 DEF Levels

(* A count inside the band comes from a running PWM pin on a net without a   *)
(* short, and only a jumpered PWM pin can run.                               *)
LEMMA InBandHasGrounds ==
  ASSUME BoardTypeOK, ModeInv, bench.wired \subseteq PwmPins,
         NEW h \in HighCounts(bench.wired), InBand(h)
  PROVE  PwmGrounds
<1> DEFINE ds == Drivers(bench.wired, InputPin)
<1>1. ASSUME NEW vs, \A v \in vs : v \in {LOW, HIGH}, h \in SteadyCounts(vs)
      PROVE  FALSE
  BY <1>1, SteadyIsOutside DEF SteadyCounts
<1>2. \A v \in Levels(bench.wired, InputPin) : v \in {LOW, HIGH}
  BY LevelsAreLevels, BoardAssumption
<1>3. ~(\/ Shorted(bench.wired, InputPin, "low")
        \/ Shorted(bench.wired, InputPin, "high")
        \/ \A q \in ds : ~Running(q))
  BY <1>1, <1>2 DEF HighCounts
<1>4. PICK q \in ds : Running(q)
  BY <1>3
<1>5. Net(bench.wired, InputPin) = bench.wired \union {InputPin}
  BY DEF Net
<1>6. q \in bench.wired
  <2>1. q \in Pins /\ mode[q] = "PWM_OUTPUT"
    BY <1>4, <1>5, BoardAssumption DEF Drivers, Running
  <2>2. q # InputPin
    BY <2>1, BoardAssumption DEF ModeInv
  <2>3. QED
    BY <1>5, <2>2 DEF Drivers
<1>7. fault[q] = "ok"
  <2>1. q \in Pins
    BY <1>6, BoardAssumption
  <2>2. fault[q] \notin {"low", "high", "dead"}
    BY <1>3, <1>4 DEF Drivers, Shorted
  <2>3. QED
    BY <2>1, <2>2 DEF BoardTypeOK, Faults
<1>8. QED
  BY <1>3, <1>6, <1>7 DEF PwmGrounds, Shorted

LEMMA WiredArePwm == bench \in Benches => bench.wired \subseteq PwmPins
  BY ProgramAssumption

LEMMA NextPwm == TypeInv /\ ModeInv /\ PwmInv /\ [Next]_vars => PwmInv'
<1> SUFFICES ASSUME TypeInv, ModeInv, PwmInv, [Next]_vars,
                    pc' \in {"pwmWrite", "pwmSense"}, check' = 0, i' > 1
             PROVE  PwmGrounds'
  BY DEF PwmInv
<1>1. CASE PwmSense
  <2>1. /\ UNCHANGED <<fault, bench>>
        /\ \E h \in HighCounts(bench.wired) : InBand(h)
    BY <1>1 DEF PwmSense, boardVars
  <2>2. PwmGrounds
    BY <2>1, InBandHasGrounds, WiredArePwm DEF TypeInv, TypeOK
  <2>3. QED
    BY <2>1, <2>2 DEF PwmGrounds, Net
<1>2. CASE PwmStart
  BY <1>2 DEF PwmStart, PwmInv, PwmGrounds, Net
<1>3. CASE UNCHANGED vars
  BY <1>3 DEF vars, boardVars, progVars, PwmInv, PwmGrounds, Net
<1>4. CASE PwmSetup
  BY <1>4 DEF PwmSetup
<1>5. CASE (\E x \in 0..5 : ReadMenu(x)) \/ ReadNothing \/ Rewire
  BY <1>5 DEF ReadMenu, ReadNothing, Rewire, Dispatch
<1>6. CASE GpioSetup \/ GpioDrive \/ GpioSense \/ GpioReturn \/ ResetGPIO
  BY <1>6 DEF GpioSetup, GpioDrive, GpioSense, GpioReturn, ResetGPIO, Return
<1>7. CASE PwmReturn \/ SPITest_0 \/ SPITest_1 \/ I2cTest \/ Summary
  BY <1>7 DEF PwmReturn, SPITest_0, SPITest_1, SPITest, I2cTest, Summary, Return
<1>8. QED
  BY <1>1, <1>2, <1>3, <1>4, <1>5, <1>6, <1>7 DEF Next, Operator, Step, Exited

(* All that the step simulation needs *)
IInv == TypeInv /\ ModeInv /\ NamesInv /\ IterInv /\ PwmInv

abstractVars == <<Phase, iter, Turn, Tally, Able>>

LEMMA OrderFacts ==
  /\ Len(TestOrder) = 5
  /\ TestOrder[1] = "GPIO" /\ TestOrder[2] = "PWM" /\ TestOrder[3] = "SPI0"
  /\ TestOrder[4] = "SPI1" /\ TestOrder[5] = "I2C"
  BY DEF TestOrder

(* The board and the wiring decide what has grounds to pass. *)
LEMMA AbleStays ==
  ASSUME UNCHANGED <<fault, bench>>
  PROVE  Able' = Able
  BY DEF Able, Grounds, PwmGrounds, Net

(* Adding a verdict to a counter is the abstract Verdict, given its control. *)
LEMMA VerdictStep ==
  ASSUME counts \in [Reported -> Nat], ready = TRUE, ready' = TRUE,
         UNCHANGED <<fault, bench>>, Phase = "testing",
         NEW k \in 1..5, Turn = k,
         NEW v \in {0, 1}, v = 1 => Grounds(TestOrder[k]),
         NEW next, Return(TestOrder[k], v, next),
         k < 5 => Turn' = k + 1 /\ iter' = iter /\ Phase' = Phase,
         k = 5 => /\ Turn' = 1
                  /\ IF iter < n - 1 THEN iter' = iter + 1 /\ Phase' = Phase
                     ELSE iter' = 0 /\ Phase' = "summary"
  PROVE  Station!Verdict(v)
<1>1. TestOrder[k] \in RunTests
  BY OrderFacts DEF RunTests
<1>2. v = 1 => TestOrder[Turn] \in Able
  BY <1>1 DEF Able
<1>3. Tally' = [Tally EXCEPT ![TestOrder[Turn]] = @ + v]
  BY <1>1 DEF Tally, Return, Reported
<1>4. IF Turn < Len(TestOrder)
      THEN Turn' = Turn + 1 /\ iter' = iter /\ Phase' = Phase
      ELSE /\ Turn' = 1
           /\ IF iter < n - 1
              THEN iter' = iter + 1 /\ Phase' = Phase
              ELSE iter' = 0 /\ Phase' = "summary"
  BY OrderFacts
<1>5. Able' = Able
  BY AbleStays
<1>6. QED
  BY <1>2, <1>3, <1>4, <1>5 DEF Station!Verdict

LEMMA InitStation == Init => Station!Init
<1> SUFFICES ASSUME Init PROVE Station!Init
  OBVIOUS
<1>1. Phase = "idle" /\ Turn = 1 /\ iter = 0
  BY DEF Init, Phase, Turn
<1>2. Tally = [t \in Reported |-> 0]
  BY DEF Init, Tally
<1>3. Able \subseteq Reported
  BY DEF Able, Reported
<1>4. QED
  BY <1>1, <1>2, <1>3 DEF Station!Init

LEMMA NextStation == IInv /\ [Next]_vars => [Station!Next]_abstractVars
<1> SUFFICES ASSUME IInv, [Next]_vars
             PROVE  Station!Next \/ UNCHANGED abstractVars
  OBVIOUS
<1> USE DEF IInv
<1>1. CASE (\E x \in 0..5 : ReadMenu(x)) \/ ReadNothing
  <2>1. Dispatch
    BY <1>1 DEF ReadMenu, ReadNothing
  <2>2. Able' = Able /\ Tally' = Tally /\ iter' = iter
    BY <2>1, AbleStays DEF Dispatch, boardVars, Tally
  <2>3. \/ Phase = "idle" /\ Phase' = "testing" /\ Turn' = Turn
        \/ Phase' = Phase /\ Turn' = Turn
    BY <2>1 DEF Dispatch, Phase, Turn
  <2>4. QED
    BY <2>2, <2>3 DEF Station!Next, Station!Begin, abstractVars
<1>2. CASE Rewire
  <2>1. /\ Phase = "idle" /\ Phase' = Phase /\ Turn' = Turn /\ iter' = iter
        /\ Tally' = Tally
    BY <1>2 DEF Rewire, Phase, Turn, Tally
  <2>2. Able' \subseteq Reported
    BY DEF Able, Reported
  <2>3. QED
    BY <2>1, <2>2 DEF Station!Next, Station!Rewire
<1>3. CASE GpioSetup
  <2>1. /\ Phase' = Phase /\ Turn' = Turn /\ iter' = iter /\ Able' = Able
    BY <1>3, AbleStays DEF GpioSetup, Return, Phase, Turn, boardVars
  <2>2. Tally' = Tally
    <3>1. CASE ready
      <4>1. UNCHANGED <<ready, counts>>
        BY <1>3, <3>1 DEF GpioSetup, NamesInv, TypeInv, TypeOK
      <4>2. QED
        BY <4>1 DEF Tally
    <3>2. CASE ~ready /\ ready'
      <4>1. counts' = counts /\ counts = [t \in Reported |-> 0]
        BY <1>3, <3>2 DEF GpioSetup, NamesInv, ReadyInv
      <4>2. QED
        BY <3>2, <4>1 DEF Tally
    <3>3. CASE ~ready /\ ~ready'
      BY <3>3 DEF Tally
    <3>4. QED
      BY <3>1, <3>2, <3>3
  <2>3. QED
    BY <2>1, <2>2 DEF abstractVars
<1>4. CASE GpioDrive \/ GpioSense
  <2>1. UNCHANGED <<fault, bench, iter, counts, ready>>
    BY <1>4 DEF GpioDrive, GpioSense
  <2>2. Phase' = Phase /\ Turn' = Turn
    BY <1>4 DEF GpioDrive, GpioSense, Phase, Turn
  <2>3. QED
    BY <2>1, <2>2, AbleStays DEF Tally, abstractVars
<1>5. CASE GpioReturn
  <2>1. pc = "gpioDrive" /\ pc' = "reset" /\ i = Len(GpioPins) + 1
    BY <1>5, ArrayFacts DEF GpioReturn, Return, TypeInv, TypeOK, Indexed
  <2>2. ready = TRUE /\ ready' = TRUE /\ UNCHANGED <<fault, bench, iter>>
    BY <1>5, <2>1 DEF GpioReturn, boardVars, NamesInv, ReadyInv, TypeInv, TypeOK
  <2>3. check = 1 => Grounds("GPIO")
    <3>1. \A p \in GpioTested : fault[p] = "low" => p \in printed["GPIO"]
      BY <2>1 DEF NamesInv, GpioNamesFaults
    <3>2. check = 1 => printed["GPIO"] = {}
      BY <2>1 DEF NamesInv, GpioNamesFaults, InGpioTest
    <3>3. GpioTested = Range(GpioPins)
      BY <2>1, ArrayFacts, RangeFacts DEF GpioTested, InGpioTest
    <3>4. QED
      BY <3>1, <3>2, <3>3 DEF Grounds
  <2>4. /\ Phase = "testing" /\ Phase' = Phase /\ Turn = 1 /\ Turn' = 2
    BY <2>1, <2>2 DEF Phase, Turn
  <2>5. Station!Verdict(IF check = 1 THEN 1 ELSE 0)
    BY <1>5, <2>2, <2>3, <2>4, VerdictStep, OrderFacts
       DEF GpioReturn, TypeInv, TypeOK
  <2>6. QED
    BY <2>5 DEF Station!Next
<1>6. CASE ResetGPIO
  <2>1. UNCHANGED <<fault, bench, iter, counts, ready>> /\ pc = "reset"
    BY <1>6 DEF ResetGPIO
  <2>2. Phase = "testing" /\ Turn' = Turn /\ Phase' \in {"testing", "off"}
    BY <1>6, <2>1 DEF ResetGPIO, Phase, Turn
  <2>3. Able' = Able /\ Tally' = Tally
    BY <2>1, AbleStays DEF Tally
  <2>4. QED
    BY <2>1, <2>2, <2>3 DEF Station!Next, Station!GiveUp, abstractVars
<1>7. CASE PwmSetup \/ PwmStart \/ PwmSense
  <2>1. UNCHANGED <<fault, bench, iter, counts, ready>>
    BY <1>7 DEF PwmSetup, PwmStart, PwmSense, boardVars
  <2>2. Phase' = Phase /\ Turn' = Turn
    BY <1>7 DEF PwmSetup, PwmStart, PwmSense, Phase, Turn
  <2>3. QED
    BY <2>1, <2>2, AbleStays DEF Tally, abstractVars
<1>8. CASE PwmReturn
  <2>1. pc = "pwmWrite" /\ pc' = "spi0" /\ i > 1
    <3>1. Len(PwmSeq) > 0
      BY ProgramAssumption
    <3>2. QED
      BY <1>8, <3>1, ArrayFacts DEF PwmReturn, Return, TypeInv, TypeOK
  <2>2. ready = TRUE /\ ready' = TRUE /\ UNCHANGED <<fault, bench, iter>>
    BY <1>8, <2>1 DEF PwmReturn, boardVars, NamesInv, ReadyInv, TypeInv, TypeOK
  <2>3. check # 1 => Grounds("PWM")
    BY <2>1 DEF PwmInv, Grounds, TypeInv, TypeOK
  <2>4. /\ Phase = "testing" /\ Phase' = Phase /\ Turn = 2 /\ Turn' = 3
    BY <2>1 DEF Phase, Turn
  <2>5. Station!Verdict(IF check = 1 THEN 0 ELSE 1)
    BY <1>8, <2>2, <2>3, <2>4, VerdictStep, OrderFacts
       DEF PwmReturn, TypeInv, TypeOK
  <2>6. QED
    BY <2>5 DEF Station!Next
<1>9. CASE SPITest_0
  <2>1. pc = "spi0" /\ pc' = "spi1" /\ Return("SPI0", SpiVerdict(0), "spi1")
    BY <1>9 DEF SPITest_0, SPITest, Return
  <2>2. ready = TRUE /\ ready' = TRUE /\ UNCHANGED <<fault, bench, iter>>
    BY <1>9, <2>1
       DEF SPITest_0, SPITest, boardVars, NamesInv, ReadyInv, TypeInv, TypeOK
  <2>3. SpiVerdict(0) \in {0, 1} /\ (SpiVerdict(0) = 1 => Grounds("SPI0"))
    BY DEF SpiVerdict, SpiOpened, Grounds
  <2>4. /\ Phase = "testing" /\ Phase' = Phase /\ Turn = 3 /\ Turn' = 4
    BY <2>1 DEF Phase, Turn
  <2>5. Station!Verdict(SpiVerdict(0))
    BY <2>1, <2>2, <2>3, <2>4, VerdictStep, OrderFacts DEF TypeInv, TypeOK
  <2>6. QED
    BY <2>3, <2>5 DEF Station!Next
<1>10. CASE SPITest_1
  <2>1. pc = "spi1" /\ pc' = "i2c" /\ Return("SPI1", SpiVerdict(1), "i2c")
    BY <1>10 DEF SPITest_1, SPITest, Return
  <2>2. ready = TRUE /\ ready' = TRUE /\ UNCHANGED <<fault, bench, iter>>
    BY <1>10, <2>1
       DEF SPITest_1, SPITest, boardVars, NamesInv, ReadyInv, TypeInv, TypeOK
  <2>3. SpiVerdict(1) \in {0, 1} /\ (SpiVerdict(1) = 1 => Grounds("SPI1"))
    BY DEF SpiVerdict, SpiOpened, Grounds
  <2>4. /\ Phase = "testing" /\ Phase' = Phase /\ Turn = 4 /\ Turn' = 5
    BY <2>1 DEF Phase, Turn
  <2>5. Station!Verdict(SpiVerdict(1))
    BY <2>1, <2>2, <2>3, <2>4, VerdictStep, OrderFacts DEF TypeInv, TypeOK
  <2>6. QED
    BY <2>3, <2>5 DEF Station!Next
<1>11. CASE I2cTest
  <2>1. pc = "i2c" /\ ready = TRUE /\ ready' = TRUE /\ UNCHANGED <<fault, bench>>
    BY <1>11 DEF I2cTest, boardVars, NamesInv, ReadyInv, TypeInv, TypeOK
  <2>2. Phase = "testing" /\ Turn = 5
    BY <2>1 DEF Phase, Turn
  <2>3. CASE I2cOpens
    <3> DEFINE v    == IF bench.i2c = "device" THEN 1 ELSE 0
               next == IF iter + 1 < n THEN "gpioSetup" ELSE "summary"
    <3>1. Return("I2C", v, next) /\ pc' = next
          /\ iter' = IF iter + 1 < n THEN iter + 1 ELSE 0
      BY <1>11, <2>3 DEF I2cTest, Return
    <3>2. /\ Turn' = 1
          /\ IF iter < n - 1 THEN iter' = iter + 1 /\ Phase' = Phase
             ELSE iter' = 0 /\ Phase' = "summary"
      BY <2>2, <3>1, ProgramAssumption DEF Phase, Turn, TypeInv, TypeOK
    <3>3. v \in {0, 1} /\ (v = 1 => Grounds("I2C"))
      BY DEF Grounds
    <3> HIDE DEF v, next
    <3>4. Station!Verdict(v)
      BY <2>1, <2>2, <3>1, <3>2, <3>3, VerdictStep, OrderFacts DEF TypeInv, TypeOK
    <3>5. QED
      BY <3>3, <3>4 DEF Station!Next
  <2>4. CASE ~I2cOpens
    <3>1. /\ Phase' = "off" /\ Turn' = Turn /\ iter' = iter /\ Tally' = Tally
          /\ Able' = Able
      BY <1>11, <2>1, <2>2, <2>4, AbleStays DEF I2cTest, Phase, Turn, Tally
    <3>2. QED
      BY <2>2, <3>1 DEF Station!Next, Station!GiveUp
  <2>5. QED
    BY <2>3, <2>4
<1>12. CASE Summary
  <2>1. /\ Phase = "summary" /\ Phase' = "idle" /\ Turn' = Turn /\ iter' = iter
        /\ Tally' = Tally /\ Able' = Able
    BY <1>12, AbleStays DEF Summary, Phase, Turn, Tally, boardVars
  <2>2. QED
    BY <2>1 DEF Station!Next, Station!Report
<1>13. CASE UNCHANGED vars
  BY <1>13, AbleStays
     DEF vars, boardVars, progVars, abstractVars, Phase, Turn, Tally
<1>14. QED
  BY <1>1, <1>2, <1>3, <1>4, <1>5, <1>6, <1>7, <1>8, <1>9, <1>10, <1>11,
     <1>12, <1>13
     DEF Next, Operator, Step, Exited

(* The combined program implements TestStation: every test has its turn in   *)
(* order, each counter moves only by its own test's verdict, a round is n     *)
(* iterations, and no test is passed without grounds on the board.            *)
THEOREM Implements == Spec => ImplementsStation
<1>1. Init => IInv
  BY InitTypes, InitModes, InitNames, InitBudget
     DEF IInv, FdInv, Init, PwmInv
<1>2. IInv /\ [Next]_vars => IInv'
  <2>1. TypeInv /\ IterInv /\ [Next]_vars => IterInv'
    BY DEF IterInv, Next, Operator, Step, Exited, ReadMenu, ReadNothing, Rewire,
           Dispatch, GpioSetup, GpioDrive, GpioSense, GpioReturn, ResetGPIO,
           PwmSetup, PwmStart, PwmSense, PwmReturn, SPITest_0, SPITest_1,
           SPITest, I2cTest, Summary, Return, vars, progVars, TypeInv, TypeOK
  <2>2. QED
    BY <2>1, NextTypes, NextModes, NextReady, NextDrive, NextNames, NextPwm
       DEF IInv, NamesInv
<1>3. IInv /\ [Next]_vars => [Station!Next]_(Station!stationVars)
  BY NextStation DEF Station!stationVars, abstractVars
<1>4. QED
  BY InitStation, <1>1, <1>2, <1>3, PTL DEF Spec, ImplementsStation, Station!Spec
-----------------------------------------------------------------------------
(***************************************************************************)
(* The first round                                                         *)
(***************************************************************************)

(* What a first round needs besides a sound board: descriptors for one     *)
(* iteration, a clean wave that counts inside the band, and a PWMTest that *)
(* switches on whatever pin may be jumpered.                               *)
RoomAndWave ==
  /\ FdLimit >= 5
  /\ \A h \in WaveCounts : InBand(h)
  /\ PwmPins \subseteq Range(PwmSeq)

(* The tests passed so far *)
Won ==
  CASE pc \in {"reset", "pwmSetup", "pwmWrite", "pwmSense"} -> {"GPIO"}
    [] pc = "spi0" -> {"GPIO", "PWM"}
    [] pc = "spi1" -> {"GPIO", "PWM", "SPI0"}
    [] pc = "i2c"  -> {"GPIO", "PWM", "SPI0", "SPI1"}
    [] pc = "summary" -> RunTests
    [] OTHER -> {}

(* The round so far: all tests passed but for a failed transfer, the wired pins silent while GpioTest *)
(* drives its own, and the first channel running once PWMTest has begun.   *)
OnTheWay ==
  /\ pc \notin {"spi1", "i2c", "summary"} => spiFailed = {}
  /\ pc = "spi1" => spiFailed \subseteq {0}
  /\ spiFailed = {} => \A t \in RunTests : counts[t] = IF t \in Won THEN 1 ELSE 0
  /\ pc \notin {"i2c", "summary"} => fds = IF pc = "spi1" THEN 2 ELSE 0
  /\ pc = "i2c" => fds = 4
  /\ pc = "gpioSetup" \/ InGpioTest => \A q \in bench.wired : mode[q] = "INPUT"
  /\ InGpioTest => check = 1
  /\ pc \in {"pwmWrite", "pwmSense"} =>
       /\ check = 0
       /\ mode[InputPin] = "INPUT"
       /\ \A q \in PwmPins : mode[q] = "PWM_OUTPUT"
       /\ i > 1 \/ pc = "pwmSense" => duty[ChannelOf[PwmSeq[1]]] = Half

FirstInv ==
  /\ rounds = 0 => /\ pc = "menu" /\ fds = 0 /\ spiFailed = {}
                   /\ \A t \in RunTests : counts[t] = 0
                   /\ \A p \in Pins : mode[p] = "INPUT"
  /\ rounds = 1 /\ n = 1 /\ SoundStation /\ pc \notin {"menu", "exited"} => OnTheWay

(* A sound pin that GpioTest drives HIGH reads HIGH, InputPin included.     *)
LEMMA SoundRead ==
  ASSUME SoundStation, BoardTypeOK, bench.wired \subseteq PwmPins,
         \A q \in bench.wired : mode[q] = "INPUT",
         NEW p \in Range(GpioPins), mode[p] = "OUTPUT", latch[p] = HIGH,
         NEW v \in Levels(bench.wired, p)
  PROVE  v = HIGH
<1>1. p \in Pins /\ p \notin bench.wired /\ p \in Net(bench.wired, p)
  BY RangeFacts DEF SoundStation, Net
<1>2. /\ Net(bench.wired, p) \subseteq bench.wired \union {p}
      /\ Net(bench.wired, p) \subseteq Pins
  BY <1>1, BoardAssumption DEF Net
<1>3. /\ \A q \in Net(bench.wired, p) : fault[q] = "ok"
      /\ Drivers(bench.wired, p) = {p}
  BY <1>1, <1>2 DEF SoundStation, Drivers
<1>4. Driven(p) = {HIGH}
  BY DEF Driven
<1>5. Levels(bench.wired, p) = {HIGH}
  BY <1>3, <1>4 DEF Levels, Shorted
<1> QED BY <1>5

(* The input pin sees one clean wave.                                       *)
LEMMA SoundWave ==
  ASSUME SoundStation, BoardTypeOK, bench.wired \subseteq PwmPins,
         mode[InputPin] = "INPUT", \A q \in PwmPins : mode[q] = "PWM_OUTPUT",
         duty[ChannelOf[PwmSeq[1]]] = Half, NEW h \in HighCounts(bench.wired)
  PROVE  h \in WaveCounts
<1>1. /\ Net(bench.wired, InputPin) = bench.wired \union {InputPin}
      /\ \A q \in bench.wired \union {InputPin} : q \in Pins /\ fault[q] = "ok"
  BY BoardAssumption DEF Net, SoundStation
<1>2. Drivers(bench.wired, InputPin) = bench.wired
  BY <1>1 DEF Drivers
<1>3. \A q \in bench.wired : Running(q) /\ ChannelOf[q] = ChannelOf[PwmSeq[1]]
  BY BoardAssumption DEF SoundStation, Running
<1>4. /\ ~Shorted(bench.wired, InputPin, "low")
      /\ ~Shorted(bench.wired, InputPin, "high")
  BY <1>1 DEF Shorted
<1>5. bench.wired # {}
  BY DEF SoundStation
<1>6. HighCounts(bench.wired) = WaveCounts
  BY <1>2, <1>3, <1>4, <1>5 DEF HighCounts
<1> QED BY <1>6

(* A pass counts for its own test.                                          *)
LEMMA PassCounts ==
  ASSUME TypeInv, NEW t \in RunTests, NEW next, Return(t, 1, next)
  PROVE  /\ pc' = next
         /\ \A u \in RunTests : counts'[u] = IF u = t THEN counts[u] + 1 ELSE counts[u]
  BY DEF Return, TypeInv, TypeOK, Reported

LEMMA InitFirst == Init => FirstInv
  BY DEF Init, FirstInv, RunTests, Reported

LEMMA NextFirst ==
  ASSUME RoomAndWave
  PROVE  TypeInv /\ ModeInv /\ DriveInv /\ FirstInv /\ [Next]_vars => FirstInv'
<1> SUFFICES ASSUME TypeInv, ModeInv, DriveInv, FirstInv, [Next]_vars
             PROVE  FirstInv'
  OBVIOUS
<1>1. CASE (\E x \in 0..5 : ReadMenu(x)) \/ ReadNothing
  <2>1. /\ UNCHANGED <<mode, fault, bench, counts, fds, spiFailed>>
        /\ pc = "menu"
        /\ \/ rounds' = rounds + 1 /\ pc' = "gpioSetup"
           \/ UNCHANGED <<rounds, pc>>
    BY <1>1 DEF ReadMenu, ReadNothing, Dispatch, boardVars
  <2>2. bench.wired \subseteq Pins /\ rounds \in Nat
    BY WiredArePwm, BoardAssumption, ProgramAssumption DEF TypeInv, TypeOK
  <2>3. CASE rounds' = rounds + 1 /\ pc' = "gpioSetup"
    <3>1. rounds' # 0
      BY <2>2, <2>3
    <3>2. ASSUME rounds' = 1 PROVE OnTheWay'
      <4>1. rounds = 0
        BY <2>2, <2>3, <3>2
      <4> QED BY <2>1, <2>2, <2>3, <4>1 DEF FirstInv, OnTheWay, Won, InGpioTest
    <3> QED BY <3>1, <3>2 DEF FirstInv
  <2>4. CASE UNCHANGED <<rounds, pc>>
    BY <2>1, <2>4 DEF FirstInv
  <2> QED BY <2>1, <2>3, <2>4
<1>2. CASE Rewire
  BY <1>2 DEF Rewire, FirstInv, boardVars
<1>3. CASE UNCHANGED vars
  BY <1>3 DEF vars, boardVars, progVars, FirstInv, OnTheWay, Won, InGpioTest,
              SoundStation
<1>4. ASSUME pc # "menu", UNCHANGED <<rounds, bench, fault>>,
             /\ rounds = 1 /\ n = 1 /\ SoundStation
             /\ OnTheWay /\ pc # "exited" /\ pc' \notin {"menu", "exited"}
             => OnTheWay',
             pc = "exited" => pc' = "exited"
      PROVE  FirstInv'
  BY <1>4 DEF FirstInv, SoundStation
<1> DEFINE Sound == rounds = 1 /\ n = 1 /\ SoundStation /\ OnTheWay
<1>5. bench.wired \subseteq PwmPins /\ BoardTypeOK /\ PwmPins \subseteq Pins
  BY WiredArePwm, BoardAssumption DEF TypeInv, TypeOK
<1>6. CASE GpioSetup
  BY <1>4, <1>6
     DEF GpioSetup, Return, OnTheWay, Won, InGpioTest, boardVars, TypeInv, TypeOK,
         RunTests, Reported
<1>7. CASE GpioDrive
  <2>1. GpioPins[i] \in Range(GpioPins)
    BY <1>7, ArrayFacts, RangeFacts DEF GpioDrive, TypeInv, TypeOK
  <2>2. ASSUME Sound PROVE \A q \in bench.wired : mode'[q] = mode[q]
    BY <1>5, <1>7, <2>1, <2>2, PinModeAt DEF GpioDrive, SoundStation
  <2> QED
    BY <1>4, <1>7, <2>2 DEF GpioDrive, OnTheWay, Won, InGpioTest
<1>8. CASE GpioSense
  <2>1. GpioPins[i] \in Range(GpioPins)
    <3>1. i \in 1..Len(GpioPins)
      BY <1>8, ArrayFacts DEF GpioSense, TypeInv, TypeOK, Indexed
    <3> QED BY <3>1, RangeFacts
  <2>2. ASSUME Sound PROVE check' = check
    <3>1. PICK v \in Levels(bench.wired, GpioPins[i]) : JudgePin(v)
      BY <1>8 DEF GpioSense
    <3>2. v = HIGH
      BY <1>5, <1>8, <2>1, <2>2, SoundRead
         DEF GpioSense, DriveInv, OnTheWay, InGpioTest
    <3> QED BY <3>1, <3>2 DEF JudgePin, LOW, HIGH
  <2> QED
    BY <1>4, <1>8, <2>2 DEF GpioSense, OnTheWay, Won, InGpioTest
<1>9. CASE GpioReturn
  BY <1>4, <1>9
     DEF GpioReturn, Return, OnTheWay, Won, InGpioTest, boardVars, TypeInv, TypeOK,
         RunTests, Reported
<1>10. CASE ResetGPIO
  BY <1>4, <1>10 DEF ResetGPIO, OnTheWay, Won, InGpioTest
<1>11. CASE PwmSetup
  <2>1. mode'[InputPin] = "INPUT"
    BY <1>11, PinModeAt, BoardAssumption DEF PwmSetup
  <2>2. \A q \in PwmPins : mode'[q] = "PWM_OUTPUT"
    <3>1. \A q \in PwmPins :
            PinMode(mode, Range(PwmSeq), "PWM_OUTPUT")[q] = "PWM_OUTPUT"
      BY <1>5, PinModeAt DEF RoomAndWave
    <3>2. \A q \in PwmPins : q # InputPin
      BY BoardAssumption
    <3> QED BY <1>5, <1>11, <3>1, <3>2, PinModeAt DEF PwmSetup
  <2> QED
    BY <1>4, <1>11, <2>1, <2>2 DEF PwmSetup, OnTheWay, Won, InGpioTest
<1>12. CASE PwmStart
  <2>1. PwmSeq[i] \in PwmPins /\ PwmSeq[1] \in PwmPins /\ i \in Nat /\ i >= 1
    BY <1>12, ArrayFacts, ProgramAssumption DEF PwmStart, TypeInv, TypeOK
  <2>2. \A q \in PwmPins : ChannelOf[q] \in Channels
    BY DEF Channels
  <2>3. ASSUME Sound PROVE duty'[ChannelOf[PwmSeq[1]]] = Half
    BY <1>5, <1>12, <2>1, <2>2, <2>3 DEF PwmStart, PwmWrite, BoardTypeOK, OnTheWay
  <2> QED
    BY <1>4, <1>12, <2>3 DEF PwmStart, OnTheWay, Won, InGpioTest
<1>13. CASE PwmSense
  <2>1. ASSUME Sound PROVE check' = check
    <3>1. PICK h \in HighCounts(bench.wired) :
            InBand(h) => UNCHANGED <<printed, check>>
      BY <1>13 DEF PwmSense
    <3>2. h \in WaveCounts
      BY <1>5, <1>13, <2>1, SoundWave DEF PwmSense, OnTheWay
    <3> QED BY <3>1, <3>2 DEF RoomAndWave
  <2> QED
    BY <1>4, <1>13, <2>1 DEF PwmSense, OnTheWay, Won, InGpioTest, boardVars
<1>14. CASE PwmReturn
  <2>1. i > 1
    BY <1>14, ArrayFacts, ProgramAssumption DEF PwmReturn, TypeInv, TypeOK
  <2> QED
    BY <1>4, <1>14
       DEF PwmReturn, Return, OnTheWay, Won, InGpioTest, boardVars, TypeInv, TypeOK,
           RunTests, Reported
<1>15. CASE SPITest_0 \/ SPITest_1
  <2>1. ASSUME Sound
        PROVE  /\ SpiOpened = 2
               /\ spiFailed' = {} => SpiVerdict(0) = 1 /\ SpiVerdict(1) = 1
    BY <1>15, <2>1, ProgramAssumption
       DEF SPITest_0, SPITest_1, SPITest, SpiOpened, SpiVerdict, OnTheWay,
           RoomAndWave, SoundStation
  <2>2. CASE SPITest_0
    <3>1. ASSUME Sound PROVE OnTheWay'
      <4>1. /\ pc = "spi0" /\ pc' = "spi1" /\ fds' = 2
            /\ spiFailed = {} /\ spiFailed' \subseteq {0}
        BY <2>1, <2>2, <3>1 DEF SPITest_0, SPITest, Return, Transfer, OnTheWay
      <4>2. ASSUME spiFailed' = {}
            PROVE  \A u \in RunTests :
                     counts'[u] = IF u = "SPI0" THEN counts[u] + 1 ELSE counts[u]
        <5>1. Return("SPI0", 1, "spi1")
          BY <2>1, <2>2, <3>1, <4>2 DEF SPITest_0, SPITest
        <5> QED BY <5>1, PassCounts DEF RunTests
      <4> QED BY <3>1, <4>1, <4>2 DEF OnTheWay, Won, InGpioTest, RunTests
    <3> QED BY <1>4, <2>2, <3>1 DEF SPITest_0, SPITest, Return, boardVars
  <2>3. CASE SPITest_1
    <3>1. ASSUME Sound PROVE OnTheWay'
      <4>1. /\ pc = "spi1" /\ pc' = "i2c" /\ fds' = 4
            /\ spiFailed' = {} => spiFailed = {}
        BY <2>1, <2>3, <3>1 DEF SPITest_1, SPITest, Return, Transfer, OnTheWay
      <4>2. ASSUME spiFailed' = {}
            PROVE  \A u \in RunTests :
                     counts'[u] = IF u = "SPI1" THEN counts[u] + 1 ELSE counts[u]
        <5>1. Return("SPI1", 1, "i2c")
          BY <2>1, <2>3, <3>1, <4>2 DEF SPITest_1, SPITest
        <5> QED BY <5>1, PassCounts DEF RunTests
      <4> QED BY <3>1, <4>1, <4>2 DEF OnTheWay, Won, InGpioTest, RunTests
    <3> QED BY <1>4, <2>3, <3>1 DEF SPITest_1, SPITest, Return, boardVars
  <2> QED BY <1>15, <2>2, <2>3
<1>16. CASE I2cTest
  <2>1. ASSUME Sound PROVE I2cOpens /\ bench.i2c = "device" /\ ~(iter + 1 < n)
    BY <1>16, <2>1, ProgramAssumption
       DEF I2cTest, I2cOpens, OnTheWay, RoomAndWave, SoundStation, TypeInv, TypeOK
  <2>2. ASSUME Sound PROVE OnTheWay'
    <3>1. pc = "i2c" /\ Return("I2C", 1, "summary") /\ UNCHANGED spiFailed
      BY <1>16, <2>1, <2>2 DEF I2cTest
    <3>2. /\ pc' = "summary"
          /\ \A u \in RunTests :
               counts'[u] = IF u = "I2C" THEN counts[u] + 1 ELSE counts[u]
      BY <3>1, PassCounts DEF RunTests
    <3> QED BY <2>2, <3>1, <3>2 DEF OnTheWay, Won, InGpioTest, RunTests
  <2> QED BY <1>4, <1>16, <2>2 DEF I2cTest, Return, boardVars
<1>17. CASE Summary
  BY <1>4, <1>17 DEF Summary, boardVars
<1> QED
  BY <1>1, <1>2, <1>3, <1>6, <1>7, <1>8, <1>9, <1>10, <1>11, <1>12, <1>13, <1>14,
     <1>15, <1>16, <1>17
     DEF Next, Operator, Step, Exited

(* A sound board on a station wired for it passes every test of a first    *)
(* round of one iteration (main.c and test.c of CombineCode), given the     *)
(* descriptors for it, a wave that counts as one and transfers that work.   *)
THEOREM SoundBoardPassesFirst ==
  ASSUME RoomAndWave
  PROVE  Spec => []FirstRoundPasses
<1>1. FirstInv => FirstRoundPasses
  BY ProgramAssumption
     DEF FirstInv, FirstRoundPasses, OnTheWay, Won, AllPassed, Fail
<1>2. TypeInv /\ ModeInv /\ DriveInv /\ [Next]_vars => DriveInv'
  BY NextDrive
<1>3. Init => DriveInv
  BY DEF Init, DriveInv
<1>4. QED
  BY <1>1, <1>2, <1>3, InitTypes, NextTypes, InitModes, NextModes, InitFirst,
     NextFirst, PTL
     DEF Spec
==============================================================================
