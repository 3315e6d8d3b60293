---------------------------- MODULE GpioRegisters ----------------------------
(***************************************************************************)
(* ExampleCode/GPIOTest.c, and its copy Gpio_Test in ExampleCode/test.c:   *)
(* the test of the pins 0 to 26 by register access, without wiringPi.      *)
(*                                                                         *)
(* A function select register (GPFSEL0..2) holds ten pins, three bits a    *)
(* pin: 000 is an input, 001 an output, the rest are the alternate         *)
(* functions of SPI, I2C, UART and PWM.  A register is the set of its bits *)
(* that are 1.  The program counts two things along, j (the pin) and k     *)
(* (the bit it or-s into the register), and starts k anew when j enters    *)
(* another register.                                                       *)
(*                                                                         *)
(* GPSET0 and GPCLR0 act on the output latches where a 1 is written; what  *)
(* a read of them returns is not defined, so the or-ing at lines 82 and 89 *)
(* writes any of the sets in Echoes along.                                 *)
(***************************************************************************)
EXTENDS Integers

CONSTANTS
  Setups,   \* what the registers may hold when the program starts
  Boards,   \* the faults a board may have
  Echoes    \* what a read of GPSET0 or GPCLR0 may return

PinCount == 27
Pins  == 0..26       \* the pins the program tests
Held  == 0..29       \* the pins the three registers hold
Regs  == 0..2
Bits  == 0..31
FirstPins == {0, 10, 20}   \* the first pin of each register

PinFaults == {"ok", "low", "high", "dead"}

ASSUME RegistersAssumption ==
  /\ Setups \subseteq [Regs -> SUBSET Bits]
  /\ Boards \subseteq [Pins -> PinFaults]
  /\ Echoes \subseteq SUBSET Bits

VARIABLES
  part,     \* "start", the five parts of the loop's body, "report", "done", "exited"
  j, k, check,
  gpfsel,   \* the function select registers
  latch,    \* the pins whose output latch is HIGH
  printed,  \* the pins printed as failed
  before,   \* the registers at the start: a history variable
  broken    \* what is wrong with each pin

walkVars == <<part, j, k, check, gpfsel, latch, printed, before, broken>>

(* The register of pin p, and the bits in it that are p's *)
RegOf(p)   == p \div 10
Low3(p)    == 3 * (p % 10)
FieldOf(p) == {Low3(p), Low3(p) + 1, Low3(p) + 2}

FieldBits(regs, p) == regs[RegOf(p)] \intersect FieldOf(p)
IsOutput(p) == FieldBits(gpfsel, p) = {Low3(p)}

(* What a read of GPLEV0 may return for p: what drives the pin, or either *)
Levels(p) ==
  IF broken[p] = "low" THEN {0}
  ELSE IF broken[p] = "high" THEN {1}
  ELSE IF broken[p] = "ok" /\ IsOutput(p) THEN {IF p \in latch THEN 1 ELSE 0}
  ELSE {0, 1}

WalkInit ==
  /\ part = "start"
  /\ j = 0 /\ k = 0 /\ check = 0
  /\ gpfsel \in Setups
  /\ before = gpfsel
  /\ latch \in Echoes
  /\ printed = {}
  /\ broken \in Boards

-----------------------------------------------------------------------------
(* (Slips, as a likely bug would have them: k not started anew at the third *)
(* register; the pin judged by its HIGH level only; a branch copied with    *)
(* the register of the branch before it.)                                   *)
ShiftTwice   == IF j = 10 THEN 0 ELSE k
RefusesNone(level) == FALSE
ReleasedCopy == [gpfsel EXCEPT ![IF j < 20 THEN RegOf(j) ELSE 1] = {}]

(* /dev/mem cannot be opened, or not be mapped; or the walk begins. *)
OpenMem ==
  /\ part = "start"
  /\ part' \in {"exited", "driveHigh"}
  /\ UNCHANGED <<j, k, check, gpfsel, latch, printed, before, broken>>

(* if(j == 10) k = 0; and if(j == 20) k = 0; *)
Shift == IF j \in {10, 20} THEN 0 ELSE k

(* *gpfsel |= (1<<k); *gpset0 |= (1 << j); *)
DriveHigh ==
  /\ part = "driveHigh"
  /\ k' = Shift
  /\ gpfsel' = [gpfsel EXCEPT ![RegOf(j)] = @ \union {k'}]
  /\ \E e \in Echoes : latch' = latch \union {j} \union e
  /\ part' = "high"
  /\ UNCHANGED <<j, check, printed, before, broken>>

Report(p) ==
  /\ printed' = printed \union {p}
  /\ check' = 1

Good == UNCHANGED <<printed, check>>

SenseHigh ==
  /\ part = "high"
  /\ \E level \in Levels(j) : IF level = 0 THEN Report(j) ELSE Good
  /\ part' = "driveLow"
  /\ UNCHANGED <<j, k, gpfsel, latch, before, broken>>

(* *gpclr0 |= (1 << j); *)
DriveLow ==
  /\ part = "driveLow"
  /\ \E e \in Echoes : latch' = latch \ ({j} \union e)
  /\ part' = "low"
  /\ UNCHANGED <<j, k, check, gpfsel, printed, before, broken>>

(* Whether the level read while the pin is driven LOW is taken for a failure *)
Refused(level) == level = 1

SenseLow ==
  /\ part = "low"
  /\ \E level \in Levels(j) : IF Refused(level) THEN Report(j) ELSE Good
  /\ part' = "release"
  /\ UNCHANGED <<j, k, gpfsel, latch, before, broken>>

(* *gpfsel &= 0, the whole register; the same on gpset0 and gpclr0 writes   *)
(* no 1 and does nothing.                                                   *)
Released == [gpfsel EXCEPT ![RegOf(j)] = {}]
More == j' < PinCount

Release ==
  /\ part = "release"
  /\ gpfsel' = Released
  /\ k' = k + 3
  /\ j' = j + 1
  /\ part' = IF More THEN "driveHigh" ELSE "report"
  /\ UNCHANGED <<check, latch, printed, before, broken>>

(* "fail" or "sucess" goes with check. *)
Finish ==
  /\ part = "report"
  /\ part' = "done"
  /\ UNCHANGED <<j, k, check, gpfsel, latch, printed, before, broken>>

WalkEnded == part \in {"done", "exited"} /\ UNCHANGED walkVars

WalkNext ==
  \/ OpenMem \/ DriveHigh \/ SenseHigh \/ DriveLow \/ SenseLow \/ Release \/ Finish
  \/ WalkEnded

WalkSpec == WalkInit /\ [][WalkNext]_walkVars

-----------------------------------------------------------------------------
(* Every variable stays in its range, and every bit or-ed inside its field. *)
WalkTypeOK ==
  /\ part \in {"start", "driveHigh", "high", "driveLow", "low", "release",
             "report", "done", "exited"}
  /\ j \in 0..PinCount
  /\ k \in 0..30
  /\ check \in {0, 1}
  /\ gpfsel \in [Regs -> SUBSET Bits]
  /\ latch \subseteq Bits
  /\ printed \subseteq Pins
  /\ before \in Setups
  /\ broken \in Boards

Testing == part \in {"high", "driveLow", "low", "release"}

(* The bit or-ed is the lowest of the tested pin's field, and only there:   *)
(* while pin j is tested its field is what it was before with the output    *)
(* bit on, the pins before it are inputs, and the other pins of its register *)
(* are inputs too, unless j is the register's first: those still have the    *)
(* functions they were found with (GPIOTest.c:80-145).                      *)
OnlyTheTestedPin ==
  Testing =>
    /\ FieldBits(gpfsel, j) =
         {Low3(j)} \union (IF j \in FirstPins THEN FieldBits(before, j) ELSE {})
    /\ \A p \in Held \ {j} :
         FieldBits(gpfsel, p) =
           IF RegOf(p) < RegOf(j) \/ (RegOf(p) = RegOf(j) /\ j \notin FirstPins)
           THEN {} ELSE FieldBits(before, p)

(* A pin that or-ing 001 into its field does not make an output: the first  *)
(* of its register, found in an alternate function other than 001.          *)
LeftInAlternate(p) == p \in FirstPins /\ ~(FieldBits(before, p) \subseteq {Low3(p)})

Tried == {p \in Pins : p < j \/ (p = j /\ part = "release")}

(* The pins named are the right ones: every stuck pin tried so far was      *)
(* printed; a pin that was printed is broken or was left in an alternate    *)
(* function (no pin is failed for what its neighbours do); and the program  *)
(* says "fail" when it named a pin (GPIOTest.c:149).                        *)
NamesFaults ==
  /\ \A p \in Tried : broken[p] \in {"low", "high"} => p \in printed
  /\ \A p \in printed : broken[p] # "ok" \/ LeftInAlternate(p)
  /\ check = 1 <=> printed # {}

(* The walk leaves no pin driven, neither those it tested nor one that was  *)
(* an output before (GPIOTest.c:96, 119, 142).  It gets there by clearing   *)
(* whole registers, which costs the pins of the buses their functions.      *)
EndsUndriven == part \in {"report", "done"} => \A p \in Held : ~IsOutput(p)

-----------------------------------------------------------------------------
(* What the specification of this test says and the code does not do: the   *)
(* walk over the pins 0 to 26 leaves those of I2C and SPI out (document/    *)
(* "GPIO test code specification":42), so it makes none of them an output.  *)
BusPins == {2, 3} \union (7..11)

BusPinsLeftOut ==
  \A p \in BusPins : IsOutput(p) => FieldBits(before, p) = {Low3(p)}
==============================================================================
