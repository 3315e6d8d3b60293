------------------------- MODULE GpioRegisters_proofs -------------------------
(***************************************************************************)
(* Proofs about GpioRegisters, for every content of the registers at the   *)
(* start, every board and whatever the write-only registers read as.       *)
(*                                                                         *)
(* OnlyTheTestedPin looks at one pin at a time and is not inductive: the   *)
(* walk knows that the other pins of a register are inputs because it      *)
(* cleared the whole register after the pin before.  RegsInv says what     *)
(* every register holds, bit for bit, and ShiftInv where k stands against  *)
(* j: together they are inductive, and the rest follows from them.         *)
(***************************************************************************)
EXTENDS GpioRegisters, TLAPS

Walking == part \in {"start", "driveHigh"} \/ Testing

ShiftInv ==
  /\ part = "start" => j = 0 /\ k = 0
  /\ part = "driveHigh" => j \in Pins /\ (j \notin {10, 20} => k = Low3(j))
  /\ Testing => j \in Pins /\ k = Low3(j)
  /\ part \in {"report", "done"} => j = PinCount

Content(r) ==
  IF r < RegOf(j) THEN {}
  ELSE IF r = RegOf(j)
       THEN (IF j \in FirstPins THEN before[r] ELSE {})
              \union (IF Testing THEN {Low3(j)} ELSE {})
       ELSE before[r]

Cleared == part \in {"report", "done"} => gpfsel = [r \in Regs |-> {}]

RegsInv ==
  /\ Walking => \A r \in Regs : gpfsel[r] = Content(r)
  /\ Cleared

LatchInv ==
  /\ part = "high" => j \in latch
  /\ part = "low" => j \notin latch

LowSeen == part \in {"driveLow", "low"} /\ broken[j] = "low" => j \in printed

IInv == WalkTypeOK /\ ShiftInv /\ RegsInv /\ LatchInv /\ LowSeen /\ NamesFaults

-----------------------------------------------------------------------------
(* The pins 0 to 29 are ten to a register, three bits to a pin. *)
LEMMA RegOfFacts ==
  ASSUME NEW p \in 0..29
  PROVE  /\ RegOf(p) \in Regs
         /\ Low3(p) \in 0..27
         /\ p \in 0..9 => RegOf(p) = 0 /\ Low3(p) = 3 * p
         /\ p \in 10..19 => RegOf(p) = 1 /\ Low3(p) = 3 * (p - 10)
         /\ p \in 20..29 => RegOf(p) = 2 /\ Low3(p) = 3 * (p - 20)
  BY DEF RegOf, Low3, Regs

(* From one pin to the next the field moves up by three bits, or the next  *)
(* pin is the first of the next register.                                  *)
LEMMA NextPin ==
  ASSUME NEW p \in Pins
  PROVE  /\ p + 1 \in 0..27
         /\ p + 1 \notin FirstPins => RegOf(p + 1) = RegOf(p) /\ Low3(p + 1) = Low3(p) + 3
         /\ p + 1 \in FirstPins => RegOf(p + 1) = RegOf(p) + 1 /\ Low3(p + 1) = 0
<1>1. p \in 0..29 /\ p + 1 \in 0..29 /\ p + 1 \in 0..27
  BY DEF Pins
<1>2. QED
  BY <1>1, RegOfFacts DEF FirstPins

(* Two pins of a register have no bit in common. *)
LEMMA FieldsDisjoint ==
  ASSUME NEW p \in Held, NEW q \in Held, p # q, RegOf(p) = RegOf(q)
  PROVE  Low3(q) \notin FieldOf(p)
<1>1. p \in 0..29 /\ q \in 0..29
  BY DEF Held
<1>2. CASE p \in 0..9 /\ q \in 0..9
  BY <1>1, <1>2, RegOfFacts DEF FieldOf
<1>3. CASE p \in 10..19 /\ q \in 10..19
  BY <1>1, <1>3, RegOfFacts DEF FieldOf
<1>4. CASE p \in 20..29 /\ q \in 20..29
  BY <1>1, <1>4, RegOfFacts DEF FieldOf
<1>5. QED
  BY <1>1, <1>2, <1>3, <1>4, RegOfFacts

-----------------------------------------------------------------------------
LEMMA InitInv == WalkInit => IInv
<1> SUFFICES ASSUME WalkInit PROVE IInv
  OBVIOUS
<1> USE RegistersAssumption
<1>1. RegOf(0) = 0 /\ Low3(0) = 0
  BY RegOfFacts
<1>2. WalkTypeOK
  BY DEF WalkInit, WalkTypeOK, PinCount
<1>3. ShiftInv
  BY DEF WalkInit, ShiftInv, Testing
<1>4. RegsInv
  BY <1>1 DEF WalkInit, RegsInv, Content, Cleared, Testing, FirstPins, Regs
<1>5. LatchInv /\ LowSeen
  BY DEF WalkInit, LatchInv, LowSeen
<1>6. NamesFaults
  BY DEF WalkInit, NamesFaults, Tried, Pins
<1>7. QED
  BY <1>2, <1>3, <1>4, <1>5, <1>6 DEF IInv

(* What a step of the loop's body starts from *)
LEMMA TestedPin ==
  ASSUME IInv, Walking, part # "start"
  PROVE  /\ j \in Pins /\ j \in Nat /\ RegOf(j) \in Regs /\ Low3(j) \in 0..27
         /\ broken \in [Pins -> PinFaults]
<1>1. j \in Pins
  BY DEF IInv, ShiftInv, Walking
<1>2. j \in 0..29
  BY <1>1 DEF Pins
<1>3. QED
  BY <1>1, <1>2, RegOfFacts, RegistersAssumption DEF IInv, WalkTypeOK

(* Or-ing bit k into the tested pin's register puts the output bit there.   *)
LEMMA StepDriveHigh == IInv /\ DriveHigh => IInv'
<1> SUFFICES ASSUME IInv, DriveHigh PROVE IInv'
  OBVIOUS
<1> USE RegistersAssumption
<1>1. /\ j \in Pins /\ j \in Nat /\ RegOf(j) \in Regs /\ Low3(j) \in 0..27
      /\ broken \in [Pins -> PinFaults]
  BY TestedPin DEF DriveHigh, Walking
<1>2. k' = Low3(j)
  <2>1. j \in {10, 20} => Low3(j) = 0
    BY RegOfFacts
  <2>2. QED
    BY <2>1 DEF DriveHigh, Shift, IInv, ShiftInv
<1>3. WalkTypeOK'
  BY <1>1, <1>2 DEF IInv, WalkTypeOK, DriveHigh, Bits, Pins, PinCount
<1>4. ShiftInv'
  BY <1>1, <1>2 DEF DriveHigh, ShiftInv, Testing
<1>5. RegsInv'
  <2>1. ASSUME NEW r \in Regs PROVE (gpfsel[r] = Content(r))'
    <3>1. gpfsel[r] = Content(r)
      BY DEF IInv, RegsInv, DriveHigh, Walking
    <3>2. gpfsel'[r] = IF r = RegOf(j) THEN gpfsel[r] \union {Low3(j)} ELSE gpfsel[r]
      BY <1>2 DEF DriveHigh, IInv, WalkTypeOK
    <3>3. Content(r)' = IF r = RegOf(j) THEN Content(r) \union {Low3(j)} ELSE Content(r)
      <4>1. j' = j /\ before' = before /\ ~Testing /\ Testing'
        BY DEF DriveHigh, Testing
      <4>2. Content(r)' = IF r < RegOf(j) THEN {}
                          ELSE IF r = RegOf(j)
                               THEN (IF j \in FirstPins THEN before[r] ELSE {}) \union {Low3(j)}
                               ELSE before[r]
        BY <4>1 DEF Content, RegOf, Low3
      <4>3. Content(r) = IF r < RegOf(j) THEN {}
                         ELSE IF r = RegOf(j)
                              THEN (IF j \in FirstPins THEN before[r] ELSE {}) \union {}
                              ELSE before[r]
        BY <4>1 DEF Content
      <4>4. ~(RegOf(j) < RegOf(j))
        BY <1>1 DEF Regs
      <4>5. QED
        BY <4>2, <4>3, <4>4
    <3>4. QED
      BY <3>1, <3>2, <3>3
  <2>2. QED
    BY <2>1 DEF RegsInv, Cleared, DriveHigh
<1>6. LatchInv' /\ LowSeen'
  BY DEF DriveHigh, LatchInv, LowSeen
<1>7. NamesFaults'
  BY DEF DriveHigh, IInv, NamesFaults, Tried, LeftInAlternate
<1>8. QED
  BY <1>3, <1>4, <1>5, <1>6, <1>7 DEF IInv

-----------------------------------------------------------------------------
(* While pin j is tested, its register shows j as an output, and nothing    *)
(* else the walk has passed shows at all.                                   *)
LEMMA TestedAlone == IInv => OnlyTheTestedPin
<1> SUFFICES ASSUME IInv, Testing PROVE OnlyTheTestedPin
  BY DEF OnlyTheTestedPin
<1>1. /\ j \in Pins /\ j \in Nat /\ RegOf(j) \in Regs /\ Low3(j) \in 0..27
  BY TestedPin DEF Testing, Walking
<1>2. \A r \in Regs : gpfsel[r] = Content(r)
  BY DEF IInv, RegsInv, Walking
<1>3. FieldBits(gpfsel, j) =
        {Low3(j)} \union (IF j \in FirstPins THEN FieldBits(before, j) ELSE {})
  BY <1>1, <1>2 DEF FieldBits, Content, FieldOf, Regs
<1>4. ASSUME NEW p \in Held \ {j}
      PROVE  FieldBits(gpfsel, p) =
               IF RegOf(p) < RegOf(j) \/ (RegOf(p) = RegOf(j) /\ j \notin FirstPins)
               THEN {} ELSE FieldBits(before, p)
  <2>1. RegOf(p) \in Regs
    BY RegOfFacts DEF Held
  <2>2. CASE RegOf(p) = RegOf(j)
    <3>1. Low3(j) \notin FieldOf(p)
      BY <1>1, <2>2, FieldsDisjoint DEF Pins, Held
    <3>2. gpfsel[RegOf(p)] =
            (IF j \in FirstPins THEN before[RegOf(p)] ELSE {}) \union {Low3(j)}
      BY <1>2, <2>1, <2>2 DEF Content, Regs
    <3>3. QED
      BY <1>1, <2>2, <3>1, <3>2 DEF FieldBits, Regs
  <2>3. CASE RegOf(p) # RegOf(j)
    BY <1>1, <1>2, <2>1, <2>3 DEF FieldBits, Content, Regs
  <2>4. QED
    BY <2>2, <2>3
<1>5. QED
  BY <1>3, <1>4 DEF OnlyTheTestedPin

(* A sound pin that does not show its latch was left in an alternate        *)
(* function.                                                                *)
LEMMA Readable ==
  ASSUME IInv, Testing, broken[j] = "ok"
  PROVE  \/ Levels(j) = {IF j \in latch THEN 1 ELSE 0}
         \/ LeftInAlternate(j)
<1>1. FieldBits(gpfsel, j) =
        {Low3(j)} \union (IF j \in FirstPins THEN FieldBits(before, j) ELSE {})
  BY TestedAlone DEF OnlyTheTestedPin
<1>2. CASE IsOutput(j)
  BY <1>2 DEF Levels
<1>3. CASE ~IsOutput(j)
  <2>1. FieldBits(gpfsel, j) # {Low3(j)}
    BY <1>3 DEF IsOutput
  <2>2. j \in FirstPins
    BY <1>1, <2>1
  <2>3. ~(FieldBits(before, j) \subseteq {Low3(j)})
    BY <1>1, <2>1, <2>2
  <2>4. QED
    BY <2>2, <2>3 DEF LeftInAlternate
<1>4. QED
  BY <1>2, <1>3

(* The parts of the invariant that a read leaves alone *)
LEMMA SenseKeeps ==
  ASSUME IInv, Testing, Testing', UNCHANGED <<j, k, gpfsel, before>>
  PROVE  ShiftInv' /\ RegsInv'
<1>1. ShiftInv'
  BY DEF IInv, ShiftInv, Testing, Low3
<1>2. RegsInv'
  BY DEF IInv, RegsInv, Testing, Walking, Content, RegOf, Low3, Cleared
<1>3. QED
  BY <1>1, <1>2

LEMMA StepSenseHigh == IInv /\ SenseHigh => IInv'
<1> SUFFICES ASSUME IInv, SenseHigh PROVE IInv'
  OBVIOUS
<1> USE RegistersAssumption
<1>1. Testing /\ Testing'
  BY DEF SenseHigh, Testing
<1>2. /\ j \in Pins /\ j \in Nat /\ broken \in [Pins -> PinFaults]
  BY <1>1, TestedPin DEF Walking, Testing
<1>3. ShiftInv' /\ RegsInv'
  BY <1>1, SenseKeeps DEF SenseHigh
<1>4. PICK level \in Levels(j) : IF level = 0 THEN Report(j) ELSE Good
  BY DEF SenseHigh
<1>5. WalkTypeOK'
  BY <1>2, <1>4 DEF IInv, WalkTypeOK, SenseHigh, Report, Good
<1>6. LatchInv'
  BY DEF SenseHigh, LatchInv
<1>7. LowSeen'
  BY <1>4 DEF SenseHigh, LowSeen, Levels, Report
<1>8. NamesFaults'
  <2>1. level = 0 => broken[j] # "ok" \/ LeftInAlternate(j)
    BY <1>1, <1>4, Readable DEF IInv, LatchInv, SenseHigh
  <2>2. Tried' = Tried
    BY DEF SenseHigh, Tried
  <2>3. QED
    BY <1>4, <2>1, <2>2 DEF IInv, NamesFaults, SenseHigh, Report, Good, LeftInAlternate
<1>9. QED
  BY <1>3, <1>5, <1>6, <1>7, <1>8 DEF IInv

LEMMA StepDriveLow == IInv /\ DriveLow => IInv'
<1> SUFFICES ASSUME IInv, DriveLow PROVE IInv'
  OBVIOUS
<1>1. Testing /\ Testing'
  BY DEF DriveLow, Testing
<1>2. ShiftInv' /\ RegsInv'
  BY <1>1, SenseKeeps DEF DriveLow
<1>3. WalkTypeOK'
  BY DEF IInv, WalkTypeOK, DriveLow
<1>4. LatchInv' /\ LowSeen'
  BY DEF IInv, DriveLow, LatchInv, LowSeen
<1>5. NamesFaults'
  BY DEF DriveLow, IInv, NamesFaults, Tried, LeftInAlternate
<1>6. QED
  BY <1>2, <1>3, <1>4, <1>5 DEF IInv

LEMMA StepSenseLow == IInv /\ SenseLow => IInv'
<1> SUFFICES ASSUME IInv, SenseLow PROVE IInv'
  OBVIOUS
<1> USE RegistersAssumption
<1>1. Testing /\ Testing'
  BY DEF SenseLow, Testing
<1>2. /\ j \in Pins /\ j \in Nat /\ broken \in [Pins -> PinFaults]
  BY <1>1, TestedPin DEF Walking, Testing
<1>3. ShiftInv' /\ RegsInv'
  BY <1>1, SenseKeeps DEF SenseLow
<1>4. PICK level \in Levels(j) : IF Refused(level) THEN Report(j) ELSE Good
  BY DEF SenseLow
<1>5. WalkTypeOK'
  BY <1>2, <1>4 DEF IInv, WalkTypeOK, SenseLow, Report, Good
<1>6. LatchInv' /\ LowSeen'
  BY DEF SenseLow, LatchInv, LowSeen
<1>7. NamesFaults'
  <2>1. level = 1 => broken[j] # "ok" \/ LeftInAlternate(j)
    BY <1>1, <1>4, Readable DEF IInv, LatchInv, SenseLow
  <2>2. broken[j] \in {"low", "high"} => j \in printed'
    BY <1>4 DEF IInv, LowSeen, SenseLow, Levels, Refused, Report, Good
  <2>3. Tried' = Tried \union {j}
    BY <1>2 DEF SenseLow, Tried
  <2>4. printed' \subseteq printed \union {j} /\ printed \subseteq printed'
    BY <1>4 DEF Report, Good
  <2>5. check' = 1 <=> printed' # {}
    BY <1>4 DEF IInv, NamesFaults, Report, Good
  <2>6. \A p \in printed' : broken[p] # "ok" \/ LeftInAlternate(p)
    BY <1>4, <2>1 DEF IInv, NamesFaults, Refused, Report, Good
  <2>7. UNCHANGED <<broken, before>>
    BY DEF SenseLow
  <2>8. QED
    BY <2>2, <2>3, <2>4, <2>5, <2>6, <2>7 DEF IInv, NamesFaults, LeftInAlternate
<1>8. QED
  BY <1>3, <1>5, <1>6, <1>7 DEF IInv

(* Clearing the register leaves the walk at a clean register or at a new one. *)
LEMMA StepRelease == IInv /\ Release => IInv'
<1> SUFFICES ASSUME IInv, Release PROVE IInv'
  OBVIOUS
<1>1. /\ j \in Pins /\ j \in Nat /\ RegOf(j) \in Regs /\ Low3(j) \in 0..27
  BY TestedPin DEF Release, Walking, Testing
<1>2. k = Low3(j)
  BY DEF IInv, ShiftInv, Release, Testing
<1>3. j' = j + 1 /\ k' = Low3(j) + 3
  BY <1>2 DEF Release
<1>4. WalkTypeOK'
  BY <1>1, <1>2, <1>3 DEF IInv, WalkTypeOK, Release, Released, More, Pins, PinCount
<1>5. ShiftInv'
  BY <1>1, <1>3, NextPin
     DEF Release, More, ShiftInv, Testing, Pins, PinCount, FirstPins, Low3
<1>6. RegsInv'
  <2>1. ASSUME NEW r \in Regs
        PROVE  gpfsel'[r] = IF r <= RegOf(j) THEN {} ELSE before[r]
    <3>1. gpfsel[r] = Content(r)
      BY DEF IInv, RegsInv, Release, Walking, Testing
    <3>2. QED
      BY <1>1, <3>1 DEF Release, Released, IInv, WalkTypeOK, Content, Regs
  <2>2. CASE part' = "driveHigh"
    <3>1. RegOf(j') = IF j' \in FirstPins THEN RegOf(j) + 1 ELSE RegOf(j)
      BY <1>1, <1>3, NextPin
    <3>2. ASSUME NEW r \in Regs PROVE (gpfsel[r] = Content(r))'
      <4>1. Content(r)' = IF r < RegOf(j') THEN {}
                          ELSE IF r = RegOf(j')
                               THEN (IF j' \in FirstPins THEN before[r] ELSE {})
                               ELSE before[r]
        BY <2>2 DEF Content, Testing, RegOf, Release
      <4>2. QED
        BY <1>1, <2>1, <3>1, <4>1 DEF Regs
    <3>3. QED
      BY <2>2, <3>2 DEF RegsInv, Cleared
  <2>3. CASE part' = "report"
    <3>1. j = 26
      BY <1>1, <1>3, <2>3 DEF Release, More, Pins, PinCount
    <3>2. RegOf(j) = 2
      BY <3>1, RegOfFacts
    <3>3. gpfsel' \in [Regs -> SUBSET Bits]
      BY <1>4 DEF WalkTypeOK
    <3>4. gpfsel' = [r \in Regs |-> {}]
      BY <2>1, <3>2, <3>3 DEF Regs
    <3>5. QED
      BY <2>3, <3>4 DEF RegsInv, Cleared, Walking, Testing
  <2>4. QED
    BY <2>2, <2>3 DEF Release
<1>7. LatchInv' /\ LowSeen'
  BY DEF Release, LatchInv, LowSeen
<1>8. NamesFaults'
  <2>1. Tried' = Tried
    BY <1>1, <1>3 DEF Release, Tried, Pins
  <2>2. QED
    BY <2>1 DEF Release, IInv, NamesFaults, LeftInAlternate
<1>9. QED
  BY <1>4, <1>5, <1>6, <1>7, <1>8 DEF IInv

LEMMA StepOpen == IInv /\ OpenMem => IInv'
<1> SUFFICES ASSUME IInv, OpenMem PROVE IInv'
  OBVIOUS
<1>1. WalkTypeOK'
  BY DEF IInv, WalkTypeOK, OpenMem
<1>2. ShiftInv'
  BY DEF IInv, ShiftInv, OpenMem, Testing, Pins, Low3
<1>3. RegsInv'
  BY DEF IInv, RegsInv, OpenMem, Testing, Walking, Content, RegOf, Low3, Cleared
<1>4. LatchInv' /\ LowSeen'
  BY DEF OpenMem, LatchInv, LowSeen
<1>5. NamesFaults'
  BY DEF OpenMem, IInv, NamesFaults, Tried, LeftInAlternate
<1>6. QED
  BY <1>1, <1>2, <1>3, <1>4, <1>5 DEF IInv

LEMMA StepFinish == IInv /\ Finish => IInv'
<1> SUFFICES ASSUME IInv, Finish PROVE IInv'
  OBVIOUS
<1>1. WalkTypeOK' /\ ShiftInv'
  BY DEF IInv, WalkTypeOK, ShiftInv, Finish, Testing
<1>2. RegsInv'
  BY DEF IInv, RegsInv, Finish, Testing, Walking, Cleared
<1>3. LatchInv' /\ LowSeen'
  BY DEF Finish, LatchInv, LowSeen
<1>4. NamesFaults'
  BY DEF Finish, IInv, NamesFaults, Tried, LeftInAlternate
<1>5. QED
  BY <1>1, <1>2, <1>3, <1>4 DEF IInv

LEMMA StepNone == IInv /\ UNCHANGED walkVars => IInv'
  BY DEF walkVars, IInv, WalkTypeOK, ShiftInv, RegsInv, LatchInv, LowSeen, NamesFaults,
         Testing, Walking, Content, RegOf, Low3, Cleared, Tried,
         LeftInAlternate

(* The invariant is inductive. *)
LEMMA Inductive == IInv /\ [WalkNext]_walkVars => IInv'
  BY StepOpen, StepDriveHigh, StepSenseHigh, StepDriveLow, StepSenseLow,
     StepRelease, StepFinish, StepNone
  DEF WalkNext, WalkEnded

LEMMA Invariant == WalkSpec => []IInv
  BY InitInv, Inductive, PTL DEF WalkSpec

-----------------------------------------------------------------------------
(* The counters of the walk stay in range, and the bit or-ed in its register. *)
THEOREM RegistersTyped == WalkSpec => []WalkTypeOK
<1>1. IInv => WalkTypeOK
  BY DEF IInv
<1>2. QED
  BY <1>1, Invariant, PTL

(* The two counters of the walk stay together over the three registers: the  *)
(* pin that is driven is the pin that is read, and no pin passed is left.     *)
THEOREM TestsOnePin == WalkSpec => []OnlyTheTestedPin
  BY TestedAlone, Invariant, PTL

(* The walk names every stuck pin, and no sound one except a register's       *)
(* first in an alternate function, on every board and from every setup.       *)
THEOREM WalkNamesFaults == WalkSpec => []NamesFaults
<1>1. IInv => NamesFaults
  BY DEF IInv
<1>2. QED
  BY <1>1, Invariant, PTL

(* Whatever functions the pins had, the walk leaves none of the thirty an     *)
(* output, for it has cleared all three registers by then.                    *)
THEOREM WalkEndsUndriven == WalkSpec => []EndsUndriven
<1>1. ASSUME Cleared, part \in {"report", "done"}, NEW p \in Held
      PROVE  ~IsOutput(p)
  <2>1. RegOf(p) \in Regs
    BY RegOfFacts DEF Held
  <2>2. FieldBits(gpfsel, p) = {}
    BY <1>1, <2>1 DEF Cleared, FieldBits
  <2> QED BY <2>2 DEF IsOutput
<1>2. IInv => EndsUndriven
  BY <1>1 DEF IInv, RegsInv, EndsUndriven
<1>3. QED
  BY <1>2, Invariant, PTL
==============================================================================
