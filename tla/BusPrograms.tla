----------------------------- MODULE BusPrograms -----------------------------
(***************************************************************************)
(* The bus examples of ExampleCode: SPITest2.c, which reads the            *)
(* temperature of a BMP280 over I2C while the sensor goes on measuring;    *)
(* SPITest.c, a loopback over the wire that both SPI channels share; and   *)
(* i2ctest.c, a read and a write of one device.                            *)
(*                                                                         *)
(* A temperature is one number of three digits, the registers MSB, LSB and *)
(* XLSB; how many values a digit has is a parameter (256, 256 and 16).     *)
(***************************************************************************)
EXTENDS Integers, Sequences

CONSTANTS MsbBase, LsbBase, XlsbBase

ASSUME BusAssumption == {MsbBase, LsbBase, XlsbBase} \subseteq Nat \ {0}

Weight  == LsbBase * XlsbBase               \* of the MSB
Samples == 0..MsbBase * Weight - 1
AtReset == (MsbBase \div 2) * Weight        \* 0x80000

Msb(s)  == s \div Weight
Lsb(s)  == (s \div XlsbBase) % LsbBase
Xlsb(s) == s % XlsbBase

NoByte == -1                                \* what a failed transfer returns

VARIABLES
  task,      \* the program that runs
  stage,     \* where it is
  measuring, \* does the sensor measure, or does it sleep?
  sample,    \* the temperature in its registers
  msb, lsb, xlsb,   \* the digits that were read
  raw,       \* the number they were put together to
  first,     \* history: the temperature when the MSB was read
  passing,   \* history: the temperatures since then
  wired,     \* is MOSI wired to MISO?
  passed     \* the verdicts of SPITest.c on its channels, so far

sensor == <<measuring, sample>>
digits == <<msb, lsb, xlsb, raw>>
since  == <<first, passing>>
loop   == <<wired, passed>>
busVars == <<task, stage, sensor, digits, since, loop>>

(* Slips: the MSB is shifted too far, and a failed read is taken as 0.     *)
RawTempShifted(m, l, x) ==
  IF NoByte \in {m, l, x} THEN -1 ELSE m * Weight * XlsbBase + l * XlsbBase + x

RawTempCut(m, l, x) ==
  (IF m = NoByte THEN 0 ELSE m * Weight) + (IF l = NoByte THEN 0 ELSE l * XlsbBase)
    + (IF x = NoByte THEN 0 ELSE x)

-----------------------------------------------------------------------------
BusInit ==
  /\ task \in {"SPITest2", "SPITest", "i2ctest"}
  /\ stage = "open"
  /\ measuring = FALSE /\ sample = AtReset
  /\ msb = 0 /\ lsb = 0 /\ xlsb = 0 /\ raw = 0
  /\ first = AtReset /\ passing = {}
  /\ wired \in BOOLEAN
  /\ passed = <<>>

(* The sensor: a conversion is done; its supply fails for a moment.        *)
Passes(s) == passing' = IF stage \in {"lsb", "xlsb"} THEN passing \union {s} ELSE passing

Convert ==
  /\ measuring
  /\ sample' \in Samples
  /\ Passes(sample')
  /\ UNCHANGED <<task, stage, measuring, digits, first, loop>>

ResetSensor ==
  /\ task = "SPITest2"
  /\ measuring' = FALSE
  /\ sample' = AtReset
  /\ Passes(AtReset)
  /\ UNCHANGED <<task, stage, digits, first, loop>>

(* The operator moves the wire. *)
Rewire ==
  /\ task = "SPITest"
  /\ wired' = ~wired
  /\ UNCHANGED <<task, stage, sensor, digits, since, passed>>

-----------------------------------------------------------------------------
(* SPITest2.c: the device node, the ID (a transfer that fails has not the  *)
(* ID either).                                                             *)
OpenSensor ==
  /\ task = "SPITest2"
  /\ \/ stage = "open" /\ stage' = "id"
     \/ stage = "id" /\ stage' = "calibration"
     \/ stage \in {"open", "id"} /\ stage' = "returned"
  /\ UNCHANGED <<task, sensor, digits, since, loop>>

(* Three calibration words and the control register; no result is looked   *)
(* at, and nobody waits for the first conversion.                          *)
Calibrate ==
  /\ task = "SPITest2" /\ stage = "calibration"
  /\ stage' = "control"
  /\ UNCHANGED <<task, sensor, digits, since, loop>>

Control ==
  /\ task = "SPITest2" /\ stage = "control"
  /\ measuring' \in {measuring, TRUE}
  /\ stage' = "msb"
  /\ UNCHANGED <<task, sample, digits, since, loop>>

(* The three transfers of a reading; each may fail. *)
ReadMsb ==
  /\ stage = "msb"
  /\ msb' \in {Msb(sample), NoByte}
  /\ first' = sample
  /\ passing' = {sample}
  /\ stage' = "lsb"
  /\ UNCHANGED <<task, sensor, lsb, xlsb, raw, loop>>

ReadLsb ==
  /\ stage = "lsb"
  /\ lsb' \in {Lsb(sample), NoByte}
  /\ stage' = "xlsb"
  /\ UNCHANGED <<task, sensor, msb, xlsb, raw, since, loop>>

(* The digits are put together by or-ing; in one of -1 all bits are set.   *)
RawTemp(m, l, x) ==
  IF x = NoByte THEN -1
  ELSE IF l = NoByte THEN x - XlsbBase
  ELSE IF m = NoByte THEN l * XlsbBase + x - Weight
  ELSE m * Weight + l * XlsbBase + x

ReadXlsb ==
  /\ stage = "xlsb"
  /\ xlsb' \in {Xlsb(sample), NoByte}
  /\ raw' = RawTemp(msb, lsb, xlsb')
  /\ stage' = "print"
  /\ UNCHANGED <<task, sensor, msb, lsb, since, loop>>

(* The loop starts over. *)
PrintTemperature ==
  /\ stage = "print"
  /\ stage' = "msb"
  /\ msb' = 0 /\ lsb' = 0 /\ xlsb' = 0 /\ raw' = 0   \* locals of the call
  /\ first' = AtReset /\ passing' = {}
  /\ UNCHANGED <<task, sensor, loop>>

-----------------------------------------------------------------------------
(* SPITest.c: wiringPi and two device nodes, or it returns 1.              *)
OpenChannels ==
  /\ task = "SPITest" /\ stage = "open"
  /\ stage' \in {"loopback", "returned"}
  /\ UNCHANGED <<task, sensor, digits, since, loop>>

(* One channel after the other: the transfer fails, or what comes back     *)
(* decides.                                                                *)
Loopback ==
  /\ task = "SPITest" /\ stage = "loopback"
  /\ passed' \in {Append(passed, IF wired THEN "passed" ELSE "failed"),
                  Append(passed, "no transfer")}
  /\ stage' = IF passed = <<>> THEN "loopback" ELSE "returned"
  /\ UNCHANGED <<task, sensor, digits, since, wired>>

(* i2ctest.c: the device node, or it exits; a read and a write, each of    *)
(* which may fail and is only reported.                                    *)
I2cAccess ==
  /\ task = "i2ctest"
  /\ \/ stage = "open" /\ stage' \in {"read", "returned"} /\ UNCHANGED passed
     \/ /\ stage \in {"read", "write"}
        /\ stage' = IF stage = "read" THEN "write" ELSE "returned"
        /\ passed' \in {Append(passed, "passed"), Append(passed, "failed")}
  /\ UNCHANGED <<task, sensor, digits, since, wired>>

Returned == stage = "returned" /\ UNCHANGED busVars

BusNext ==
  \/ Convert \/ ResetSensor \/ Rewire
  \/ OpenSensor \/ Calibrate \/ Control
  \/ ReadMsb \/ ReadLsb \/ ReadXlsb \/ PrintTemperature
  \/ OpenChannels \/ Loopback \/ I2cAccess
  \/ Returned

BusSpec == BusInit /\ [][BusNext]_busVars

-----------------------------------------------------------------------------
(***************************************************************************)
(* What must hold                                                          *)
(***************************************************************************)

(* Every variable stays in its range. *)
BusTypeOK ==
  /\ sample \in Samples /\ first \in Samples /\ passing \subseteq Samples
  /\ msb \in NoByte..MsbBase - 1
  /\ lsb \in NoByte..LsbBase - 1
  /\ xlsb \in NoByte..XlsbBase - 1
  /\ raw \in -Weight..MsbBase * Weight - 1
  /\ Len(passed) <= 2

(* A failed transfer goes unnoticed, but not without trace: the number the *)
(* digits are put together to (SPITest2.c:46) is negative exactly when one *)
(* of the three transfers failed, whichever it was.                        *)
FailureShowsInSign ==
  stage = "print" => (raw < 0 <=> NoByte \in {msb, lsb, xlsb})

(* The three digits may be of three temperatures (SPITest2.c:41-43).  A    *)
(* reading that no conversion fell into is the sensor's; any other is less *)
(* than one step of the MSB away from the temperature it began with; and   *)
(* only if the MSB moved may it fail to lie between two of them, each      *)
(* widened by a step of the LSB.                                           *)
TornReading ==
  stage = "print" /\ raw >= 0 =>
    /\ passing = {first} => raw = first
    /\ raw \in first - Weight + 1..first + Weight - 1
    /\ (\A s \in passing : Msb(s) = Msb(first)) =>
         \E s, t \in passing : s - XlsbBase < raw /\ raw < t + XlsbBase
==============================================================================
