-------------------------- MODULE BusPrograms_proofs ---------------------------
(***************************************************************************)
(* Theorems about the bus examples, for digits of any number of values: in *)
(* particular for the bytes and the half byte of the BMP280.               *)
(***************************************************************************)
EXTENDS BusPrograms, SequenceTheorems, TLAPS

-----------------------------------------------------------------------------
(***************************************************************************)
(* Division with remainder                                                 *)
(***************************************************************************)
LEMMA DivMod ==
  ASSUME NEW a \in Nat, NEW b \in Nat \ {0}
  PROVE  /\ a \div b \in Nat /\ a % b \in 0..b - 1
         /\ a = (a \div b) * b + (a % b)
<1>1. a = b * (a \div b) + (a % b)
  OBVIOUS
<1> QED BY <1>1

LEMMA DivBound ==
  ASSUME NEW a \in Nat, NEW b \in Nat \ {0}, NEW c \in Nat, a < c * b
  PROVE  a \div b < c
<1> DEFINE q == a \div b
<1>1. q \in Int /\ q * b <= a
  BY DivMod
<1>2. SUFFICES ASSUME q >= c PROVE FALSE
  BY <1>1
<1> HIDE DEF q
<1>3. q * b >= c * b
  BY <1>1, <1>2
<1> QED BY <1>1, <1>3

(* Quotient and remainder are the only numbers that fit.                   *)
LEMMA DivUnique ==
  ASSUME NEW q \in Nat, NEW b \in Nat \ {0}, NEW r \in 0..b - 1
  PROVE  (q * b + r) \div b = q
<1> DEFINE a == q * b + r
           t == a \div b
<1>1. a \in Nat
  OBVIOUS
<1>2. t \in Nat /\ a % b \in 0..b - 1 /\ t * b + (a % b) = q * b + r
  BY <1>1, DivMod
<1> HIDE DEF t
<1>3. CASE t >= q + 1
  <2>1. t * b >= (q + 1) * b
    BY <1>2, <1>3
  <2> QED BY <1>2, <2>1
<1>4. CASE t + 1 <= q
  <2>1. (t + 1) * b <= q * b
    BY <1>2, <1>4
  <2> QED BY <1>2, <2>1
<1> QED BY <1>2, <1>3, <1>4 DEF t

(* q * b for the q below a bound                                           *)
LEMMA ProductBound ==
  ASSUME NEW b \in Nat, NEW c \in Nat, NEW q \in 0..c - 1
  PROVE  /\ q * b \in Nat
         /\ q * b + b <= c * b
<1>1. (q + 1) * b <= c * b
  OBVIOUS
<1> QED BY <1>1

LEMMA WeightIs ==
  /\ MsbBase \in Nat \ {0} /\ LsbBase \in Nat \ {0} /\ XlsbBase \in Nat \ {0}
  /\ Weight \in Nat \ {0} /\ Weight = LsbBase * XlsbBase /\ XlsbBase <= Weight
  /\ MsbBase * Weight \in Nat \ {0}
<1>1. MsbBase \in Nat \ {0} /\ LsbBase \in Nat \ {0} /\ XlsbBase \in Nat \ {0}
  BY BusAssumption
<1>2. 0 * XlsbBase + XlsbBase <= LsbBase * XlsbBase
  BY <1>1, ProductBound
<1>3. Weight \in Nat \ {0} /\ XlsbBase <= Weight
  BY <1>1, <1>2 DEF Weight
<1>4. 0 * Weight + Weight <= MsbBase * Weight
  BY <1>1, <1>3, ProductBound
<1> QED BY <1>1, <1>3, <1>4 DEF Weight

(***************************************************************************)
(* A temperature and its digits                                            *)
(***************************************************************************)
Digits(m, l, x) ==
  m \in 0..MsbBase - 1 /\ l \in 0..LsbBase - 1 /\ x \in 0..XlsbBase - 1

(* Two digits make less than one step of the MSB.                          *)
LEMMA LowDigits ==
  ASSUME NEW l \in 0..LsbBase - 1, NEW x \in 0..XlsbBase - 1
  PROVE  l * XlsbBase \in Nat /\ l * XlsbBase + x \in 0..Weight - 1
<1>1. l * XlsbBase \in Nat /\ l * XlsbBase + XlsbBase <= LsbBase * XlsbBase
  BY WeightIs, ProductBound
<1> QED BY <1>1, WeightIs

LEMMA ThreeDigits ==
  ASSUME NEW m, NEW l, NEW x, Digits(m, l, x)
  PROVE  /\ m * Weight \in Nat
         /\ m * Weight + l * XlsbBase + x \in 0..MsbBase * Weight - 1
<1>1. m * Weight \in Nat /\ m * Weight + Weight <= MsbBase * Weight
  BY WeightIs, ProductBound DEF Digits
<1>2. l * XlsbBase \in Nat /\ l * XlsbBase + x \in 0..Weight - 1
  BY LowDigits DEF Digits
<1> QED BY <1>1, <1>2, WeightIs DEF Digits

LEMMA DigitsOf ==
  ASSUME NEW s \in Samples
  PROVE  /\ Digits(Msb(s), Lsb(s), Xlsb(s))
         /\ s = Msb(s) * Weight + Lsb(s) * XlsbBase + Xlsb(s)
<1> DEFINE t == s \div XlsbBase
           q == t \div LsbBase
           l == t % LsbBase
           x == s % XlsbBase
<1>1. s \in Nat /\ s < MsbBase * Weight
  BY WeightIs DEF Samples
<1>2. t \in Nat /\ x \in 0..XlsbBase - 1 /\ s = t * XlsbBase + x
  BY <1>1, WeightIs, DivMod
<1>3. q \in Nat /\ l \in 0..LsbBase - 1 /\ t = q * LsbBase + l
  BY <1>2, WeightIs, DivMod
<1> HIDE DEF t, q, l, x
<1>4. s = q * Weight + l * XlsbBase + x
  <2>1. t * XlsbBase = q * (LsbBase * XlsbBase) + l * XlsbBase
    BY <1>2, <1>3, WeightIs
  <2> QED BY <1>2, <2>1, WeightIs
<1>5. l * XlsbBase \in Nat /\ l * XlsbBase + x \in 0..Weight - 1
  BY <1>2, <1>3, LowDigits
<1>6. s = q * Weight + (l * XlsbBase + x)
  BY <1>2, <1>3, <1>4, <1>5, WeightIs
<1>7. s \div Weight = q
  BY <1>3, <1>5, <1>6, WeightIs, DivUnique
<1>8. s \div Weight < MsbBase
  BY <1>1, WeightIs, DivBound
<1>9. Msb(s) = q /\ Lsb(s) = l /\ Xlsb(s) = x
  BY <1>7 DEF Msb, Lsb, Xlsb, t, l, x
<1> QED BY <1>2, <1>3, <1>4, <1>7, <1>8, <1>9, WeightIs DEF Digits

(* What the three transfers give                                           *)
LEMMA RawOf ==
  ASSUME NEW m \in NoByte..MsbBase - 1, NEW l \in NoByte..LsbBase - 1,
         NEW x \in NoByte..XlsbBase - 1
  PROVE  /\ RawTemp(m, l, x) \in -Weight..MsbBase * Weight - 1
         /\ RawTemp(m, l, x) < 0 <=> NoByte \in {m, l, x}
         /\ NoByte \notin {m, l, x} =>
              RawTemp(m, l, x) = m * Weight + l * XlsbBase + x
<1> USE DEF NoByte
<1>1. CASE x = NoByte
  BY <1>1, WeightIs DEF RawTemp
<1>2. CASE x # NoByte /\ l = NoByte
  BY <1>2, WeightIs DEF RawTemp
<1>3. CASE x # NoByte /\ l # NoByte /\ m = NoByte
  <2>1. l * XlsbBase \in Nat /\ l * XlsbBase + x \in 0..Weight - 1
    BY <1>3, WeightIs, LowDigits
  <2>2. RawTemp(m, l, x) = l * XlsbBase + x - Weight
    BY <1>3 DEF RawTemp
  <2> QED BY <1>3, <2>1, <2>2, WeightIs
<1>4. CASE NoByte \notin {m, l, x}
  <2>1. Digits(m, l, x)
    BY <1>4, WeightIs DEF Digits
  <2>2. RawTemp(m, l, x) = m * Weight + l * XlsbBase + x
    BY <1>4 DEF RawTemp
  <2> QED BY <1>4, <2>1, <2>2, ThreeDigits, WeightIs
<1> QED BY <1>1, <1>2, <1>3, <1>4

-----------------------------------------------------------------------------
(***************************************************************************)
(* The invariant                                                           *)
(***************************************************************************)

(* Each digit is of a temperature that passed while they were read, the    *)
(* MSB of the first one.                                                   *)
Reading ==
  /\ stage \in {"lsb", "xlsb"} => sample \in passing
  /\ stage \in {"lsb", "xlsb", "print"} =>
       first \in passing /\ msb \in {Msb(first), NoByte}
  /\ stage \in {"xlsb", "print"} =>
       lsb = NoByte \/ \E s \in passing : lsb = Lsb(s)
  /\ stage = "print" =>
       /\ xlsb = NoByte \/ \E s \in passing : xlsb = Xlsb(s)
       /\ raw = RawTemp(msb, lsb, xlsb)

Verdicts == {"passed", "failed", "no transfer"}

(* The verdicts so far                                                     *)
Judged ==
  /\ task \in {"SPITest2", "SPITest", "i2ctest"}
  /\ passed \in Seq(Verdicts)
  /\ stage \in {"open", "read"} => passed = <<>>
  /\ stage = "write" => Len(passed) = 1
  /\ task = "SPITest2" => passed = <<>>
  /\ task = "SPITest" =>
       /\ stage \in {"open", "loopback", "returned"}
       /\ stage = "loopback" /\ passed # <<>> => Len(passed) = 1
  /\ task = "i2ctest" => stage \in {"open", "read", "write", "returned"}

IInv == BusTypeOK /\ Reading /\ Judged

LEMMA DigitTypes ==
  ASSUME NEW s \in Samples
  PROVE  /\ Msb(s) \in 0..MsbBase - 1
         /\ Lsb(s) \in 0..LsbBase - 1
         /\ Xlsb(s) \in 0..XlsbBase - 1
  BY DigitsOf DEF Digits

LEMMA ResetIsSample == AtReset \in Samples
<1>1. MsbBase \div 2 \in 0..MsbBase - 1
  BY WeightIs
<1>2. /\ (MsbBase \div 2) * Weight \in Nat
      /\ (MsbBase \div 2) * Weight + Weight <= MsbBase * Weight
  BY <1>1, WeightIs, ProductBound
<1> QED BY <1>2, WeightIs DEF AtReset, Samples

(* One more verdict                                                        *)
LEMMA Appended ==
  ASSUME passed \in Seq(Verdicts), NEW v \in Verdicts, passed' = Append(passed, v)
  PROVE  /\ passed' \in Seq(Verdicts) /\ passed' # <<>>
         /\ Len(passed) \in Nat /\ Len(passed') = Len(passed) + 1
         /\ passed = <<>> <=> Len(passed) = 0
  BY AppendProperties, EmptySeq

LEMMA InvInit == BusInit => IInv
<1> SUFFICES ASSUME BusInit PROVE IInv
  OBVIOUS
<1>1. BusTypeOK
  BY ResetIsSample, WeightIs DEF BusInit, BusTypeOK, NoByte
<1>2. Reading
  BY DEF BusInit, Reading
<1>3. Judged
  BY DEF BusInit, Judged
<1> QED BY <1>1, <1>2, <1>3 DEF IInv

LEMMA TypesStep ==
  ASSUME IInv, BusNext
  PROVE  BusTypeOK'
<1>1. /\ sample' \in Samples /\ first' \in Samples /\ passing' \subseteq Samples
  BY ResetIsSample
     DEF IInv, BusTypeOK, BusNext, Convert, ResetSensor, Passes, Rewire,
         OpenSensor, Calibrate, Control, ReadMsb, ReadLsb, ReadXlsb,
         PrintTemperature, OpenChannels, Loopback, I2cAccess, Returned, sensor,
         digits, since, loop, busVars
<1>2. /\ msb' \in NoByte..MsbBase - 1
      /\ lsb' \in NoByte..LsbBase - 1
      /\ xlsb' \in NoByte..XlsbBase - 1
  <2>1. /\ msb \in NoByte..MsbBase - 1 /\ lsb \in NoByte..LsbBase - 1
        /\ xlsb \in NoByte..XlsbBase - 1 /\ sample \in Samples
    BY DEF IInv, BusTypeOK
  <2>2. /\ {Msb(sample), NoByte, 0} \subseteq NoByte..MsbBase - 1
        /\ {Lsb(sample), NoByte, 0} \subseteq NoByte..LsbBase - 1
        /\ {Xlsb(sample), NoByte, 0} \subseteq NoByte..XlsbBase - 1
    BY <2>1, DigitTypes, WeightIs DEF NoByte
  <2>3. CASE ReadMsb \/ ReadLsb \/ ReadXlsb
    BY <2>1, <2>2, <2>3 DEF ReadMsb, ReadLsb, ReadXlsb
  <2>4. CASE PrintTemperature
    BY <2>2, <2>4 DEF PrintTemperature
  <2>5. CASE UNCHANGED digits
    BY <2>1, <2>5 DEF digits
  <2> QED
    BY <2>3, <2>4, <2>5
       DEF BusNext, Convert, ResetSensor, Rewire, OpenSensor, Calibrate, Control,
           OpenChannels, Loopback, I2cAccess, Returned, since, loop, busVars
<1>3. raw' \in -Weight..MsbBase * Weight - 1
  <2>1. CASE ReadXlsb
    <3>1. msb \in NoByte..MsbBase - 1 /\ lsb \in NoByte..LsbBase - 1
      BY DEF IInv, BusTypeOK
    <3> QED BY <1>2, <2>1, <3>1, RawOf DEF ReadXlsb
  <2>2. CASE PrintTemperature
    BY <2>2, WeightIs DEF PrintTemperature
  <2>3. CASE UNCHANGED raw
    BY <2>3 DEF IInv, BusTypeOK
  <2> QED
    BY <2>1, <2>2, <2>3
       DEF BusNext, Convert, ResetSensor, Rewire, OpenSensor, Calibrate, Control,
           ReadMsb, ReadLsb, OpenChannels, Loopback, I2cAccess, Returned,
           digits, busVars
<1>4. Len(passed') <= 2
  <2>1. CASE UNCHANGED passed
    BY <2>1 DEF IInv, BusTypeOK
  <2>2. CASE Loopback
    <3>1. PICK v \in Verdicts : passed' = Append(passed, v)
      BY <2>2 DEF Loopback, Verdicts
    <3>2. passed = <<>> \/ Len(passed) = 1
      BY <2>2 DEF IInv, Judged, Loopback
    <3>3. /\ Len(passed) \in Nat /\ Len(passed') = Len(passed) + 1
          /\ passed = <<>> <=> Len(passed) = 0
      BY <3>1, Appended DEF IInv, Judged
    <3> QED BY <3>2, <3>3
  <2>3. CASE I2cAccess /\ ~UNCHANGED passed
    <3>1. PICK v \in Verdicts : passed' = Append(passed, v)
      BY <2>3 DEF I2cAccess, Verdicts
    <3>2. passed = <<>> \/ Len(passed) = 1
      BY <2>3 DEF IInv, Judged, I2cAccess
    <3>3. /\ Len(passed) \in Nat /\ Len(passed') = Len(passed) + 1
          /\ passed = <<>> <=> Len(passed) = 0
      BY <3>1, Appended DEF IInv, Judged
    <3> QED BY <3>2, <3>3
  <2> QED
    BY <2>1, <2>2, <2>3
       DEF BusNext, Convert, ResetSensor, Rewire, OpenSensor, Calibrate, Control,
           ReadMsb, ReadLsb, ReadXlsb, PrintTemperature, OpenChannels, Returned,
           loop, busVars
<1> QED BY <1>1, <1>2, <1>3, <1>4 DEF BusTypeOK

LEMMA ReadingStep ==
  ASSUME IInv, BusNext
  PROVE  Reading'
<1> USE DEF IInv, Reading, digits, since
<1>1. CASE Convert \/ ResetSensor
  BY <1>1 DEF Convert, ResetSensor, Passes, digits
<1>2. CASE Rewire \/ Returned
  BY <1>2 DEF Rewire, Returned, sensor, digits, since, loop, busVars
<1>3. CASE OpenSensor \/ Calibrate \/ Control \/ OpenChannels
  BY <1>3 DEF OpenSensor, Calibrate, Control, OpenChannels
<1>4. CASE ReadMsb
  BY <1>4 DEF ReadMsb, sensor
<1>5. CASE ReadLsb
  BY <1>5 DEF ReadLsb, sensor
<1>6. CASE ReadXlsb
  BY <1>6 DEF ReadXlsb, sensor
<1>7. CASE PrintTemperature \/ Loopback \/ I2cAccess
  BY <1>7 DEF PrintTemperature, Loopback, I2cAccess, Judged
<1> QED BY <1>1, <1>2, <1>3, <1>4, <1>5, <1>6, <1>7 DEF BusNext

LEMMA JudgedStep ==
  ASSUME IInv, BusNext
  PROVE  Judged'
<1> USE DEF IInv, Judged, loop
<1>1. CASE Convert \/ ResetSensor \/ Returned
  BY <1>1 DEF Convert, ResetSensor, Returned, busVars
<1>2. CASE Rewire
  BY <1>2 DEF Rewire
<1>3. CASE OpenSensor \/ Calibrate \/ Control
  BY <1>3 DEF OpenSensor, Calibrate, Control
<1>4. CASE OpenChannels
  <2>1. passed = <<>> /\ passed' = <<>> /\ Len(passed) = 0
    BY <1>4, EmptySeq DEF OpenChannels
  <2> QED BY <1>4, <2>1 DEF OpenChannels
<1>5. CASE ReadMsb \/ ReadLsb \/ ReadXlsb \/ PrintTemperature
  BY <1>5 DEF ReadMsb, ReadLsb, ReadXlsb, PrintTemperature
<1>6. CASE Loopback
  <2>1. PICK v \in Verdicts : passed' = Append(passed, v)
    BY <1>6 DEF Loopback, Verdicts
  <2>2. /\ passed' \in Seq(Verdicts) /\ Len(passed') = Len(passed) + 1
        /\ passed = <<>> <=> Len(passed) = 0
    BY <2>1, Appended
  <2>3. CASE passed = <<>>
    <3>1. stage' = "loopback" /\ task' = "SPITest"
      BY <1>6, <2>3, Zenon DEF Loopback
    <3>2. Len(passed') = 1
      BY <2>2, <2>3
    <3> QED BY <2>2, <3>1, <3>2
  <2>4. CASE passed # <<>>
    <3>1. stage' = "returned" /\ task' = "SPITest"
      BY <1>6, <2>4 DEF Loopback
    <3> QED BY <2>2, <3>1
  <2> QED BY <2>3, <2>4
<1>7. CASE I2cAccess
  <2>1. CASE UNCHANGED passed
    BY <1>7, <2>1 DEF I2cAccess
  <2>2. CASE ~UNCHANGED passed
    <3>1. PICK v \in Verdicts : passed' = Append(passed, v)
      BY <1>7, <2>2 DEF I2cAccess, Verdicts
    <3>2. /\ passed' \in Seq(Verdicts) /\ Len(passed') = Len(passed) + 1
          /\ passed = <<>> <=> Len(passed) = 0
      BY <3>1, Appended
    <3> QED BY <1>7, <2>2, <3>2 DEF I2cAccess
  <2> QED BY <2>1, <2>2
<1> QED BY <1>1, <1>2, <1>3, <1>4, <1>5, <1>6, <1>7 DEF BusNext

LEMMA InvNext == IInv /\ [BusNext]_busVars => IInv'
<1>1. ASSUME IInv, UNCHANGED busVars PROVE IInv'
  BY <1>1
     DEF busVars, sensor, digits, since, loop, IInv, BusTypeOK, Reading, Judged
<1> QED BY <1>1, TypesStep, ReadingStep, JudgedStep DEF IInv

LEMMA Invariant == BusSpec => []IInv
  BY InvInit, InvNext, PTL DEF BusSpec

-----------------------------------------------------------------------------
(* Every variable stays in its range: what is put together of three digits, *)
(* or of what failed transfers leave, is never more than a temperature.     *)
THEOREM BusTyped == BusSpec => []BusTypeOK
  BY Invariant, PTL DEF IInv

(* A reading that a failed transfer spoilt is negative, and no other is      *)
(* (SPITest2.c:46), whatever the digits' number of values.                   *)
THEOREM FailuresShow == BusSpec => []FailureShowsInSign
<1>1. IInv => FailureShowsInSign
  BY RawOf DEF IInv, BusTypeOK, Reading, FailureShowsInSign
<1> QED BY <1>1, Invariant, PTL

(* A reading put together of the digits of up to three temperatures          *)
(* (SPITest2.c:41-43) stays within a step of the MSB of the first, and, if    *)
(* the MSB did not move, within a step of the LSB of one that passed.         *)
THEOREM TornReadingsBounded == BusSpec => []TornReading
<1>1. ASSUME IInv, stage = "print", raw >= 0
      PROVE  TornReading
  <2>1. /\ msb \in NoByte..MsbBase - 1 /\ lsb \in NoByte..LsbBase - 1
        /\ xlsb \in NoByte..XlsbBase - 1 /\ raw = RawTemp(msb, lsb, xlsb)
        /\ first \in passing /\ passing \subseteq Samples
    BY <1>1 DEF IInv, BusTypeOK, Reading
  <2>2. NoByte \notin {msb, lsb, xlsb} /\ raw = msb * Weight + lsb * XlsbBase + xlsb
    BY <1>1, <2>1, RawOf, WeightIs
  <2>3. msb = Msb(first)
    BY <1>1, <2>2 DEF IInv, Reading
  <2>4. PICK s \in passing : lsb = Lsb(s)
    BY <1>1, <2>2 DEF IInv, Reading
  <2>5. PICK t \in passing : xlsb = Xlsb(t)
    BY <1>1, <2>2 DEF IInv, Reading
  <2>6. /\ first = Msb(first) * Weight + Lsb(first) * XlsbBase + Xlsb(first)
        /\ s = Msb(s) * Weight + Lsb(s) * XlsbBase + Xlsb(s)
        /\ Msb(first) \in Nat /\ Msb(s) \in Nat
    BY <2>1, DigitsOf, WeightIs DEF Digits
  <2>7. /\ Lsb(first) * XlsbBase + Xlsb(first) \in 0..Weight - 1
        /\ Lsb(s) * XlsbBase + Xlsb(t) \in 0..Weight - 1
        /\ Lsb(first) * XlsbBase \in Nat /\ Lsb(s) * XlsbBase \in Nat
        /\ Xlsb(first) \in Nat
    BY <2>1, DigitTypes, LowDigits, WeightIs
  <2>8. Xlsb(s) \in 0..XlsbBase - 1 /\ Xlsb(t) \in 0..XlsbBase - 1
    BY <2>1, DigitTypes
  <2>9. raw = Msb(first) * Weight + Lsb(s) * XlsbBase + Xlsb(t)
    BY <2>2, <2>3, <2>4, <2>5
  <2>10. Msb(first) * Weight \in Nat /\ Msb(s) * Weight \in Nat
    BY <2>6, WeightIs
  <2>11. passing = {first} => raw = first
    BY <2>6, <2>9
  <2>12. raw \in first - Weight + 1..first + Weight - 1
    <3> HIDE DEF Weight
    <3> DEFINE a == Msb(first) * Weight
               b == Lsb(first) * XlsbBase + Xlsb(first)
               c == Lsb(s) * XlsbBase + Xlsb(t)
    <3>1. raw = a + c /\ first = a + b
      BY <2>6, <2>7, <2>8, <2>9, <2>10
    <3>2. a \in Nat /\ b \in 0..Weight - 1 /\ c \in 0..Weight - 1
      BY <2>7, <2>10
    <3> HIDE DEF a, b, c
    <3> QED BY <3>1, <3>2, WeightIs
  <2>13. Msb(s) = Msb(first) => s - XlsbBase < raw /\ raw < s + XlsbBase
    BY <2>6, <2>7, <2>8, <2>9, <2>10, WeightIs
  <2> QED BY <2>11, <2>12, <2>13 DEF TornReading
<1>2. IInv => TornReading
  BY <1>1 DEF TornReading
<1> QED BY <1>2, Invariant, PTL
==============================================================================
