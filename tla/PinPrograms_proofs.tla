--------------------------- MODULE PinPrograms_proofs ---------------------------
(***************************************************************************)
(* Theorems about the programs that share the registers of the pins, for   *)
(* any sets of programs started together, any functions found, any echo    *)
(* and loops of any length up to that of the code.                         *)
(***************************************************************************)
EXTENDS PinPrograms, SequenceTheorems, TLAPS

-----------------------------------------------------------------------------
(***************************************************************************)
(* The code of the programs                                                *)
(***************************************************************************)
Accesses ==
  [op : {"keep", "or", "set", "clr", "low"}, pin : UsedPins]
  \union [op : {"mode"}, pin : UsedPins, f : {Input, Output, 2, 4}]
  \union [op : {"range"}, r : Ranges]
  \union [op : {"duty"}, pin : {13, 18}, d : Duties]
  \union [op : {"soft"}, pin : {12, 13, 18}, m : 0..Steps]
  \union [op : {"jump"}, to : Nat]

(* A sequence that is written down by its index                            *)
LEMMA Indexed ==
  ASSUME NEW S, NEW n \in Nat, NEW f \in [1..n -> S]
  PROVE  f \in Seq(S) /\ Len(f) = n
OBVIOUS

(* u is s and then t.                                                      *)
Parts(u, s, t) ==
  /\ Len(u) = Len(s) + Len(t)
  /\ \A k \in 1..Len(s) : u[k] = s[k]
  /\ \A k \in 1..Len(t) : u[k + Len(s)] = t[k]

(* One sequence after another                                              *)
LEMMA Joined ==
  ASSUME NEW S, NEW s \in Seq(S), NEW t \in Seq(S)
  PROVE  s \o t \in Seq(S) /\ Parts(s \o t, s, t)
<1> DEFINE a == Len(s)
           b == Len(t)
           u == s \o t
<1>1. /\ u \in Seq(S) /\ Len(u) = a + b
      /\ \A k \in 1..a + b : u[k] = IF k <= a THEN s[k] ELSE t[k - a]
  BY ConcatProperties
<1>2. a \in Nat /\ b \in Nat
  OBVIOUS
<1> HIDE DEF a, b, u
<1>3. ASSUME NEW k \in 1..b PROVE u[k + a] = t[k]
  <2>1. k + a \in 1..a + b /\ ~(k + a <= a) /\ (k + a) - a = k
    BY <1>2
  <2> QED BY <1>1, <2>1
<1>4. ASSUME NEW k \in 1..a PROVE u[k] = s[k]
  <2>1. k \in 1..a + b /\ k <= a
    BY <1>2
  <2> QED BY <1>1, <2>1
<1>5. Len(u) = Len(s) + Len(t)
  BY <1>1 DEF a, b
<1>6. \A k \in 1..Len(s) : u[k] = s[k]
  BY <1>4 DEF a
<1>7. \A k \in 1..Len(t) : u[k + Len(s)] = t[k]
  BY <1>3 DEF a, b
<1>8. u \in Seq(S) /\ Parts(u, s, t)
  BY <1>1, <1>5, <1>6, <1>7 DEF Parts
<1> QED BY <1>8 DEF u

(* A body three times over                                                 *)
LEMMA ThriceIs ==
  ASSUME NEW S, NEW n \in Nat \ {0}, NEW body \in Seq(S), Len(body) = n
  PROVE  /\ Thrice(body) \in Seq(S) /\ Len(Thrice(body)) = 3 * n
         /\ \A k \in 1..3 * n : Thrice(body)[k] = body[((k - 1) % n) + 1]
<1>1. ASSUME NEW k \in 1..3 * n PROVE ((k - 1) % n) + 1 \in 1..n
  OBVIOUS
<1>2. Thrice(body) \in [1..3 * n -> S]
  BY <1>1 DEF Thrice
<1>3. 3 * n \in Nat
  OBVIOUS
<1>4. Thrice(body) \in Seq(S) /\ Len(Thrice(body)) = 3 * n
  BY <1>2, <1>3, Indexed
<1> QED BY <1>4 DEF Thrice

LEMMA LEDIs ==
  /\ LED \in Seq(Accesses) /\ Len(LED) = 18
  /\ \A k \in 1..6 : LED[k] \in {Keep(4), OrOne(4), Keep(17), OrOne(17)}
  /\ \A k \in 7..18 :
       LED[k] = <<Set(4), Clr(4), Set(17), Clr(17)>>[((k - 7) % 4) + 1]
<1> DEFINE head == <<Keep(4), Keep(4), OrOne(4), Keep(17), Keep(17), OrOne(17)>>
           body == <<Set(4), Clr(4), Set(17), Clr(17)>>
<1>1. head \in Seq(Accesses) /\ Len(head) = 6
  BY DEF Accesses, Keep, OrOne, UsedPins
<1>2. body \in Seq(Accesses) /\ Len(body) = 4
  BY DEF Accesses, Set, Clr, UsedPins
<1>3. \A k \in 1..6 : head[k] \in {Keep(4), OrOne(4), Keep(17), OrOne(17)}
  OBVIOUS
<1> DEFINE tail == Thrice(body)
<1>4. LED = head \o tail
  BY DEF LED
<1> HIDE DEF head, body
<1>5. /\ tail \in Seq(Accesses) /\ Len(tail) = 12
      /\ \A k \in 1..12 : tail[k] = body[((k - 1) % 4) + 1]
  <2>1. /\ Thrice(body) \in Seq(Accesses) /\ Len(Thrice(body)) = 3 * 4
        /\ \A k \in 1..3 * 4 : Thrice(body)[k] = body[((k - 1) % 4) + 1]
    BY <1>2, 4 \in Nat \ {0}, ThriceIs
  <2> QED BY <2>1
<1> HIDE DEF tail
<1>6. /\ LED \in Seq(Accesses) /\ Len(LED) = 6 + 12
      /\ \A k \in 1..6 : LED[k] = head[k]
      /\ \A k \in 1..12 : LED[k + 6] = tail[k]
  <2>1. head \in Seq(Accesses) /\ tail \in Seq(Accesses)
    BY <1>1, <1>5
  <2>2. LED \in Seq(Accesses) /\ Parts(LED, head, tail)
    BY <1>4, <2>1, Joined, Zenon
  <2> QED BY <1>1, <1>5, <2>2 DEF Parts
<1>7. Len(LED) = 18 /\ \A k \in 1..6 : LED[k] = head[k]
  BY <1>6
<1>8. ASSUME NEW k \in 7..18 PROVE LED[k] = tail[k - 6]
  <2>1. k - 6 \in 1..12 /\ (k - 6) + 6 = k
    OBVIOUS
  <2> QED BY <1>6, <2>1
<1>9. \A k \in 7..18 : LED[k] = body[((k - 7) % 4) + 1]
  <2> SUFFICES ASSUME NEW k \in 7..18
               PROVE  LED[k] = body[((k - 7) % 4) + 1]
    OBVIOUS
  <2>1. k - 6 \in 1..12 /\ (k - 6) - 1 = k - 7
    OBVIOUS
  <2> QED BY <1>5, <1>8, <2>1
<1> QED BY <1>3, <1>6, <1>7, <1>9 DEF body

LEMMA LCDIs ==
  /\ LCD \in Seq(Accesses) /\ Len(LCD) = 9
  /\ \A k \in 1..3 : LCD[k] \in {Keep(4), OrOne(4)}
  /\ \A k \in 4..9 : LCD[k] = <<Set(4), Clr(4)>>[((k - 4) % 2) + 1]
<1> DEFINE head == <<Keep(4), Keep(4), OrOne(4)>>
           body == <<Set(4), Clr(4)>>
           tail == Thrice(body)
<1>1. head \in Seq(Accesses) /\ Len(head) = 3
  BY DEF Accesses, Keep, OrOne, UsedPins
<1>2. body \in Seq(Accesses) /\ Len(body) = 2
  BY DEF Accesses, Set, Clr, UsedPins
<1>3. \A k \in 1..3 : head[k] \in {Keep(4), OrOne(4)}
  OBVIOUS
<1>4. LCD = head \o tail
  BY DEF LCD
<1> HIDE DEF head, body
<1>5. /\ tail \in Seq(Accesses) /\ Len(tail) = 6
      /\ \A k \in 1..6 : tail[k] = body[((k - 1) % 2) + 1]
  <2>1. /\ Thrice(body) \in Seq(Accesses) /\ Len(Thrice(body)) = 3 * 2
        /\ \A k \in 1..3 * 2 : Thrice(body)[k] = body[((k - 1) % 2) + 1]
    BY <1>2, 2 \in Nat \ {0}, ThriceIs
  <2> QED BY <2>1
<1> HIDE DEF tail
<1>6. /\ LCD \in Seq(Accesses) /\ Len(LCD) = 3 + 6
      /\ \A k \in 1..3 : LCD[k] = head[k]
      /\ \A k \in 1..6 : LCD[k + 3] = tail[k]
  <2>1. head \in Seq(Accesses) /\ tail \in Seq(Accesses)
    BY <1>1, <1>5
  <2>2. LCD \in Seq(Accesses) /\ Parts(LCD, head, tail)
    BY <1>4, <2>1, Joined, Zenon
  <2> QED BY <1>1, <1>5, <2>2 DEF Parts
<1>7. Len(LCD) = 9 /\ \A k \in 1..3 : LCD[k] = head[k]
  BY <1>6
<1>8. ASSUME NEW k \in 4..9 PROVE LCD[k] = tail[k - 3]
  <2>1. k - 3 \in 1..6 /\ (k - 3) + 3 = k
    OBVIOUS
  <2> QED BY <1>6, <2>1
<1>9. \A k \in 4..9 : LCD[k] = body[((k - 4) % 2) + 1]
  <2> SUFFICES ASSUME NEW k \in 4..9
               PROVE  LCD[k] = body[((k - 4) % 2) + 1]
    OBVIOUS
  <2>1. k - 3 \in 1..6 /\ (k - 3) - 1 = k - 4
    OBVIOUS
  <2> QED BY <1>5, <1>8, <2>1
<1> QED BY <1>3, <1>6, <1>7, <1>9 DEF body

(* The 16th entry of the pin table is pin 15.                              *)
LEMMA setupIs ==
  /\ setup \in Seq(Accesses) /\ Len(setup) = 2
  /\ setup[1] = Mode(15, Output) /\ setup[2] = Low(16)
<1>1. PinToGpio[16] = 15
  BY DEF PinToGpio
<1>2. setup = <<Mode(15, Output), Low(16)>>
  BY <1>1 DEF setup
<1>3. Mode(15, Output) \in Accesses /\ Low(16) \in Accesses
  BY DEF Accesses, Mode, Low, UsedPins
<1> QED BY <1>2, <1>3

(* How far the counter of the loops is up in a pass                        *)
Up(n) == IF n < Steps THEN n ELSE 2 * Steps - n

LEMMA PassIs ==
  ASSUME NEW n \in 0..2 * Steps
  PROVE  /\ Pass(n) \in Seq(Accesses) /\ Len(Pass(n)) = 3
         /\ \E half \in 0..Steps : Pass(n)[1] = Soft(12, half)
         /\ Pass(n)[2] = Soft(13, Steps - Up(n))
         /\ Pass(n)[3] = Soft(18, Up(n))
         /\ Up(n) \in 0..Steps
<1>1. Steps \in 1..128
  BY PinAssumption
<1>2. \E half \in 0..Steps : Pass(n) = Marks(Up(n), half)
  <2>1. CASE n < Steps
    <3>1. n \div 2 \in 0..Steps
      BY <1>1, <2>1
    <3>2. Pass(n) = Marks(Up(n), n \div 2)
      BY <2>1 DEF Pass, Up
    <3> QED BY <3>1, <3>2
  <2>2. CASE ~(n < Steps)
    <3>1. Steps \div 2 \in 0..Steps
      BY <1>1
    <3>2. Pass(n) = Marks(Up(n), Steps \div 2)
      BY <2>2 DEF Pass, Up
    <3> QED BY <3>1, <3>2
  <2> QED BY <2>1, <2>2
<1>3. PICK half \in 0..Steps : Pass(n) = Marks(Up(n), half)
  BY <1>2
<1>4. Up(n) \in 0..Steps
  BY <1>1 DEF Up
<1>5. Pass(n) = <<Soft(12, half), Soft(13, Steps - Up(n)), Soft(18, Up(n))>>
  BY <1>3 DEF Marks
<1>6. Steps - Up(n) \in 0..Steps
  BY <1>1, <1>4
<1>7. \A pin \in {12, 13, 18}, m \in 0..Steps : Soft(pin, m) \in Accesses
  BY DEF Accesses, Soft
<1>8. /\ Soft(12, half) \in Accesses /\ Soft(13, Steps - Up(n)) \in Accesses
      /\ Soft(18, Up(n)) \in Accesses
  BY <1>4, <1>6, <1>7
<1> QED BY <1>4, <1>5, <1>8

LEMMA PWMtestIs ==
  /\ PWMtest \in Seq(Accesses) /\ Len(PWMtest) = 6 * Steps + 16
  /\ \A k \in 1..12 : \E pin \in {12, 13, 18} :
       PWMtest[k] \in {Mode(pin, Output), Low(pin), Soft(pin, 1)}
  /\ \A k \in 13..6 * Steps + 15 :
       /\ (k - 13) \div 3 \in 0..2 * Steps /\ (k - 13) % 3 \in 0..2
       /\ PWMtest[k] = Pass((k - 13) \div 3)[((k - 13) % 3) + 1]
  /\ PWMtest[6 * Steps + 16] = Jump(13)
<1> DEFINE head == <<Mode(12, Output), Mode(13, Output), Mode(18, Output),
                     Low(12), Mode(12, Output), Soft(12, 1),
                     Low(13), Mode(13, Output), Soft(13, 1),
                     Low(18), Mode(18, Output), Soft(18, 1)>>
           turn == [k \in 1..3 * PassCount |-> Pass((k - 1) \div 3)[((k - 1) % 3) + 1]]
           last == <<Jump(13)>>
           most == head \o turn
<1>1. Steps \in 1..128 /\ 3 * PassCount = 6 * Steps + 3
  BY PinAssumption DEF PassCount
<1>2. head \in Seq(Accesses) /\ Len(head) = 12
  <2>1. \A pin \in {12, 13, 18} :
          {Mode(pin, Output), Low(pin), Soft(pin, 1)} \subseteq Accesses
    BY <1>1 DEF Accesses, Mode, Low, Soft, UsedPins
  <2> QED BY <2>1
<1>3. \A k \in 1..12 : \E pin \in {12, 13, 18} :
        head[k] \in {Mode(pin, Output), Low(pin), Soft(pin, 1)}
  OBVIOUS
<1>4. ASSUME NEW k \in 1..3 * PassCount
      PROVE  /\ (k - 1) \div 3 \in 0..2 * Steps /\ (k - 1) % 3 \in 0..2
             /\ Pass((k - 1) \div 3)[((k - 1) % 3) + 1] \in Accesses
  <2>1. (k - 1) \div 3 \in 0..2 * Steps /\ (k - 1) % 3 \in 0..2
    BY <1>1
  <2>2. /\ Pass((k - 1) \div 3) \in Seq(Accesses)
        /\ Len(Pass((k - 1) \div 3)) = 3
    BY <2>1, PassIs
  <2> QED BY <2>1, <2>2
<1>5. turn \in Seq(Accesses) /\ Len(turn) = 6 * Steps + 3
  <2>1. turn \in [1..3 * PassCount -> Accesses]
    BY <1>4
  <2>2. 3 * PassCount \in Nat
    BY <1>1
  <2> HIDE DEF turn
  <2>3. turn \in Seq(Accesses) /\ Len(turn) = 3 * PassCount
    BY <2>1, <2>2, Indexed
  <2> QED BY <1>1, <2>3
<1>6. last \in Seq(Accesses) /\ Len(last) = 1 /\ last[1] = Jump(13)
  BY DEF Accesses, Jump
<1>7. PWMtest = most \o last
  BY DEF PWMtest
<1>8. \A k \in 1..6 * Steps + 3 :
        turn[k] = Pass((k - 1) \div 3)[((k - 1) % 3) + 1]
  BY <1>1
<1> HIDE DEF head, turn, last
<1>9. /\ most \in Seq(Accesses) /\ Len(most) = 6 * Steps + 15
      /\ \A k \in 1..12 : most[k] = head[k]
      /\ \A k \in 13..6 * Steps + 15 : most[k] = turn[k - 12]
  <2>1. 6 * Steps + 3 \in Nat /\ 12 + (6 * Steps + 3) = 6 * Steps + 15
    BY <1>1
  <2>2. /\ most \in Seq(Accesses) /\ Len(most) = 12 + (6 * Steps + 3)
        /\ \A k \in 1..12 : most[k] = head[k]
        /\ \A k \in 1..6 * Steps + 3 : most[k + 12] = turn[k]
    <3>1. head \in Seq(Accesses) /\ turn \in Seq(Accesses)
      BY <1>2, <1>5
    <3>2. most \in Seq(Accesses) /\ Parts(most, head, turn)
      BY <3>1, Joined, Zenon DEF most
    <3> QED BY <1>2, <1>5, <3>2 DEF Parts
  <2>3. ASSUME NEW k \in 13..6 * Steps + 15 PROVE most[k] = turn[k - 12]
    <3>1. k - 12 \in 1..6 * Steps + 3 /\ (k - 12) + 12 = k
      BY <1>1
    <3> QED BY <2>2, <3>1
  <2> QED BY <2>1, <2>2, <2>3
<1> HIDE DEF most
<1>10. /\ PWMtest \in Seq(Accesses) /\ Len(PWMtest) = 6 * Steps + 16
       /\ \A k \in 1..6 * Steps + 15 : PWMtest[k] = most[k]
       /\ PWMtest[6 * Steps + 16] = Jump(13)
  <2>1. 6 * Steps + 15 \in Nat /\ 1 + (6 * Steps + 15) = 6 * Steps + 16
    BY <1>1
  <2>2. /\ PWMtest \in Seq(Accesses) /\ Len(PWMtest) = (6 * Steps + 15) + 1
        /\ \A k \in 1..6 * Steps + 15 : PWMtest[k] = most[k]
        /\ \A k \in 1..1 : PWMtest[k + (6 * Steps + 15)] = last[k]
    <3>1. most \in Seq(Accesses) /\ last \in Seq(Accesses)
      BY <1>6, <1>9
    <3>2. PWMtest \in Seq(Accesses) /\ Parts(PWMtest, most, last)
      BY <1>7, <3>1, Joined, Zenon
    <3> QED BY <1>6, <1>9, <3>2 DEF Parts
  <2>3. 1 \in 1..1 /\ (6 * Steps + 15) + 1 = 6 * Steps + 16
    BY <1>1
  <2> QED BY <1>6, <2>1, <2>2, <2>3
<1>11. ASSUME NEW k \in 13..6 * Steps + 15
       PROVE  /\ (k - 13) \div 3 \in 0..2 * Steps /\ (k - 13) % 3 \in 0..2
              /\ PWMtest[k] = Pass((k - 13) \div 3)[((k - 13) % 3) + 1]
  <2>1. k - 12 \in 1..6 * Steps + 3 /\ (k - 12) - 1 = k - 13 /\ k \in 1..6 * Steps + 15
    BY <1>1
  <2>2. PWMtest[k] = turn[k - 12]
    BY <1>9, <1>10, <2>1
  <2>3. (k - 13) \div 3 \in 0..2 * Steps /\ (k - 13) % 3 \in 0..2
    BY <1>1
  <2>4. turn[k - 12] = Pass(((k - 12) - 1) \div 3)[(((k - 12) - 1) % 3) + 1]
    BY <1>8, <2>1
  <2> QED BY <2>1, <2>2, <2>3, <2>4
<1>12. ASSUME NEW k \in 1..12 PROVE PWMtest[k] = head[k]
  <2>1. k \in 1..6 * Steps + 15
    BY <1>1
  <2> QED BY <1>9, <1>10, <2>1
<1> QED BY <1>3, <1>10, <1>11, <1>12

LEMMA PWMTest2Is ==
  /\ PWMTest2 \in Seq(Accesses) /\ Len(PWMTest2) = 5
  /\ PWMTest2[1] = Mode(18, 2) /\ PWMTest2[2] = Mode(4, Input)
  /\ PWMTest2[3] = SetRange(1024) /\ PWMTest2[4] = Duty(18, 512)
  /\ PWMTest2[5] = Jump(5)
<1>1. PWMTest2 = <<Mode(18, 2), Mode(4, Input), SetRange(1024), Duty(18, 512), Jump(5)>>
  BY DEF PWMTest2, Pwm
<1>2. /\ Mode(18, 2) \in Accesses /\ Mode(4, Input) \in Accesses
      /\ SetRange(1024) \in Accesses /\ Duty(18, 512) \in Accesses
      /\ Jump(5) \in Accesses
  BY DEF Accesses, Mode, SetRange, Duty, Jump, UsedPins, Ranges, Duties
<1> QED BY <1>1, <1>2

LEMMA PWMTest3Is ==
  /\ PWMTest3 \in Seq(Accesses) /\ Len(PWMTest3) = Steps + 6
  /\ \A k \in 1..5 : PWMTest3[k] \in {Mode(18, 2), Mode(12, 4), Mode(13, 4), Mode(19, 2), Mode(4, Input)}
  /\ PWMTest3[6] = SetRange(128)
  /\ \A k \in 7..Steps + 6 : PWMTest3[k] = Duty(13, k - 7)
<1> DEFINE head == <<Mode(18, 2), Mode(12, 4), Mode(13, 4), Mode(19, 2), Mode(4, Input),
                     SetRange(128)>>
           tail == [i \in 1..Steps |-> Duty(13, i - 1)]
<1>1. Steps \in 1..128
  BY PinAssumption
<1>2. PWMTest3 = head \o tail
  <2>1. Pwm(18) = 2 /\ Pwm(12) = 4 /\ Pwm(13) = 4 /\ Pwm(19) = 2
    BY DEF Pwm
  <2> QED BY <2>1, Zenon DEF PWMTest3
<1>3. head \in Seq(Accesses) /\ Len(head) = 6
  <2>1. /\ Mode(18, 2) \in Accesses /\ Mode(12, 4) \in Accesses /\ Mode(13, 4) \in Accesses
        /\ Mode(19, 2) \in Accesses /\ Mode(4, Input) \in Accesses /\ SetRange(128) \in Accesses
    BY DEF Accesses, Mode, SetRange, UsedPins, Ranges
  <2> QED BY <2>1
<1>4. tail \in Seq(Accesses) /\ Len(tail) = Steps
  <2>1. \A i \in 1..Steps : Duty(13, i - 1) \in Accesses
    BY <1>1 DEF Accesses, Duty, Duties
  <2>2. tail \in [1..Steps -> Accesses] /\ Steps \in Nat
    BY <1>1, <2>1
  <2> QED BY <2>2, Indexed
<1>5. /\ \A k \in 1..5 : head[k] \in {Mode(18, 2), Mode(12, 4), Mode(13, 4), Mode(19, 2), Mode(4, Input)}
      /\ head[6] = SetRange(128)
      /\ \A k \in 1..Steps : tail[k] = Duty(13, k - 1)
  OBVIOUS
<1> HIDE DEF head, tail
<1>6. /\ PWMTest3 \in Seq(Accesses) /\ Len(PWMTest3) = 6 + Steps
      /\ \A k \in 1..6 : PWMTest3[k] = head[k]
      /\ \A k \in 1..Steps : PWMTest3[k + 6] = tail[k]
  <2>1. head \in Seq(Accesses) /\ tail \in Seq(Accesses)
    BY <1>3, <1>4
  <2>2. PWMTest3 \in Seq(Accesses) /\ Parts(PWMTest3, head, tail)
    BY <1>2, <2>1, Joined, Zenon
  <2> QED BY <1>3, <1>4, <2>2 DEF Parts
<1>7. Len(PWMTest3) = Steps + 6 /\ \A k \in 1..6 : PWMTest3[k] = head[k]
  BY <1>1, <1>6
<1>8. ASSUME NEW k \in 7..Steps + 6 PROVE PWMTest3[k] = Duty(13, k - 7)
  <2>1. k - 6 \in 1..Steps /\ (k - 6) - 1 = k - 7 /\ (k - 6) + 6 = k
    BY <1>1
  <2>2. PWMTest3[k] = tail[k - 6]
    BY <1>6, <2>1
  <2> QED BY <1>5, <2>1, <2>2
<1>9. PWMTest3[6] = SetRange(128)
  BY <1>5, <1>7
<1>10. \A k \in 1..5 : PWMTest3[k] = head[k]
  BY <1>7
<1> QED BY <1>5, <1>6, <1>7, <1>8, <1>9, <1>10

LEMMA CodeIs ==
  /\ Programs = {"LED", "LCD", "setup", "custom", "PWMtest", "PWMTest2", "PWMTest3"}
  /\ Code["LED"] = LED /\ Code["LCD"] = LCD /\ Code["setup"] = setup
  /\ Code["custom"] = <<>> /\ Code["PWMtest"] = PWMtest
  /\ Code["PWMTest2"] = PWMTest2 /\ Code["PWMTest3"] = PWMTest3
  /\ \A p \in Programs :
       /\ Code[p] \in Seq(Accesses) /\ Len(Code[p]) \in Nat
       /\ \A k \in 1..Len(Code[p]) : Code[p][k] \in Accesses
<1>1. Programs = {"LED", "LCD", "setup", "custom", "PWMtest", "PWMTest2", "PWMTest3"}
  BY DEF Programs, Code
<1>2. /\ Code["LED"] = LED /\ Code["LCD"] = LCD /\ Code["setup"] = setup
      /\ Code["custom"] = <<>> /\ Code["PWMtest"] = PWMtest
      /\ Code["PWMTest2"] = PWMTest2 /\ Code["PWMTest3"] = PWMTest3
  BY DEF Code, custom
<1>3. <<>> \in Seq(Accesses)
  OBVIOUS
<1>4. ASSUME NEW p \in Programs PROVE Code[p] \in Seq(Accesses)
  <2>1. /\ LED \in Seq(Accesses) /\ LCD \in Seq(Accesses) /\ setup \in Seq(Accesses)
        /\ PWMtest \in Seq(Accesses) /\ PWMTest2 \in Seq(Accesses) /\ PWMTest3 \in Seq(Accesses)
    BY LEDIs, LCDIs, setupIs, PWMtestIs, PWMTest2Is, PWMTest3Is
  <2> QED BY <1>1, <1>2, <1>3, <2>1, Zenon
<1>5. ASSUME NEW s \in Seq(Accesses)
      PROVE  Len(s) \in Nat /\ \A k \in 1..Len(s) : s[k] \in Accesses
  OBVIOUS
<1> QED BY <1>1, <1>2, <1>4, <1>5

LEMMA LightOps ==
  /\ \A k \in 1..18 : LED[k].op \in {"keep", "or", "set", "clr"}
  /\ \A k \in 1..18 : LED[k].op = "set" => k + 1 \in 1..18 /\ LED[k + 1] = Clr(LED[k].pin)
  /\ \A k \in 1..9 : LCD[k].op \in {"keep", "or", "set", "clr"}
  /\ \A k \in 1..9 : LCD[k].op = "set" => k + 1 \in 1..9 /\ LCD[k + 1] = Clr(LCD[k].pin)
<1>1. ASSUME NEW k \in 1..6 PROVE LED[k].op \in {"keep", "or"}
  BY LEDIs DEF Keep, OrOne
<1>2. ASSUME NEW k \in 1..3 PROVE LCD[k].op \in {"keep", "or"}
  BY LCDIs DEF Keep, OrOne
<1>3. ASSUME NEW k \in 7..18
      PROVE  /\ LED[k].op \in {"set", "clr"}
             /\ LED[k].op = "set" => k + 1 \in 7..18 /\ LED[k + 1] = Clr(LED[k].pin)
  <2>1. CASE (k - 7) % 4 = 0
    <3>1. LED[k] = Set(4)
      BY <2>1, LEDIs
    <3>2. k + 1 \in 7..18 /\ ((k + 1) - 7) % 4 = 1
      BY <2>1
    <3>3. LED[k + 1] = Clr(4)
      BY <3>2, LEDIs
    <3> QED BY <3>1, <3>2, <3>3 DEF Set, Clr
  <2>2. CASE (k - 7) % 4 = 1
    <3>1. LED[k] = Clr(4)
      BY <2>2, LEDIs
    <3> QED BY <3>1 DEF Clr
  <2>3. CASE (k - 7) % 4 = 2
    <3>1. LED[k] = Set(17)
      <4>1. ((k - 7) % 4) + 1 = 3
        BY <2>3
      <4> QED BY <4>1, LEDIs
    <3>2. k + 1 \in 7..18 /\ ((k + 1) - 7) % 4 = 3
      BY <2>3
    <3>3. LED[k + 1] = Clr(17)
      BY <3>2, LEDIs
    <3> QED BY <3>1, <3>2, <3>3 DEF Set, Clr
  <2>4. CASE (k - 7) % 4 = 3
    <3>1. LED[k] = Clr(17)
      BY <2>4, LEDIs
    <3> QED BY <3>1 DEF Clr
  <2>5. (k - 7) % 4 \in 0..3
    OBVIOUS
  <2> QED BY <2>1, <2>2, <2>3, <2>4, <2>5
<1>4. ASSUME NEW k \in 4..9
      PROVE  /\ LCD[k].op \in {"set", "clr"}
             /\ LCD[k].op = "set" => k + 1 \in 4..9 /\ LCD[k + 1] = Clr(LCD[k].pin)
  <2>1. CASE (k - 4) % 2 = 0
    <3>1. LCD[k] = Set(4)
      BY <2>1, LCDIs
    <3>2. k + 1 \in 4..9 /\ ((k + 1) - 4) % 2 = 1
      BY <2>1
    <3>3. LCD[k + 1] = Clr(4)
      BY <3>2, LCDIs
    <3> QED BY <3>1, <3>2, <3>3 DEF Set, Clr
  <2>2. CASE (k - 4) % 2 = 1
    <3>1. LCD[k] = Clr(4)
      BY <2>2, LCDIs
    <3> QED BY <3>1 DEF Clr
  <2>3. (k - 4) % 2 \in 0..1
    OBVIOUS
  <2> QED BY <2>1, <2>2, <2>3
<1> QED BY <1>1, <1>2, <1>3, <1>4

(* What PWMtest does before its loops                                      *)
SetUp(i) == i.op \in {"low", "soft"} \/ (i.op = "mode" /\ i.f = Output)

LEMMA OtherOps ==
  /\ \A k \in 1..2 : \/ setup[k].op = "low"
                     \/ setup[k].op = "mode" /\ setup[k].f = Output
  /\ \A k \in 1..6 * Steps + 16 :
       \/ k \in 1..12 /\ SetUp(PWMtest[k])
       \/ k \in 13..6 * Steps + 15 /\ PWMtest[k].op = "soft"
       \/ k = 6 * Steps + 16 /\ PWMtest[k] = Jump(13)
  /\ \A k \in 1..5 : PWMTest3[k].op = "mode"
<1>1. Steps \in 1..128
  BY PinAssumption
<1>2. ASSUME NEW k \in 13..6 * Steps + 15 PROVE PWMtest[k].op = "soft"
  <2> DEFINE n == (k - 13) \div 3
             j == (k - 13) % 3
  <2>1. n \in 0..2 * Steps /\ j \in 0..2 /\ PWMtest[k] = Pass(n)[j + 1]
    BY PWMtestIs
  <2> HIDE DEF n, j
  <2>2. j + 1 \in {1, 2, 3}
    BY <2>1
  <2>3. Pass(n)[1].op = "soft" /\ Pass(n)[2].op = "soft" /\ Pass(n)[3].op = "soft"
    <3>1. PICK half : Pass(n)[1] = Soft(12, half)
      BY <2>1, PassIs
    <3>2. Pass(n)[2] = Soft(13, Steps - Up(n)) /\ Pass(n)[3] = Soft(18, Up(n))
      BY <2>1, PassIs
    <3> QED BY <3>1, <3>2 DEF Soft
  <2> QED BY <2>1, <2>2, <2>3
<1>3. ASSUME NEW k \in 1..12 PROVE SetUp(PWMtest[k])
  <2>1. PICK pin \in {12, 13, 18} :
          PWMtest[k] \in {Mode(pin, Output), Low(pin), Soft(pin, 1)}
    BY PWMtestIs
  <2> QED BY <2>1 DEF SetUp, Mode, Low, Soft
<1>5. \A k \in 1..5 : PWMTest3[k].op = "mode"
  BY PWMTest3Is DEF Mode
<1>6. ASSUME NEW k \in 1..2
      PROVE  setup[k].op = "low" \/ (setup[k].op = "mode" /\ setup[k].f = Output)
  <2>1. setup[1].op = "mode" /\ setup[1].f = Output /\ setup[2].op = "low"
    BY setupIs DEF Mode, Low
  <2>2. k = 1 \/ k = 2
    OBVIOUS
  <2> QED BY <2>1, <2>2, Zenon
<1>7. PWMtest[6 * Steps + 16] = Jump(13)
  BY PWMtestIs
<1>8. ASSUME NEW k \in 1..6 * Steps + 16
      PROVE  \/ k \in 1..12 /\ SetUp(PWMtest[k])
             \/ k \in 13..6 * Steps + 15 /\ PWMtest[k].op = "soft"
             \/ k = 6 * Steps + 16 /\ PWMtest[k] = Jump(13)
  <2>1. CASE k \in 1..12
    BY <1>3, <2>1
  <2>3. CASE k \in 13..6 * Steps + 15
    BY <1>2, <2>3
  <2>4. CASE k = 6 * Steps + 16
    BY <1>7, <2>4
  <2>5. k \in 1..12 \/ k \in 13..6 * Steps + 15 \/ k = 6 * Steps + 16
    BY <1>1
  <2> QED BY <2>1, <2>3, <2>4, <2>5
<1>9. \A k \in 1..2 : \/ setup[k].op = "low"
                      \/ setup[k].op = "mode" /\ setup[k].f = Output
  BY <1>6
<1>10. \A k \in 1..6 * Steps + 16 :
         \/ k \in 1..12 /\ SetUp(PWMtest[k])
         \/ k \in 13..6 * Steps + 15 /\ PWMtest[k].op = "soft"
         \/ k = 6 * Steps + 16 /\ PWMtest[k] = Jump(13)
  BY <1>8
<1> QED BY <1>5, <1>9, <1>10

(* A light that is switched on is switched off next.                       *)
LEMMA OffNext ==
  ASSUME NEW p \in Programs, NEW k \in 1..Len(Code[p]), Code[p][k].op = "set"
  PROVE  k + 1 \in 1..Len(Code[p]) /\ Code[p][k + 1] = Clr(Code[p][k].pin)
<1>1. CASE p = "LED"
  BY <1>1, CodeIs, LEDIs, LightOps
<1>2. CASE p = "LCD"
  BY <1>2, CodeIs, LCDIs, LightOps
<1>3. CASE p = "setup"
  BY <1>3, CodeIs, setupIs, OtherOps
<1>4. CASE p = "custom"
  BY <1>4, CodeIs
<1>5. CASE p = "PWMtest"
  <2>1. Code[p] = PWMtest /\ k \in 1..6 * Steps + 16
    BY <1>5, CodeIs, PWMtestIs
  <2>2. PWMtest[k].op \in {"mode", "low", "soft", "jump"}
    BY <2>1, OtherOps DEF Jump, SetUp
  <2> QED BY <2>1, <2>2
<1>6. CASE p = "PWMTest2"
  <2>1. k \in {1, 2, 3, 4, 5}
    BY <1>6, CodeIs, PWMTest2Is
  <2> QED BY <1>6, <2>1, CodeIs, PWMTest2Is DEF Mode, SetRange, Duty, Jump
<1>7. CASE p = "PWMTest3"
  <2>1. k \in 1..5 \/ k = 6 \/ k \in 7..Steps + 6
    BY <1>7, CodeIs, PWMTest3Is, PinAssumption
  <2>2. Code[p] = PWMTest3
    BY <1>7, CodeIs
  <2>3. PWMTest3[k].op \in {"mode", "range", "duty"}
    <3>1. CASE k \in 1..5
      BY <3>1, OtherOps
    <3>2. CASE k = 6
      BY <3>2, PWMTest3Is DEF SetRange
    <3>3. CASE k \in 7..Steps + 6
      <4>1. PWMTest3[k] = Duty(13, k - 7)
        BY <3>3, PWMTest3Is
      <4> QED BY <4>1 DEF Duty
    <3> QED BY <2>1, <3>1, <3>2, <3>3
  <2> QED BY <2>2, <2>3
<1> QED BY <1>1, <1>2, <1>3, <1>4, <1>5, <1>6, <1>7, CodeIs

LEMMA OpOf ==
  /\ \A to \in Nat : Jump(to).op = "jump" /\ Jump(to).to = to
  /\ \A r \in Nat : SetRange(r).op = "range" /\ SetRange(r).r = r
  /\ \A pin, d : Duty(pin, d).op = "duty" /\ Duty(pin, d).pin = pin /\ Duty(pin, d).d = d
BY DEF Jump, SetRange, Duty

(* What a program has at each place                                       *)
LEMMA PlaceIs ==
  ASSUME NEW p \in Programs, NEW k \in 1..Len(Code[p])
  PROVE  LET i == Code[p][k]
         IN  \/ i.op \in {"keep", "or", "set", "clr"} /\ p \in {"LED", "LCD"}
             \/ i.op = "low" /\ p = "setup"
             \/ i.op = "low" /\ p = "PWMtest" /\ k \in 1..12
             \/ i.op = "mode" /\ p = "setup" /\ i.f = Output
             \/ i.op = "mode" /\ p = "PWMtest" /\ k \in 1..12 /\ i.f = Output
             \/ i.op = "mode" /\ p = "PWMTest2" /\ k \in {1, 2} /\ (k = 1 \/ i.f = Input)
             \/ i.op = "mode" /\ p = "PWMTest3" /\ k \in 1..5
             \/ i.op = "soft" /\ p = "PWMtest" /\ k \in 1..6 * Steps + 15
             \/ i = Jump(13) /\ p = "PWMtest" /\ k = 6 * Steps + 16
             \/ i = SetRange(1024) /\ p = "PWMTest2" /\ k = 3
             \/ i = Duty(18, 512) /\ p = "PWMTest2" /\ k = 4
             \/ i = Jump(5) /\ p = "PWMTest2" /\ k = 5
             \/ i = SetRange(128) /\ p = "PWMTest3" /\ k = 6
             \/ i = Duty(13, k - 7) /\ p = "PWMTest3" /\ k \in 7..Steps + 6
<1>1. CASE p = "LED"
  <2>1. Code[p] = LED /\ k \in 1..18
    BY <1>1, CodeIs, LEDIs
  <2> QED BY <1>1, <2>1, LightOps
<1>2. CASE p = "LCD"
  <2>1. Code[p] = LCD /\ k \in 1..9
    BY <1>2, CodeIs, LCDIs
  <2> QED BY <1>2, <2>1, LightOps
<1>3. CASE p = "setup"
  <2>1. Code[p] = setup /\ k \in 1..2
    BY <1>3, CodeIs, setupIs
  <2>2. setup[k].op = "low" \/ (setup[k].op = "mode" /\ setup[k].f = Output)
    BY <2>1, OtherOps
  <2> QED BY <1>3, <2>1, <2>2
<1>4. CASE p = "custom"
  BY <1>4, CodeIs
<1>5. CASE p = "PWMtest"
  <2>1. Code[p] = PWMtest /\ k \in 1..6 * Steps + 16
    BY <1>5, CodeIs, PWMtestIs
  <2>2. \/ k \in 1..12 /\ SetUp(PWMtest[k])
        \/ k \in 13..6 * Steps + 15 /\ PWMtest[k].op = "soft"
        \/ k = 6 * Steps + 16 /\ PWMtest[k] = Jump(13)
    BY <2>1, OtherOps
  <2>3. CASE k \in 1..12 /\ SetUp(PWMtest[k])
    <3>1. k \in 1..6 * Steps + 15
      BY <2>3, PinAssumption
    <3> QED BY <1>5, <2>1, <2>3, <3>1 DEF SetUp
  <2>4. CASE k \in 13..6 * Steps + 15 /\ PWMtest[k].op = "soft"
    <3>1. k \in 1..6 * Steps + 15
      BY <2>4
    <3> QED BY <1>5, <2>1, <2>4, <3>1
  <2>5. CASE k = 6 * Steps + 16 /\ PWMtest[k] = Jump(13)
    BY <1>5, <2>1, <2>5
  <2> QED BY <2>2, <2>3, <2>4, <2>5
<1>6. CASE p = "PWMTest2"
  <2>1. Code[p] = PWMTest2 /\ k \in 1..5
    BY <1>6, CodeIs, PWMTest2Is
  <2>2. CASE k = 1
    BY <1>6, <2>1, <2>2, PWMTest2Is DEF Mode
  <2>3. CASE k = 2
    BY <1>6, <2>1, <2>3, PWMTest2Is DEF Mode
  <2>4. CASE k \in {3, 4, 5}
    BY <1>6, <2>1, <2>4, PWMTest2Is
  <2> QED BY <2>1, <2>2, <2>3, <2>4
<1>7. CASE p = "PWMTest3"
  <2>1. Code[p] = PWMTest3 /\ k \in 1..Steps + 6
    BY <1>7, CodeIs, PWMTest3Is
  <2>2. CASE k \in 1..5
    BY <1>7, <2>1, <2>2, OtherOps
  <2>3. CASE k = 6
    BY <1>7, <2>1, <2>3, PWMTest3Is
  <2>4. CASE k \in 7..Steps + 6
    BY <1>7, <2>1, <2>4, PWMTest3Is
  <2>5. k \in 1..5 \/ k = 6 \/ k \in 7..Steps + 6
    BY <2>1, PinAssumption
  <2> QED BY <2>2, <2>3, <2>4, <2>5
<1> QED BY <1>1, <1>2, <1>3, <1>4, <1>5, <1>6, <1>7, CodeIs

(* A loop goes back; nothing that it passes again asks for a function.     *)
LEMMA JumpsBack ==
  ASSUME NEW p \in Programs, NEW k \in 1..Len(Code[p]), Code[p][k].op = "jump"
  PROVE  /\ Code[p][k].to \in 1..k
         /\ \/ p = "PWMtest" /\ k = 6 * Steps + 16 /\ Code[p][k].to = 13
            \/ p = "PWMTest2" /\ k = 5 /\ Code[p][k].to = 5
<1>1. 13 \in 1..6 * Steps + 16
  BY PinAssumption
<1>2. \/ Code[p][k] = Jump(13) /\ p = "PWMtest" /\ k = 6 * Steps + 16
      \/ Code[p][k] = Jump(5) /\ p = "PWMTest2" /\ k = 5
  BY OpOf, PlaceIs
<1> QED BY <1>1, <1>2, OpOf

(* Who touches the PWM unit and the marks                                  *)
LEMMA WaveMakers ==
  ASSUME NEW p \in Programs, NEW k \in 1..Len(Code[p])
  PROVE  LET i == Code[p][k]
         IN  /\ i.op = "soft" => p = "PWMtest" /\ k \in 1..6 * Steps + 15
             /\ i.op = "duty" =>
                  \/ p = "PWMTest2" /\ k = 4 /\ i = Duty(18, 512)
                  \/ p = "PWMTest3" /\ k \in 7..Steps + 6 /\ i = Duty(13, k - 7)
             /\ i.op = "range" =>
                  \/ p = "PWMTest2" /\ k = 3 /\ i.r = 1024
                  \/ p = "PWMTest3" /\ k = 6 /\ i.r = 128
             /\ i.op = "mode" /\ i.f \notin {Input, Output} =>
                  \/ p = "PWMTest2" /\ k = 1
                  \/ p = "PWMTest3" /\ k \in 1..5
  BY OpOf, PlaceIs

-----------------------------------------------------------------------------
(***************************************************************************)
(* Types                                                                   *)
(***************************************************************************)
PinsOf(r) == {q \in UsedPins : BankOf(q) = r}

Registers == [PinsOf(0) -> 0..7] \union [PinsOf(1) -> 0..7]

Shapes ==
  /\ group \subseteq Programs
  /\ ip \in [Programs -> Int]
  /\ loaded \in [Programs -> {<<>>} \union Registers]

TypeInv == PinTypeOK /\ Shapes

LEMMA AtIs ==
  ASSUME Shapes, NEW p, NEW ops, At(p, ops)
  PROVE  /\ p \in Programs /\ p \in group /\ ip[p] \in 1..Len(Code[p])
         /\ Instr(p) = Code[p][ip[p]] /\ Instr(p) \in Accesses
         /\ Instr(p).op \in ops /\ Len(Code[p]) \in Nat
BY CodeIs DEF At, Shapes, Instr

(* The fields of an access                                                 *)
LEMMA AccessIs ==
  ASSUME NEW i \in Accesses
  PROVE  /\ i.op \in {"keep", "or", "mode", "set", "clr", "low"} =>
              i.pin \in UsedPins /\ BankOf(i.pin) \in {0, 1}
         /\ i.op = "mode" => i.f \in 0..7
         /\ i.op = "range" => i.r \in Ranges
         /\ i.op = "duty" => i.pin \in {13, 18} /\ i.d \in Duties
         /\ i.op = "soft" => i.pin \in {12, 13, 18} /\ i.m \in 0..Steps
         /\ i.op = "jump" => i.to \in Nat
<1>1. \A pin \in UsedPins : BankOf(pin) \in {0, 1}
  BY DEF UsedPins, BankOf
<1> QED BY <1>1 DEF Accesses, Input, Output

LEMMA TypeInit == PinInit => TypeInv
<1> SUFFICES ASSUME PinInit PROVE TypeInv
  OBVIOUS
<1>1. Steps \in 1..128 /\ group \subseteq Programs /\ fn \in [UsedPins -> 0..7]
  BY PinAssumption DEF PinInit
<1>2. \A p \in Programs : Len(Code[p]) \in Nat
  BY CodeIs
<1> QED BY <1>1, <1>2 DEF PinInit, TypeInv, PinTypeOK, Shapes, Channels, Ranges, Duties

(* What is written back is made of codes.                                  *)
LEMMA WrittenBackTyped ==
  ASSUME NEW i \in Accesses, i.op \in Changes, NEW reg \in Registers
  PROVE  /\ DOMAIN WrittenBack(i, reg) = DOMAIN reg
         /\ \A q \in DOMAIN reg : WrittenBack(i, reg)[q] \in 0..7
<1>1. \A q \in DOMAIN reg : reg[q] \in 0..7
  BY DEF Registers
<1>2. \A f \in 0..7 : OredWithOne(f) \in 0..7
  BY DEF OredWithOne
<1>3. i.op = "mode" => i.f \in 0..7
  BY AccessIs
<1> QED BY <1>1, <1>2, <1>3 DEF WrittenBack

LEMMA LoadTyped ==
  ASSUME TypeInv, NEW p \in Programs, Load(p)
  PROVE  TypeInv'
<1> DEFINE r == BankOf(Instr(p).pin)
           reg == [q \in {q \in UsedPins : BankOf(q) = r} |-> fn[q]]
<1>1. r \in {0, 1}
  BY AtIs, AccessIs DEF TypeInv, Load, Changes
<1>2. reg \in Registers
  BY <1>1 DEF Registers, PinsOf, TypeInv, PinTypeOK
<1>3. loaded' = [loaded EXCEPT ![p] = reg] /\ met' \subseteq met \union {r}
  BY DEF Load
<1> HIDE DEF r, reg
<1>4. loaded' \in [Programs -> {<<>>} \union Registers] /\ met' \subseteq {0, 1}
  BY <1>1, <1>2, <1>3 DEF TypeInv, PinTypeOK, Shapes
<1>5. UNCHANGED <<group, fn, lit, duty, range, marks, ip>>
  BY DEF Load, board
<1>6. Shapes'
  BY <1>4, <1>5 DEF TypeInv, Shapes
<1>7. \A q \in Programs : ip'[q] \in -1..Len(Code[q]) + 1
  BY <1>5 DEF TypeInv, PinTypeOK
<1>8. PinTypeOK'
  BY <1>4, <1>5, <1>7, Zenon DEF TypeInv, PinTypeOK
<1> QED BY <1>6, <1>8 DEF TypeInv

LEMMA StoreTyped ==
  ASSUME TypeInv, NEW p \in Programs, Store(p)
  PROVE  TypeInv'
<1> DEFINE new == WrittenBack(Instr(p), loaded[p])
<1>1. /\ ip[p] \in 1..Len(Code[p]) /\ Instr(p) \in Accesses /\ Instr(p).op \in Changes
      /\ loaded[p] \in Registers /\ Len(Code[p]) \in Nat
  BY AtIs DEF TypeInv, Shapes, Store
<1>2. \A q \in DOMAIN new : new[q] \in 0..7
  BY <1>1, WrittenBackTyped
<1>3. fn' = [q \in UsedPins |-> IF q \in DOMAIN new THEN new[q] ELSE fn[q]]
  BY DEF Store
<1> HIDE DEF new
<1>4. fn' \in [UsedPins -> 0..7]
  BY <1>2, <1>3 DEF TypeInv, PinTypeOK
<1>5. range' \in Ranges
  BY DEF Store, TypeInv, PinTypeOK, Ranges
<1>6. ip' = [ip EXCEPT ![p] = @ + 1] /\ loaded' = [loaded EXCEPT ![p] = <<>>]
  BY DEF Store, Step
<1>7. /\ ip' \in [Programs -> Int] /\ loaded' \in [Programs -> {<<>>} \union Registers]
      /\ \A q \in Programs : ip'[q] \in -1..Len(Code[q]) + 1
  BY <1>1, <1>6 DEF TypeInv, PinTypeOK, Shapes
<1>8. UNCHANGED <<group, lit, duty, marks, met>>
  BY DEF Store
<1> QED BY <1>4, <1>5, <1>7, <1>8, Zenon DEF TypeInv, PinTypeOK, Shapes

LEMMA StartTyped ==
  ASSUME TypeInv, NEW p \in Programs, MapBanks(p)
  PROVE  TypeInv'
<1>1. UNCHANGED <<group, fn, lit, duty, range, marks, loaded, met>>
  BY DEF MapBanks, board
<1>2. PICK first \in {1, -1} : ip' = [ip EXCEPT ![p] = first]
  BY DEF MapBanks
<1>3. \A q \in Programs : Len(Code[q]) \in Nat
  BY CodeIs
<1>4. ip' \in [Programs -> Int] /\ \A q \in Programs : ip'[q] \in -1..Len(Code[q]) + 1
  BY <1>2, <1>3 DEF TypeInv, PinTypeOK, Shapes
<1> QED BY <1>1, <1>4, Zenon DEF TypeInv, PinTypeOK, Shapes

LEMMA SetOrClearTyped ==
  ASSUME TypeInv, NEW p \in Programs, SetOrClear(p)
  PROVE  TypeInv'
<1>1. UNCHANGED <<group, fn, duty, range, marks, loaded, met>>
  BY DEF SetOrClear
<1>2. PICK ops \in {{"set"}, {"clr"}, {"low"}} : At(p, ops)
  BY DEF SetOrClear
<1>3. ip[p] \in 1..Len(Code[p]) /\ Len(Code[p]) \in Nat /\ Instr(p).pin \in UsedPins
  BY <1>2, AtIs, AccessIs DEF TypeInv
<1>4. ip' = [ip EXCEPT ![p] = @ + 1]
  BY DEF SetOrClear, Step
<1>5. ip' \in [Programs -> Int] /\ \A q \in Programs : ip'[q] \in -1..Len(Code[q]) + 1
  BY <1>3, <1>4 DEF TypeInv, PinTypeOK, Shapes
<1>6. lit' \subseteq UsedPins
  BY <1>3, PinAssumption DEF SetOrClear, TypeInv, PinTypeOK
<1> QED BY <1>1, <1>5, <1>6, Zenon DEF TypeInv, PinTypeOK, Shapes

LEMMA WaveTyped ==
  ASSUME TypeInv, NEW p \in Programs, Wave(p)
  PROVE  TypeInv'
<1>1. UNCHANGED <<group, fn, lit, loaded, met>>
  BY DEF Wave
<1>2. PICK ops \in {{"range"}, {"duty"}, {"soft"}} : At(p, ops)
  BY DEF Wave
<1>3. /\ ip[p] \in 1..Len(Code[p]) /\ Len(Code[p]) \in Nat /\ Instr(p) \in Accesses
  BY <1>2, AtIs DEF TypeInv
<1>4. ip' = [ip EXCEPT ![p] = @ + 1]
  BY DEF Wave, Step
<1>5. ip' \in [Programs -> Int] /\ \A q \in Programs : ip'[q] \in -1..Len(Code[q]) + 1
  BY <1>3, <1>4 DEF TypeInv, PinTypeOK, Shapes
<1>6. /\ duty' \in [Channels -> Duties] /\ range' \in Ranges
      /\ marks' \in [{12, 13, 18} -> 0..Steps]
  <2>1. CASE At(p, {"range"}) /\ range' = Instr(p).r /\ UNCHANGED <<duty, marks>>
    <3>1. Instr(p).r \in Ranges
      BY <1>3, <2>1, AccessIs DEF At
    <3> QED BY <2>1, <3>1, Zenon DEF TypeInv, PinTypeOK
  <2>2. CASE /\ At(p, {"duty"}) /\ UNCHANGED <<range, marks>>
             /\ duty' = [duty EXCEPT ![ChannelOf(Instr(p).pin)] = Instr(p).d]
    <3> DEFINE i == Instr(p)
    <3>2. i \in Accesses /\ i.op = "duty"
      BY <1>3, <2>2 DEF At
    <3> HIDE DEF i
    <3>3. i.d \in Duties
      BY <3>2, AccessIs
    <3>1. Instr(p).d \in Duties
      BY <3>3 DEF i
    <3> QED BY <2>2, <3>1, Zenon DEF TypeInv, PinTypeOK
  <2>3. CASE /\ At(p, {"soft"}) /\ UNCHANGED <<range, duty>>
             /\ marks' = [marks EXCEPT ![Instr(p).pin] = Instr(p).m]
    <3>1. Instr(p).m \in 0..Steps
      BY <1>3, <2>3, AccessIs DEF At
    <3> QED BY <2>3, <3>1, Zenon DEF TypeInv, PinTypeOK
  <2> QED BY <2>1, <2>2, <2>3 DEF Wave
<1> QED BY <1>1, <1>5, <1>6, Zenon DEF TypeInv, PinTypeOK, Shapes

LEMMA AgainTyped ==
  ASSUME TypeInv, NEW p \in Programs, Again(p)
  PROVE  TypeInv'
<1>1. UNCHANGED <<group, fn, lit, duty, range, marks, loaded, met>>
  BY DEF Again, board
<1>2. ip[p] \in 1..Len(Code[p]) /\ Instr(p).to \in 1..ip[p] /\ Len(Code[p]) \in Nat
  BY AtIs, JumpsBack DEF TypeInv, Again
<1>3. ip' = [ip EXCEPT ![p] = Instr(p).to]
  BY DEF Again
<1>4. ip' \in [Programs -> Int] /\ \A q \in Programs : ip'[q] \in -1..Len(Code[q]) + 1
  BY <1>2, <1>3 DEF TypeInv, PinTypeOK, Shapes
<1> QED BY <1>1, <1>4, Zenon DEF TypeInv, PinTypeOK, Shapes

LEMMA TypeStep == TypeInv /\ [PinNext]_pinVars => TypeInv'
<1> SUFFICES ASSUME TypeInv, [PinNext]_pinVars PROVE TypeInv'
  OBVIOUS
<1>1. CASE UNCHANGED pinVars
  <2>1. UNCHANGED <<group, fn, lit, duty, range, marks, ip, loaded, met>>
    BY <1>1 DEF pinVars, board
  <2>2. Shapes'
    BY <2>1 DEF TypeInv, Shapes
  <2>3. \A q \in Programs : ip'[q] \in -1..Len(Code[q]) + 1
    BY <2>1 DEF TypeInv, PinTypeOK
  <2>4. PinTypeOK'
    BY <2>1, <2>3, Zenon DEF TypeInv, PinTypeOK
  <2> QED BY <2>2, <2>4 DEF TypeInv
<1>2. ASSUME NEW p \in Programs, Act(p) PROVE TypeInv'
  BY <1>2, StartTyped, LoadTyped, StoreTyped, SetOrClearTyped, WaveTyped, AgainTyped
     DEF Act
<1> QED BY <1>1, <1>2 DEF PinNext, PinsFinished

LEMMA AlwaysTyped == PinSpec => []TypeInv
BY TypeInit, TypeStep, PTL DEF PinSpec

(* Whatever runs side by side, the registers hold codes and the loops stay *)
(* within their counters.                                                  *)
THEOREM PinsTyped == PinSpec => []PinTypeOK
BY AlwaysTyped, PTL DEF TypeInv

-----------------------------------------------------------------------------
(***************************************************************************)
(* Functions stick                                                         *)
(***************************************************************************)
(* A program that has read a register is about to write it back, and what  *)
(* it has read is still there unless somebody met it at that register.     *)
LoadedInv ==
  \A p \in Programs : loaded[p] # <<>> =>
    /\ At(p, Changes)
    /\ DOMAIN loaded[p] = PinsOf(BankOf(Instr(p).pin))
    /\ \A q \in DOMAIN loaded[p] : BankOf(q) \notin met => loaded[p][q] = fn[q]

(* Two programs have read the same register only if they have met there.   *)
AloneInv ==
  \A p, q \in Programs :
    /\ p # q /\ loaded[p] # <<>> /\ loaded[q] # <<>>
    /\ BankOf(Instr(p).pin) = BankOf(Instr(q).pin)
    => BankOf(Instr(p).pin) \in met

RaceInv == LoadedInv /\ AloneInv

LEMMA RaceInit == PinInit => RaceInv
BY DEF PinInit, RaceInv, LoadedInv, AloneInv

LEMMA LoadRaces ==
  ASSUME TypeInv, RaceInv, NEW p \in Programs, Load(p)
  PROVE  RaceInv'
<1> DEFINE r == BankOf(Instr(p).pin)
           reg == [q \in {q \in UsedPins : BankOf(q) = r} |-> fn[q]]
<1>1. UNCHANGED <<group, fn, ip>>
  BY DEF Load, board
<1>2. \A q, ops : At(q, ops)' <=> At(q, ops)
  BY <1>1 DEF At, Instr
<1>3. \A q \in Programs : Instr(q)' = Instr(q)
  BY <1>1 DEF Instr
<1>4. At(p, Changes) /\ loaded[p] = <<>> /\ loaded' = [loaded EXCEPT ![p] = reg]
  BY DEF Load
<1>5. met' = IF Changing(r) = {} THEN met ELSE met \union {r}
  BY DEF Load
<1>6. DOMAIN reg = PinsOf(r) /\ \A q \in PinsOf(r) : reg[q] = fn[q]
  BY DEF PinsOf
<1> HIDE DEF reg
<1>7. loaded'[p] = reg /\ \A q \in Programs : q # p => loaded'[q] = loaded[q]
  BY <1>4 DEF TypeInv, Shapes
<1>8. LoadedInv'
  <2> SUFFICES ASSUME NEW q \in Programs, loaded'[q] # <<>>
               PROVE  /\ At(q, Changes)
                      /\ DOMAIN loaded'[q] = PinsOf(BankOf(Instr(q).pin))
                      /\ \A k \in DOMAIN loaded'[q] :
                           BankOf(k) \notin met' => loaded'[q][k] = fn[k]
    BY <1>1, <1>2, <1>3 DEF LoadedInv
  <2>1. CASE q = p
    BY <1>4, <1>6, <1>7, <2>1
  <2>2. CASE q # p
    BY <1>5, <1>7, <2>2 DEF RaceInv, LoadedInv
  <2> QED BY <2>1, <2>2
<1>9. AloneInv'
  <2> SUFFICES ASSUME NEW a \in Programs, NEW b \in Programs, a # b,
                      loaded'[a] # <<>>, loaded'[b] # <<>>,
                      BankOf(Instr(a).pin) = BankOf(Instr(b).pin)
               PROVE  BankOf(Instr(a).pin) \in met'
    BY <1>3 DEF AloneInv
  <2>1. CASE a # p /\ b # p
    BY <1>5, <1>7, <2>1 DEF RaceInv, AloneInv
  <2>2. CASE a = p
    <3>1. b \in Changing(r)
      BY <1>7, <2>2 DEF Changing
    <3> QED BY <1>5, <2>2, <3>1
  <2>3. CASE b = p
    <3>1. a \in Changing(r)
      BY <1>7, <2>3 DEF Changing
    <3> QED BY <1>5, <2>3, <3>1
  <2> QED BY <2>1, <2>2, <2>3
<1> QED BY <1>8, <1>9 DEF RaceInv

(* What a store does to the pins of the other register, and, unless two    *)
(* programs have met, to those of its own                                  *)
Given(i, f) == CASE i.op = "keep" -> f
                 [] i.op = "or"   -> OredWithOne(f)
                 [] i.op = "mode" -> i.f

LEMMA StoreGives ==
  ASSUME TypeInv, RaceInv, NEW p \in Programs, Store(p)
  PROVE  LET i == Instr(p)
         IN  /\ i \in Accesses /\ i.op \in Changes /\ i.pin \in UsedPins
             /\ \A q \in UsedPins : BankOf(q) # BankOf(i.pin) => fn'[q] = fn[q]
             /\ \A q \in UsedPins : BankOf(q) \notin met /\ q # i.pin => fn'[q] = fn[q]
             /\ BankOf(i.pin) \notin met => fn'[i.pin] = Given(i, fn[i.pin])
<1> DEFINE i == Instr(p)
           new == WrittenBack(i, loaded[p])
<1>1. i \in Accesses /\ i.op \in Changes /\ loaded[p] # <<>>
  BY AtIs DEF TypeInv, Store
<1>2. fn' = [q \in UsedPins |-> IF q \in DOMAIN new THEN new[q] ELSE fn[q]]
  BY DEF Store
<1>3. /\ DOMAIN loaded[p] = PinsOf(BankOf(i.pin))
      /\ \A q \in DOMAIN loaded[p] : BankOf(q) \notin met => loaded[p][q] = fn[q]
  BY <1>1 DEF RaceInv, LoadedInv
<1> HIDE DEF i
<1>4. i.pin \in UsedPins
  BY <1>1, AccessIs DEF Changes
<1>5. DOMAIN new = PinsOf(BankOf(i.pin))
  BY <1>3 DEF WrittenBack
<1>6. \A q \in PinsOf(BankOf(i.pin)) :
        new[q] = IF q = i.pin THEN Given(i, loaded[p][q]) ELSE loaded[p][q]
  BY <1>1, <1>3 DEF WrittenBack, Given, Changes
<1> HIDE DEF new
<1>7. \A q \in UsedPins : fn'[q] = IF q \in PinsOf(BankOf(i.pin)) THEN new[q] ELSE fn[q]
  BY <1>2, <1>5
<1>8. \A q \in UsedPins : q \in PinsOf(BankOf(i.pin)) <=> BankOf(q) = BankOf(i.pin)
  BY DEF PinsOf
<1>9. \A q \in UsedPins : BankOf(q) # BankOf(i.pin) => fn'[q] = fn[q]
  BY <1>7, <1>8
<1>10. ASSUME NEW q \in UsedPins, BankOf(q) \notin met, BankOf(q) = BankOf(i.pin)
       PROVE  fn'[q] = IF q = i.pin THEN Given(i, fn[q]) ELSE fn[q]
  BY <1>3, <1>6, <1>7, <1>8, <1>10
<1> QED BY <1>1, <1>4, <1>9, <1>10 DEF i

LEMMA StoreRaces ==
  ASSUME TypeInv, RaceInv, NEW p \in Programs, Store(p)
  PROVE  RaceInv'
<1>1. /\ loaded' = [loaded EXCEPT ![p] = <<>>] /\ ip' = [ip EXCEPT ![p] = @ + 1]
      /\ UNCHANGED <<group, met>> /\ loaded[p] # <<>>
  BY DEF Store, Step
<1>2. /\ loaded'[p] = <<>>
      /\ \A q \in Programs : q # p => loaded'[q] = loaded[q] /\ ip'[q] = ip[q]
  BY <1>1 DEF TypeInv, Shapes
<1>3. \A q \in Programs : q # p => Instr(q)' = Instr(q)
  BY <1>2 DEF Instr
<1>4. \A q \in Programs : q # p => (At(q, Changes)' <=> At(q, Changes))
  BY <1>1, <1>2 DEF At, Instr
<1>5. LoadedInv'
  <2> SUFFICES ASSUME NEW q \in Programs, loaded'[q] # <<>>
               PROVE  /\ At(q, Changes)'
                      /\ DOMAIN loaded'[q] = PinsOf(BankOf(Instr(q)'.pin))
                      /\ \A k \in DOMAIN loaded'[q] :
                           BankOf(k) \notin met' => loaded'[q][k] = fn'[k]
    BY DEF LoadedInv
  <2>1. q # p /\ loaded[q] # <<>> /\ loaded'[q] = loaded[q]
    BY <1>2
  <2>2. /\ At(q, Changes) /\ DOMAIN loaded[q] = PinsOf(BankOf(Instr(q).pin))
        /\ \A k \in DOMAIN loaded[q] : BankOf(k) \notin met => loaded[q][k] = fn[k]
    BY <2>1 DEF RaceInv, LoadedInv
  <2>3. BankOf(Instr(p).pin) = BankOf(Instr(q).pin) => BankOf(Instr(p).pin) \in met
    BY <1>1, <2>1 DEF RaceInv, AloneInv
  <2>4. ASSUME NEW k \in DOMAIN loaded[q], BankOf(k) \notin met PROVE fn'[k] = fn[k]
    <3>1. k \in UsedPins /\ BankOf(k) = BankOf(Instr(q).pin)
      BY <2>2 DEF PinsOf
    <3>2. BankOf(k) # BankOf(Instr(p).pin)
      BY <2>3, <2>4, <3>1
    <3> QED BY <3>1, <3>2, StoreGives
  <2> QED BY <1>1, <1>3, <1>4, <2>1, <2>2, <2>4
<1>6. AloneInv'
  BY <1>1, <1>2, <1>3 DEF RaceInv, AloneInv
<1> QED BY <1>5, <1>6 DEF RaceInv

(* The other steps change neither a function nor what is read, and are no  *)
(* steps of a program that has read a register.                            *)
LEMMA OthersRace ==
  ASSUME TypeInv, RaceInv, NEW p \in Programs, UNCHANGED <<group, fn, loaded, met>>,
         ip[p] = 0 \/ At(p, {"set", "clr", "low", "range", "duty", "soft", "jump"}),
         \A q \in Programs : q # p => ip'[q] = ip[q]
  PROVE  RaceInv'
<1>1. loaded[p] = <<>>
  <2> SUFFICES ASSUME At(p, Changes) PROVE FALSE
    BY DEF RaceInv, LoadedInv
  <2> QED BY DEF At, Changes
<1>2. \A q \in Programs : q # p => Instr(q)' = Instr(q)
  BY DEF Instr
<1>3. \A q \in Programs : q # p => (At(q, Changes)' <=> At(q, Changes))
  BY DEF At, Instr
<1>4. LoadedInv'
  BY <1>1, <1>2, <1>3 DEF RaceInv, LoadedInv
<1>5. AloneInv'
  BY <1>1, <1>2 DEF RaceInv, AloneInv
<1> QED BY <1>4, <1>5 DEF RaceInv

LEMMA AskedIs ==
  ASSUME NEW p, NEW i
  PROVE  i \in Asked(p) <=>
           /\ \E k \in 1..Len(Code[p]) : k < ip[p] /\ i = Code[p][k]
           /\ i.op \in {"or", "mode"}
BY DEF Asked, Behind

(* Only a store goes past a place where a function is asked for.           *)
LEMMA OtherStepIs ==
  ASSUME TypeInv, NEW p \in Programs,
         MapBanks(p) \/ SetOrClear(p) \/ Wave(p) \/ Again(p)
  PROVE  /\ UNCHANGED <<group, fn, loaded, met>>
         /\ ip[p] = 0 \/ At(p, {"set", "clr", "low", "range", "duty", "soft", "jump"})
         /\ \A q \in Programs : q # p => ip'[q] = ip[q]
         /\ \A q \in Programs : Asked(q)' = Asked(q)
<1>1. UNCHANGED <<group, fn, loaded, met>>
  BY DEF MapBanks, SetOrClear, Wave, Again, board
<1>2. ip[p] = 0 \/ At(p, {"set", "clr", "low", "range", "duty", "soft", "jump"})
  BY DEF MapBanks, SetOrClear, Wave, Again, At
<1>3. \E n \in Int : ip' = [ip EXCEPT ![p] = n]
  <2>1. CASE MapBanks(p)
    <3>1. PICK first \in {1, -1} : ip' = [ip EXCEPT ![p] = first]
      BY <2>1 DEF MapBanks
    <3>2. first \in Int
      OBVIOUS
    <3> QED BY <3>1, <3>2
  <2>2. CASE SetOrClear(p) \/ Wave(p)
    <3>1. ip' = [ip EXCEPT ![p] = ip[p] + 1] /\ ip[p] + 1 \in Int
      BY <2>2 DEF SetOrClear, Wave, Step, TypeInv, Shapes
    <3> QED BY <3>1
  <2>3. CASE Again(p)
    <3>1. ip' = [ip EXCEPT ![p] = Instr(p).to] /\ Instr(p).to \in Int
      BY <2>3, AtIs, AccessIs DEF Again, TypeInv
    <3> QED BY <3>1
  <2> QED BY <2>1, <2>2, <2>3
<1>4. \A q \in Programs : q # p => ip'[q] = ip[q]
  BY <1>3 DEF TypeInv, Shapes
<1>5. \A q \in Programs : q # p => Asked(q)' = Asked(q)
  BY <1>4 DEF Asked, Behind
<1>6. Asked(p)' = Asked(p)
  <2> SUFFICES ASSUME NEW k \in 1..Len(Code[p]), Code[p][k].op \in {"or", "mode"}
               PROVE  k < ip'[p] <=> k < ip[p]
    BY DEF Asked, Behind
  <2>1. Len(Code[p]) \in Nat /\ ip \in [Programs -> Int]
    BY CodeIs DEF TypeInv, Shapes
  <2>2. CASE MapBanks(p)
    BY <2>1, <2>2 DEF MapBanks
  <2>3. CASE SetOrClear(p) \/ Wave(p)
    <3>1. ip'[p] = ip[p] + 1
      BY <2>1, <2>3 DEF SetOrClear, Wave, Step
    <3>2. Code[p][ip[p]].op \in {"set", "clr", "low", "range", "duty", "soft"}
      BY <2>3 DEF SetOrClear, Wave, At, Instr
    <3>3. k # ip[p]
      BY <3>2
    <3> QED BY <2>1, <3>1, <3>3
  <2>4. CASE Again(p)
    <3>1. /\ ip'[p] = Code[p][ip[p]].to /\ ip[p] \in 1..Len(Code[p])
          /\ Code[p][ip[p]].op = "jump"
      BY <2>1, <2>4 DEF Again, At, Instr
    <3>2. \/ p = "PWMtest" /\ ip'[p] = 13 /\ ip[p] = 6 * Steps + 16
          \/ p = "PWMTest2" /\ ip'[p] = 5 /\ ip[p] = 5
      BY <3>1, JumpsBack
    <3>3. p = "PWMtest" => k \in 1..12
      <4>1. Code[p][k] # Jump(13)
        BY OpOf, 13 \in Nat
      <4> QED BY <4>1, PlaceIs, Zenon
    <3>4. CASE p = "PWMtest"
      <4>1. ip'[p] = 13 /\ ip[p] = 6 * Steps + 16 /\ k \in 1..12
        BY <3>2, <3>3, <3>4
      <4>2. Steps \in 1..128
        BY PinAssumption
      <4>3. \A at \in 1..12 : at < 13 /\ at < 6 * Steps + 16
        BY <4>2
      <4>4. k < 13 /\ k < 6 * Steps + 16
        BY <4>1, <4>3
      <4> QED BY <4>1, <4>4
    <3>5. CASE p = "PWMTest2"
      BY <3>2, <3>5
    <3> QED BY <3>2, <3>4, <3>5
  <2> QED BY <2>2, <2>3, <2>4
<1> QED BY <1>1, <1>2, <1>4, <1>5, <1>6

LEMMA RaceStep == TypeInv /\ RaceInv /\ [PinNext]_pinVars => RaceInv'
<1> SUFFICES ASSUME TypeInv, RaceInv, [PinNext]_pinVars PROVE RaceInv'
  OBVIOUS
<1>1. CASE UNCHANGED pinVars
  BY <1>1 DEF pinVars, board, RaceInv, LoadedInv, AloneInv, At, Instr
<1>2. ASSUME NEW p \in Programs, Act(p) PROVE RaceInv'
  <2>1. CASE Load(p)
    BY <2>1, LoadRaces
  <2>2. CASE Store(p)
    BY <2>2, StoreRaces
  <2>3. CASE MapBanks(p) \/ SetOrClear(p) \/ Wave(p) \/ Again(p)
    BY <2>3, OtherStepIs, OthersRace
  <2> QED BY <1>2, <2>1, <2>2, <2>3 DEF Act
<1> QED BY <1>1, <1>2 DEF PinNext, PinsFinished

(* Is i, which somebody has asked for, held to?                            *)
Agreed(i) ==
  \A q \in group : \A other \in Asked(q) :
    other.pin = i.pin => Wants(other) = Wants(i)

Stuck(i) == fn[i.pin] = Wants(i) \/ (Wants(i) = Output /\ fn[i.pin] % 2 = 1)

LEMMA StickIs ==
  FunctionsStick <=>
    \A p \in group : \A i \in Asked(p) :
      BankOf(i.pin) \notin met /\ Agreed(i) => Stuck(i)
BY DEF FunctionsStick, Agreed, Stuck

LEMMA StickInit == PinInit => FunctionsStick
<1> SUFFICES ASSUME PinInit, NEW p \in group PROVE Asked(p) = {}
  BY DEF FunctionsStick
<1>1. ip[p] = 0
  BY PinAssumption DEF PinInit
<1> QED BY <1>1, AskedIs

(* A step that asks for nothing and changes no function                    *)
LEMMA StickKept ==
  ASSUME FunctionsStick, UNCHANGED <<group, fn>>, met \subseteq met',
         \A q \in group : Asked(q)' = Asked(q)
  PROVE  FunctionsStick'
<1>1. ASSUME NEW i, Agreed(i)' PROVE Agreed(i)
  BY <1>1 DEF Agreed
<1>2. ASSUME NEW i, Stuck(i) PROVE Stuck(i)'
  BY <1>2 DEF Stuck
<1>3. \A p \in group' : \A i \in Asked(p)' :
        BankOf(i.pin) \notin met' /\ Agreed(i)' => Stuck(i)'
  BY <1>1, <1>2, StickIs
<1> QED BY <1>3 DEF FunctionsStick, Agreed, Stuck

(* A store holds to what its program asks for; the others that ask for the *)
(* same pin agree with it.                                                 *)
LEMMA StoreSticks ==
  ASSUME TypeInv, RaceInv, FunctionsStick, NEW p \in Programs, Store(p)
  PROVE  FunctionsStick'
<1> DEFINE i == Instr(p)
<1>1. /\ i \in Accesses /\ i.op \in Changes /\ i.pin \in UsedPins
      /\ \A q \in UsedPins : BankOf(q) \notin met /\ q # i.pin => fn'[q] = fn[q]
      /\ BankOf(i.pin) \notin met => fn'[i.pin] = Given(i, fn[i.pin])
  BY StoreGives
<1>2. /\ p \in group /\ ip[p] \in 1..Len(Code[p]) /\ i = Code[p][ip[p]]
      /\ UNCHANGED <<group, met>> /\ ip' = [ip EXCEPT ![p] = @ + 1]
      /\ ip'[p] = ip[p] + 1 /\ \A q \in Programs : q # p => ip'[q] = ip[q]
  BY AtIs DEF TypeInv, Shapes, Store, Step
<1> HIDE DEF i
<1>3. group \subseteq Programs
  BY DEF TypeInv, Shapes
<1>4. ASSUME NEW q \in group, NEW x
      PROVE  x \in Asked(q)' <=>
               x \in Asked(q) \/ (q = p /\ x = i /\ i.op \in {"or", "mode"})
  <2>1. CASE q # p
    <3>1. Asked(q)' = Asked(q)
      BY <1>2, <1>3, <2>1 DEF Asked, Behind
    <3> QED BY <2>1, <3>1
  <2>2. CASE q = p
    <3>1. \A k \in 1..Len(Code[p]) : k < ip'[p] <=> k < ip[p] \/ k = ip[p]
      BY <1>2
    <3>2. x \in Asked(p)' <=>
            /\ \E k \in 1..Len(Code[p]) : k < ip'[p] /\ x = Code[p][k]
            /\ x.op \in {"or", "mode"}
      BY DEF Asked, Behind
    <3> QED BY <1>2, <2>2, <3>1, <3>2, AskedIs
  <2> QED BY <2>1, <2>2
<1>5. ASSUME NEW q \in group, NEW x \in Asked(q)' PROVE x \in Accesses /\ x.pin \in UsedPins
  <2>1. x.op \in {"or", "mode"} /\ \E k \in 1..Len(Code[q]) : x = Code[q][k]
    BY <1>5 DEF Asked, Behind
  <2>2. x \in Accesses
    BY <1>3, <2>1, CodeIs
  <2> QED BY <2>1, <2>2, AccessIs
<1> SUFFICES ASSUME NEW q \in group, NEW x \in Asked(q)', BankOf(x.pin) \notin met,
                    \A a \in group : \A other \in Asked(a)' :
                      other.pin = x.pin => Wants(other) = Wants(x)
             PROVE  fn'[x.pin] = Wants(x) \/ (Wants(x) = Output /\ fn'[x.pin] % 2 = 1)
  BY <1>2 DEF FunctionsStick
<1>6. CASE i.op \in {"or", "mode"} /\ i.pin = x.pin
  <2>1. i \in Asked(p)'
    BY <1>2, <1>4, <1>6
  <2>2. Wants(i) = Wants(x)
    BY <1>2, <1>6, <2>1
  <2>3. fn'[x.pin] = Given(i, fn[x.pin]) /\ fn[x.pin] \in 0..7
    BY <1>1, <1>6 DEF TypeInv, PinTypeOK
  <2>4. CASE i.op = "mode"
    BY <2>2, <2>3, <2>4 DEF Given, Wants
  <2>5. CASE i.op = "or"
    <3>1. fn'[x.pin] = OredWithOne(fn[x.pin]) /\ Wants(x) = Output
      BY <2>2, <2>3, <2>5 DEF Given, Wants
    <3>2. OredWithOne(fn[x.pin]) % 2 = 1
      BY <2>3 DEF OredWithOne
    <3> QED BY <3>1, <3>2
  <2> QED BY <1>6, <2>4, <2>5
<1>7. CASE ~(i.op \in {"or", "mode"} /\ i.pin = x.pin)
  <2>1. x \in Asked(q)
    BY <1>4, <1>7
  <2>2. Agreed(x)
    BY <1>4 DEF Agreed
  <2>3. Stuck(x)
    BY <2>1, <2>2, StickIs
  <2>4. fn'[x.pin] = fn[x.pin]
    <3>1. CASE i.pin # x.pin
      BY <1>1, <1>5, <3>1
    <3>2. CASE i.pin = x.pin
      <4>1. i.op = "keep"
        BY <1>1, <1>7, <3>2 DEF Changes
      <4> QED BY <1>1, <3>2, <4>1 DEF Given
    <3> QED BY <3>1, <3>2
  <2> QED BY <2>3, <2>4 DEF Stuck
<1> QED BY <1>6, <1>7

LEMMA StickStep == TypeInv /\ RaceInv /\ FunctionsStick /\ [PinNext]_pinVars => FunctionsStick'
<1> SUFFICES ASSUME TypeInv, RaceInv, FunctionsStick, [PinNext]_pinVars PROVE FunctionsStick'
  OBVIOUS
<1>1. group \subseteq Programs
  BY DEF TypeInv, Shapes
<1>2. CASE UNCHANGED pinVars
  <2>1. UNCHANGED <<group, fn, ip>> /\ met \subseteq met'
    BY <1>2 DEF pinVars, board
  <2>2. \A q \in group : Asked(q)' = Asked(q)
    BY <2>1 DEF Asked, Behind
  <2> QED BY <2>1, <2>2, StickKept
<1>3. ASSUME NEW p \in Programs, Act(p) PROVE FunctionsStick'
  <2>1. CASE Load(p)
    <3>1. UNCHANGED <<group, fn, ip>> /\ met \subseteq met'
      BY <2>1 DEF Load, board
    <3>2. \A q \in group : Asked(q)' = Asked(q)
      BY <3>1 DEF Asked, Behind
    <3> QED BY <3>1, <3>2, StickKept
  <2>2. CASE Store(p)
    BY <2>2, StoreSticks
  <2>3. CASE MapBanks(p) \/ SetOrClear(p) \/ Wave(p) \/ Again(p)
    <3>1. UNCHANGED <<group, fn, met>> /\ \A q \in Programs : Asked(q)' = Asked(q)
      BY <2>3, OtherStepIs
    <3> QED BY <1>1, <3>1, StickKept
  <2> QED BY <1>3, <2>1, <2>2, <2>3 DEF Act
<1> QED BY <1>2, <1>3 DEF PinNext, PinsFinished

(* Whichever programs are started together and in whatever order they run, *)
(* only an overlap of two read-modify-writes of a register loses a         *)
(* function that was asked for (LED.c:47-52, setup.c:95-96).               *)
THEOREM OnlyOverlapLoses == PinSpec => []FunctionsStick
<1>1. PinInit => RaceInv /\ FunctionsStick
  BY RaceInit, StickInit
<1>2. TypeInv /\ RaceInv /\ FunctionsStick /\ [PinNext]_pinVars => (RaceInv /\ FunctionsStick)'
  BY RaceStep, StickStep
<1> QED BY <1>1, <1>2, AlwaysTyped, PTL DEF PinSpec

-----------------------------------------------------------------------------
(***************************************************************************)
(* The lights end dark                                                     *)
(***************************************************************************)
(* Whoever has a light on still has the step before it that switches the   *)
(* light off.                                                              *)
LitInv ==
  \A pin \in lit \ UNION PinEchoes : \E p \in group : \E k \in 1..Len(Code[p]) :
    ip[p] \in 1..k /\ Code[p][k] = Clr(pin)

(* A step that goes past no such place of another light                    *)
LEMMA LitKept ==
  ASSUME TypeInv, LitInv, NEW p \in Programs, group' = group,
         NEW gone, lit' \subseteq (lit \ gone) \union UNION PinEchoes,
         \A q \in Programs : q # p => ip'[q] = ip[q],
         \/ ip[p] = 0
         \/ ip'[p] = ip[p]
         \/ ip[p] \in 1..Len(Code[p]) /\ ip'[p] \in 1..ip[p]
         \/ /\ ip[p] \in 1..Len(Code[p]) /\ ip'[p] = ip[p] + 1
            /\ \A pin \in UsedPins \ gone : Code[p][ip[p]] # Clr(pin)
  PROVE  LitInv'
<1> SUFFICES ASSUME NEW pin \in lit' \ UNION PinEchoes
             PROVE  \E q \in group : \E k \in 1..Len(Code[q]) :
                      ip'[q] \in 1..k /\ Code[q][k] = Clr(pin)
  BY DEF LitInv
<1>1. pin \in lit /\ pin \notin gone /\ pin \in UsedPins
  BY DEF TypeInv, PinTypeOK
<1> PICK q \in group : \E k \in 1..Len(Code[q]) :
        ip[q] \in 1..k /\ Code[q][k] = Clr(pin)
  BY <1>1 DEF LitInv
<1>2. PICK k \in 1..Len(Code[q]) : ip[q] \in 1..k /\ Code[q][k] = Clr(pin)
  OBVIOUS
<1>3. q \in Programs /\ ip[q] \in Int
  BY DEF TypeInv, Shapes
<1>4. CASE q # p
  BY <1>2, <1>3, <1>4
<1>5. CASE q = p
  <2>1. ip'[p] \in 1..k
    BY <1>1, <1>2, <1>3, <1>5
  <2> QED BY <1>2, <1>5, <2>1
<1> QED BY <1>4, <1>5

LEMMA SetOrClearLit ==
  ASSUME TypeInv, LitInv, NEW p \in Programs, SetOrClear(p)
  PROVE  LitInv'
<1> DEFINE i == Instr(p)
<1>1. /\ ip' = [ip EXCEPT ![p] = @ + 1] /\ group' = group /\ ip \in [Programs -> Int]
      /\ group \subseteq Programs
  BY DEF SetOrClear, Step, TypeInv, Shapes
<1>2. PICK op \in {"set", "clr", "low"} : At(p, {op})
  BY DEF SetOrClear
<1>3. /\ p \in group /\ ip[p] \in 1..Len(Code[p]) /\ i = Code[p][ip[p]]
      /\ i \in Accesses /\ i.op = op /\ Len(Code[p]) \in Nat
  BY <1>2, AtIs DEF TypeInv
<1>4. ip'[p] = ip[p] + 1 /\ \A q \in Programs : q # p => ip'[q] = ip[q]
  BY <1>1
<1>5. \A pin : Clr(pin).op = "clr" /\ Clr(pin).pin = pin
  BY DEF Clr
<1>6. CASE op = "set"
  <2>1. PICK echo \in PinEchoes : lit' = lit \union {i.pin} \union echo
    BY <1>2, <1>3, <1>6 DEF SetOrClear, At
  <2> SUFFICES ASSUME NEW pin \in lit' \ UNION PinEchoes
               PROVE  \E q \in group : \E k \in 1..Len(Code[q]) :
                        ip'[q] \in 1..k /\ Code[q][k] = Clr(pin)
    BY <1>1 DEF LitInv
  <2>2. CASE pin = i.pin
    <3>1. ip[p] + 1 \in 1..Len(Code[p]) /\ Code[p][ip[p] + 1] = Clr(pin)
      BY <1>3, <1>6, <2>2, OffNext
    <3>2. ip'[p] \in 1..ip[p] + 1
      BY <1>3, <1>4
    <3> QED BY <1>3, <3>1, <3>2
  <2>3. CASE pin # i.pin
    <3>1. pin \in lit \ UNION PinEchoes
      BY <2>1, <2>3
    <3> PICK q \in group : \E k \in 1..Len(Code[q]) :
            ip[q] \in 1..k /\ Code[q][k] = Clr(pin)
      BY <3>1 DEF LitInv
    <3>2. PICK k \in 1..Len(Code[q]) : ip[q] \in 1..k /\ Code[q][k] = Clr(pin)
      OBVIOUS
    <3>3. CASE q = p
      <4>1. ip[p] # k
        BY <1>3, <1>5, <1>6, <3>2, <3>3
      <4>2. ip'[p] \in 1..k
        BY <1>3, <1>4, <3>2, <3>3, <4>1
      <4> QED BY <3>2, <3>3, <4>2
    <3>4. CASE q # p
      BY <1>1, <1>4, <3>2, <3>4
    <3> QED BY <3>3, <3>4
  <2> QED BY <2>2, <2>3
<1>7. CASE op = "clr"
  <2>1. lit' \subseteq lit \ {i.pin}
    BY <1>2, <1>3, <1>7 DEF SetOrClear, At
  <2>2. lit' \subseteq (lit \ {i.pin}) \union UNION PinEchoes
    BY <2>1
  <2>3. \A pin \in UsedPins \ {i.pin} : Code[p][ip[p]] # Clr(pin)
    BY <1>3, <1>5
  <2> QED BY <1>1, <1>3, <1>4, <2>2, <2>3, LitKept
<1>8. CASE op = "low"
  <2>1. lit' \subseteq lit
    BY <1>2, <1>3, <1>8 DEF SetOrClear, At
  <2>2. lit' \subseteq (lit \ {}) \union UNION PinEchoes
    BY <2>1
  <2>3. \A pin \in UsedPins \ {} : Code[p][ip[p]] # Clr(pin)
    BY <1>3, <1>5, <1>8
  <2> QED BY <1>1, <1>3, <1>4, <2>2, <2>3, LitKept
<1> QED BY <1>6, <1>7, <1>8

LEMMA LitStep == TypeInv /\ LitInv /\ [PinNext]_pinVars => LitInv'
<1> SUFFICES ASSUME TypeInv, LitInv, [PinNext]_pinVars PROVE LitInv'
  OBVIOUS
<1>1. CASE UNCHANGED pinVars
  BY <1>1 DEF pinVars, board, LitInv
<1>2. ASSUME NEW p \in Programs, Act(p) PROVE LitInv'
  <2>1. CASE SetOrClear(p)
    BY <2>1, SetOrClearLit
  <2>2. CASE Load(p)
    <3>1. UNCHANGED <<group, lit, ip>>
      BY <2>2 DEF Load, board
    <3> QED BY <3>1 DEF LitInv
  <2>3. CASE MapBanks(p)
    <3>1. UNCHANGED <<group, lit>> /\ ip[p] = 0
      BY <2>3 DEF MapBanks, board
    <3>2. \A q \in Programs : q # p => ip'[q] = ip[q]
      BY <2>3, OtherStepIs
    <3>3. lit' \subseteq (lit \ {}) \union UNION PinEchoes
      BY <3>1
    <3> QED BY <3>1, <3>2, <3>3, LitKept
  <2>4. CASE Store(p) \/ Wave(p)
    <3>1. UNCHANGED <<group, lit>> /\ ip' = [ip EXCEPT ![p] = @ + 1]
      BY <2>4 DEF Store, Wave, Step
    <3>2. At(p, {"keep", "or", "mode", "range", "duty", "soft"})
      BY <2>4 DEF Store, Wave, At, Changes
    <3>3. /\ ip[p] \in 1..Len(Code[p]) /\ Code[p][ip[p]].op # "clr"
          /\ ip'[p] = ip[p] + 1 /\ \A q \in Programs : q # p => ip'[q] = ip[q]
      BY <3>1, <3>2 DEF At, Instr, TypeInv, Shapes
    <3>4. \A pin \in UsedPins \ {} : Code[p][ip[p]] # Clr(pin)
      BY <3>3 DEF Clr
    <3>5. lit' \subseteq (lit \ {}) \union UNION PinEchoes
      BY <3>1
    <3> QED BY <3>1, <3>3, <3>4, <3>5, LitKept
  <2>5. CASE Again(p)
    <3>1. UNCHANGED <<group, lit>> /\ ip' = [ip EXCEPT ![p] = Instr(p).to]
      BY <2>5 DEF Again, board
    <3>2. ip[p] \in 1..Len(Code[p]) /\ Instr(p).to \in 1..ip[p]
      BY <2>5, AtIs, JumpsBack DEF Again, TypeInv
    <3>3. ip'[p] \in 1..ip[p] /\ \A q \in Programs : q # p => ip'[q] = ip[q]
      BY <3>1, <3>2 DEF TypeInv, Shapes
    <3>4. lit' \subseteq (lit \ {}) \union UNION PinEchoes
      BY <3>1
    <3> QED BY <3>1, <3>2, <3>3, <3>4, LitKept
  <2> QED BY <1>2, <2>1, <2>2, <2>3, <2>4, <2>5 DEF Act
<1> QED BY <1>1, <1>2 DEF PinNext, PinsFinished

(* The programs that blink leave their lights dark, whatever else has      *)
(* blinked the same pin meanwhile (LED.c:57-82, LCD.c:45-49).              *)
THEOREM LightsEndDark == PinSpec => []EndsDark
<1>1. PinInit => LitInv
  BY DEF PinInit, LitInv
<1>2. TypeInv /\ LitInv => EndsDark
  <2> SUFFICES ASSUME TypeInv, LitInv, \A p \in group : Done(p), NEW pin \in lit \ UNION PinEchoes
               PROVE  FALSE
    BY DEF EndsDark
  <2>1. PICK p \in group : \E k \in 1..Len(Code[p]) : ip[p] \in 1..k
    BY DEF LitInv
  <2>2. p \in Programs /\ ip[p] \in Int /\ Len(Code[p]) \in Nat
    BY CodeIs DEF TypeInv, Shapes
  <2> QED BY <2>1, <2>2 DEF Done
<1> QED BY <1>1, <1>2, LitStep, AlwaysTyped, PTL DEF PinSpec

-----------------------------------------------------------------------------
(***************************************************************************)
(* The marks and the waves                                                 *)
(***************************************************************************)
(* A step moves the program on, back, to its first access, or not at all.  *)
LEMMA OneMoves ==
  ASSUME TypeInv, NEW p \in Programs, Act(p)
  PROVE  /\ \A q \in Programs : q # p => ip'[q] = ip[q]
         /\ \/ MapBanks(p) /\ ip[p] = 0 /\ ip'[p] \in {1, -1}
            \/ Load(p) /\ ip'[p] = ip[p]
            \/ /\ Store(p) \/ SetOrClear(p) \/ Wave(p)
               /\ ip[p] \in 1..Len(Code[p]) /\ ip'[p] = ip[p] + 1
            \/ Again(p) /\ ip[p] \in 1..Len(Code[p]) /\ ip'[p] = Code[p][ip[p]].to
<1>1. ip \in [Programs -> Int]
  BY DEF TypeInv, Shapes
<1>2. CASE MapBanks(p)
  <2>1. PICK first \in {1, -1} : ip' = [ip EXCEPT ![p] = first]
    BY <1>2 DEF MapBanks
  <2>2. ip[p] = 0
    BY <1>2 DEF MapBanks
  <2> QED BY <1>1, <1>2, <2>1, <2>2
<1>3. CASE Load(p)
  BY <1>3 DEF Load
<1>4. CASE Store(p) \/ SetOrClear(p) \/ Wave(p)
  <2>1. ip' = [ip EXCEPT ![p] = @ + 1]
    BY <1>4 DEF Store, SetOrClear, Wave, Step
  <2>2. ip[p] \in 1..Len(Code[p])
    BY <1>4 DEF Store, SetOrClear, Wave, At
  <2> QED BY <1>1, <1>4, <2>1, <2>2
<1>5. CASE Again(p)
  <2>1. ip[p] \in 1..Len(Code[p]) /\ ip' = [ip EXCEPT ![p] = Code[p][ip[p]].to]
    BY <1>5 DEF Again, At, Instr
  <2> QED BY <1>1, <1>5, <2>1
<1> QED BY <1>2, <1>3, <1>4, <1>5 DEF Act

(* Where the marks stand when the program is in a pass of its loops: each  *)
(* at the pass before or, once it has been moved, at this one.             *)
MarksAt(at) ==
  LET n == (at - 13) \div 3
      j == (at - 13) % 3
  IN  /\ at >= 15 => marks[13] = Steps - (IF j = 2 THEN Up(n) ELSE Up(n - 1))
      /\ at >= 16 => marks[18] = Up(n - 1)

MarksInv == MarksAt(ip["PWMtest"])

LEMMA MarkMoves ==
  ASSUME TypeInv, MarksInv, Wave("PWMtest")
  PROVE  MarksInv'
<1> DEFINE at == ip["PWMtest"]
           n == (at - 13) \div 3
           j == (at - 13) % 3
           i == Code["PWMtest"][at]
<1>1. "PWMtest" \in Programs /\ Code["PWMtest"] = PWMtest /\ Len(PWMtest) = 6 * Steps + 16
  BY CodeIs, PWMtestIs
<1>2. Steps \in 1..128
  BY PinAssumption
<1>3. at \in 1..6 * Steps + 16 /\ i.op \in {"range", "duty", "soft"} /\ Instr("PWMtest") = i
  BY <1>1, AtIs DEF Wave, At, Instr
<1>4. ip'["PWMtest"] = at + 1
  BY <1>1 DEF Wave, Step, TypeInv, Shapes
<1>5. i.op = "soft" /\ at \in 1..6 * Steps + 15
  BY <1>1, <1>3, WaveMakers
<1>6. marks' = [marks EXCEPT ![i.pin] = i.m]
  BY <1>3, <1>5 DEF Wave, At
<1>7. marks \in [{12, 13, 18} -> 0..Steps]
  BY DEF TypeInv, PinTypeOK
<1>8. CASE at < 13
  BY <1>3, <1>4, <1>8 DEF MarksInv, MarksAt
<1>9. CASE at >= 13
  <2>1. n \in 0..2 * Steps /\ j \in 0..2 /\ i = Pass(n)[j + 1]
    <3> HIDE DEF at
    <3>1. at \in 13..6 * Steps + 15 /\ i = PWMtest[at]
      BY <1>1, <1>2, <1>5, <1>9
    <3>2. /\ (at - 13) \div 3 \in 0..2 * Steps /\ (at - 13) % 3 \in 0..2
          /\ PWMtest[at] = Pass((at - 13) \div 3)[((at - 13) % 3) + 1]
      BY <3>1, PWMtestIs
    <3> QED BY <3>1, <3>2
  <2>2. at = 3 * n + j + 13
    BY <1>5, <1>9
  <2>3. /\ at >= 15 => marks[13] = Steps - (IF j = 2 THEN Up(n) ELSE Up(n - 1))
        /\ at >= 16 => marks[18] = Up(n - 1)
    BY DEF MarksInv, MarksAt
  <2>4. ASSUME NEW m \in Nat, NEW l \in 0..2, at + 1 = 3 * m + l + 13,
               at + 1 >= 15 => marks'[13] = Steps - (IF l = 2 THEN Up(m) ELSE Up(m - 1)),
               at + 1 >= 16 => marks'[18] = Up(m - 1)
        PROVE  MarksInv'
    <3> DEFINE to == ip'["PWMtest"]
    <3>1. to = at + 1
      BY <1>4
    <3> HIDE DEF to
    <3>2. (to - 13) \div 3 = m /\ (to - 13) % 3 = l
      BY <1>3, <2>4, <3>1
    <3>3. /\ to >= 15 => marks'[13] = Steps - (IF (to - 13) % 3 = 2
                          THEN Up((to - 13) \div 3) ELSE Up(((to - 13) \div 3) - 1))
          /\ to >= 16 => marks'[18] = Up(((to - 13) \div 3) - 1)
      BY <2>4, <3>1, <3>2
    <3> QED BY <3>3 DEF MarksInv, MarksAt, to
  <2> HIDE DEF n, j, i, at
  <2>5. CASE j = 0
    <3>1. PICK half : Pass(n)[1] = Soft(12, half)
      BY <2>1, PassIs
    <3>2. marks'[13] = marks[13] /\ marks'[18] = marks[18]
      BY <1>6, <1>7, <2>1, <2>5, <3>1 DEF Soft
    <3>3. n \in Nat /\ 1 \in 0..2 /\ at + 1 = 3 * n + 1 + 13
      BY <2>1, <2>2, <2>5
    <3>4. at + 1 >= 15 => at >= 16
      BY <2>1, <2>2, <2>5
    <3>5. at + 1 >= 15 => marks'[13] = Steps - (IF 1 = 2 THEN Up(n) ELSE Up(n - 1))
      BY <2>1, <2>2, <2>3, <2>5, <3>2, <3>4
    <3>6. at + 1 >= 16 => marks'[18] = Up(n - 1)
      BY <2>1, <2>2, <2>3, <3>2, <3>4
    <3> QED BY <2>4, <3>3, <3>5, <3>6
  <2>6. CASE j = 1
    <3>1. i = Soft(13, Steps - Up(n))
      BY <2>1, <2>6, PassIs
    <3>2. marks'[13] = Steps - Up(n) /\ marks'[18] = marks[18]
      BY <1>6, <1>7, <3>1 DEF Soft
    <3>3. n \in Nat /\ 2 \in 0..2 /\ at + 1 = 3 * n + 2 + 13
      BY <2>1, <2>2, <2>6
    <3>4. at + 1 >= 16 => marks'[18] = Up(n - 1)
      BY <2>1, <2>2, <2>3, <2>6, <3>2
    <3> QED BY <2>4, <3>2, <3>3, <3>4
  <2>7. CASE j = 2
    <3>1. i = Soft(18, Up(n))
      BY <2>1, <2>7, PassIs
    <3>2. marks'[13] = marks[13] /\ marks'[18] = Up(n)
      BY <1>6, <1>7, <3>1 DEF Soft
    <3>3. n + 1 \in Nat /\ 0 \in 0..2 /\ at + 1 = 3 * (n + 1) + 0 + 13 /\ (n + 1) - 1 = n
      BY <2>1, <2>2, <2>7
    <3>4. marks'[13] = Steps - Up(n)
      BY <2>1, <2>2, <2>3, <2>7, <3>2
    <3>5. at + 1 >= 15 =>
            marks'[13] = Steps - (IF 0 = 2 THEN Up(n + 1) ELSE Up((n + 1) - 1))
      BY <3>3, <3>4
    <3>6. at + 1 >= 16 => marks'[18] = Up((n + 1) - 1)
      BY <3>2, <3>3
    <3> QED BY <2>4, <3>3, <3>5, <3>6
  <2> QED BY <2>1, <2>5, <2>6, <2>7
<1> QED BY <1>3, <1>8, <1>9

LEMMA MarksStep == TypeInv /\ MarksInv /\ [PinNext]_pinVars => MarksInv'
<1> SUFFICES ASSUME TypeInv, MarksInv, [PinNext]_pinVars PROVE MarksInv'
  OBVIOUS
<1>1. "PWMtest" \in Programs /\ Code["PWMtest"] = PWMtest
  BY CodeIs
<1>2. ASSUME ip'["PWMtest"] = ip["PWMtest"], UNCHANGED marks PROVE MarksInv'
  BY <1>2 DEF MarksInv, MarksAt
<1>3. ASSUME ip'["PWMtest"] <= 13, ip'["PWMtest"] \in Int PROVE MarksInv'
  BY <1>3 DEF MarksInv, MarksAt
<1>4. CASE UNCHANGED pinVars
  BY <1>2, <1>4 DEF pinVars, board
<1>5. ASSUME NEW p \in Programs, Act(p) PROVE MarksInv'
  <2>1. CASE p # "PWMtest"
    <3>1. ip'["PWMtest"] = ip["PWMtest"]
      BY <1>1, <1>5, <2>1, OneMoves
    <3>2. ~At(p, {"soft"})
      BY <1>5, <2>1, WaveMakers DEF At, Instr
    <3>3. UNCHANGED marks
      BY <1>5, <3>2 DEF Act, MapBanks, Load, Store, SetOrClear, Wave, Again, board
    <3> QED BY <1>2, <3>1, <3>3
  <2>2. CASE p = "PWMtest"
    <3>1. CASE Wave(p)
      BY <2>2, <3>1, MarkMoves
    <3>2. CASE Load(p)
      <4>1. UNCHANGED <<ip, marks>>
        BY <3>2 DEF Load, board
      <4> QED BY <1>2, <4>1
    <3>3. CASE MapBanks(p)
      <4>1. ip'[p] \in {1, -1}
        BY <1>1, <2>2, <3>3 DEF MapBanks, TypeInv, Shapes
      <4> QED BY <1>3, <2>2, <4>1
    <3>4. CASE Store(p) \/ SetOrClear(p)
      <4>1. ip[p] \in 1..Len(Code[p]) /\ Code[p][ip[p]].op \in {"keep", "or", "mode", "set", "clr", "low"}
        BY <3>4 DEF Store, SetOrClear, At, Instr, Changes
      <4>2. ip[p] \in 1..12
        <5>1. Code[p][ip[p]] # Jump(13)
          BY <4>1, OpOf, 13 \in Nat
        <5> QED BY <1>5, <2>2, <4>1, <5>1, PlaceIs, Zenon
      <4>3. ip'[p] = ip[p] + 1
        BY <1>1, <2>2, <3>4 DEF Store, SetOrClear, Step, TypeInv, Shapes
      <4> QED BY <1>3, <2>2, <4>2, <4>3
    <3>5. CASE Again(p)
      <4>1. /\ ip[p] \in 1..Len(Code[p]) /\ Code[p][ip[p]].op = "jump"
            /\ ip'[p] = Code[p][ip[p]].to
        BY <1>1, <2>2, <3>5 DEF Again, At, Instr, TypeInv, Shapes
      <4>2. ip'[p] = 13
        BY <1>5, <2>2, <4>1, JumpsBack
      <4> QED BY <1>3, <2>2, <4>2
    <3> QED BY <1>5, <3>1, <3>2, <3>3, <3>4, <3>5 DEF Act
  <2> QED BY <2>1, <2>2
<1> QED BY <1>4, <1>5 DEF PinNext, PinsFinished

(* The two opposed pins are never more than one step apart from the full   *)
(* scale, at the turns of the loops and between the loops too, however     *)
(* long the loops are (PWMtest.c:24-39).                                   *)
THEOREM PinsStayOpposed == PinSpec => []MarksComplement
<1>1. PinInit => MarksInv
  <2> SUFFICES ASSUME PinInit PROVE MarksInv
    OBVIOUS
  <2>1. ip["PWMtest"] = 0
    BY CodeIs DEF PinInit
  <2> QED BY <2>1 DEF MarksInv, MarksAt
<1>2. TypeInv /\ MarksInv => MarksComplement
  <2> SUFFICES ASSUME TypeInv, MarksInv, ip["PWMtest"] > 15, ~Done("PWMtest")
               PROVE  marks[13] + marks[18] \in Steps - 1..Steps + 1
    BY DEF MarksComplement
  <2> DEFINE at == ip["PWMtest"]
             n == (at - 13) \div 3
             j == (at - 13) % 3
  <2>1. Steps \in 1..128 /\ at \in 16..6 * Steps + 16
    BY CodeIs, PWMtestIs, PinAssumption DEF Done, TypeInv, Shapes
  <2>2. marks[13] = Steps - (IF j = 2 THEN Up(n) ELSE Up(n - 1)) /\ marks[18] = Up(n - 1)
    BY <2>1 DEF MarksInv, MarksAt
  <2>3. n \in 1..2 * Steps + 1 /\ (j = 2 => n <= 2 * Steps) /\ j \in 0..2
    BY <2>1
  <2> HIDE DEF n, j, at
  <2>4. Up(n - 1) \in 0..Steps /\ (j = 2 => Up(n) - Up(n - 1) \in {1, -1})
    BY <2>1, <2>3 DEF Up
  <2>5. Up(n) \in Int
    BY <2>1, <2>3 DEF Up
  <2> QED BY <2>1, <2>2, <2>3, <2>4, <2>5
<1> QED BY <1>1, <1>2, MarksStep, AlwaysTyped, PTL DEF PinSpec

(* The range is wiringPi's unless PWMTest3 has set its own, and stays that *)
(* until PWMTest2 sets up the unit; each channel has one writer.           *)
WaveInv ==
  /\ range # 1024 => range = 128 /\ ip["PWMTest3"] > 6
  /\ ip["PWMTest2"] > 4 => duty[0] = 512
  /\ ip["PWMTest2"] <= 1 /\ ip["PWMTest3"] > 6 => range = 128
  /\ duty[1] \in 0..Steps - 1

LEMMA StoreWaves ==
  ASSUME TypeInv, WaveInv, NEW p \in Programs, Store(p)
  PROVE  WaveInv'
<1>1. {"PWMTest2", "PWMTest3"} \subseteq Programs
  BY CodeIs
<1>2. /\ ip[p] \in 1..Len(Code[p]) /\ Code[p][ip[p]].op \in {"keep", "or", "mode"}
      /\ Instr(p) = Code[p][ip[p]]
  BY AtIs DEF TypeInv, Store, Changes
<1>3. \A q \in Programs : ip[q] \in Int /\ ip'[q] = IF q = p THEN ip[p] + 1 ELSE ip[q]
  BY DEF Store, Step, TypeInv, Shapes
<1>4. UNCHANGED duty
  BY DEF Store
<1>5. p = "PWMTest2" => ip[p] \in {1, 2}
  BY <1>2, OpOf, PlaceIs
<1>6. ASSUME p = "PWMTest3" PROVE ip[p] \in 1..5
  <2>1. Code[p][ip[p]].op \notin {"range", "duty"}
    BY <1>2
  <2> QED BY <1>2, <1>6, <2>1, OpOf, PlaceIs
<1>7. CASE range' = range
  BY <1>1, <1>3, <1>4, <1>5, <1>6, <1>7 DEF WaveInv
<1>8. CASE range' # range
  <2>1. range' = 1024 /\ Instr(p).op = "mode" /\ Instr(p).f \notin {Input, Output}
    BY <1>8 DEF Store
  <2>2. p = "PWMTest2" \/ (p = "PWMTest3" /\ ip[p] \in 1..5)
    BY <1>2, <2>1, WaveMakers
  <2>3. CASE p = "PWMTest2"
    BY <1>1, <1>3, <1>4, <1>5, <2>1, <2>3 DEF WaveInv
  <2>4. CASE p = "PWMTest3"
    BY <1>1, <1>3, <1>4, <1>6, <2>1, <2>4 DEF WaveInv
  <2> QED BY <2>2, <2>3, <2>4
<1> QED BY <1>7, <1>8

LEMMA WaveWaves ==
  ASSUME TypeInv, WaveInv, NEW p \in Programs, Wave(p)
  PROVE  WaveInv'
<1> DEFINE i == Code[p][ip[p]]
<1>1. {"PWMTest2", "PWMTest3"} \subseteq Programs
  BY CodeIs
<1>2. ip[p] \in 1..Len(Code[p]) /\ Instr(p) = i
  BY DEF Wave, At, Instr
<1>3. \A q \in Programs : ip[q] \in Int /\ ip'[q] = IF q = p THEN ip[p] + 1 ELSE ip[q]
  BY DEF Wave, Step, TypeInv, Shapes
<1>4. duty \in [Channels -> Duties]
  BY DEF TypeInv, PinTypeOK
<1> HIDE DEF i
<1>5. CASE i.op = "range"
  <2>1. range' = i.r /\ UNCHANGED duty
    BY <1>2, <1>5 DEF Wave, At
  <2>2. \/ p = "PWMTest2" /\ ip[p] = 3 /\ range' = 1024
        \/ p = "PWMTest3" /\ ip[p] = 6 /\ range' = 128
    BY <1>2, <1>5, <2>1, WaveMakers DEF i
  <2>3. CASE p = "PWMTest2"
    BY <1>1, <1>3, <2>1, <2>2, <2>3 DEF WaveInv
  <2>4. CASE p = "PWMTest3"
    BY <1>1, <1>3, <2>1, <2>2, <2>4 DEF WaveInv
  <2> QED BY <2>2, <2>3, <2>4
<1>6. CASE i.op = "duty"
  <2>1. UNCHANGED range /\ duty' = [duty EXCEPT ![ChannelOf(i.pin)] = i.d]
    BY <1>2, <1>6 DEF Wave, At
  <2>2. \/ p = "PWMTest2" /\ ip[p] = 4 /\ i = Duty(18, 512)
        \/ p = "PWMTest3" /\ ip[p] \in 7..Steps + 6 /\ i = Duty(13, ip[p] - 7)
    BY <1>2, <1>6, WaveMakers DEF i
  <2>3. CASE p = "PWMTest2"
    <3>1. duty' = [duty EXCEPT ![0] = 512]
      <4>1. i.pin = 18 /\ i.d = 512
        BY <2>2, <2>3, OpOf
      <4>2. ChannelOf(18) = 0
        BY DEF ChannelOf
      <4> QED BY <2>1, <4>1, <4>2
    <3>2. duty'[0] = 512 /\ duty'[1] = duty[1]
      BY <1>4, <3>1 DEF Channels
    <3> QED BY <1>1, <1>3, <2>1, <2>2, <2>3, <3>2 DEF WaveInv
  <2>4. CASE p = "PWMTest3"
    <3>1. duty' = [duty EXCEPT ![1] = ip[p] - 7] /\ ip[p] \in 7..Steps + 6
      <4>1. i.pin = 13 /\ i.d = ip[p] - 7 /\ ip[p] \in 7..Steps + 6
        BY <2>2, <2>4, OpOf
      <4>2. ChannelOf(13) = 1
        BY DEF ChannelOf
      <4> QED BY <2>1, <4>1, <4>2
    <3>2. Steps \in 1..128
      BY PinAssumption
    <3>3. duty'[1] \in 0..Steps - 1 /\ duty'[0] = duty[0]
      BY <1>4, <3>1, <3>2 DEF Channels
    <3> QED BY <1>1, <1>3, <2>1, <2>4, <3>1, <3>3 DEF WaveInv
  <2> QED BY <2>2, <2>3, <2>4
<1>7. CASE i.op = "soft"
  <2>1. p = "PWMtest"
    BY <1>2, <1>7, WaveMakers DEF i
  <2>2. UNCHANGED <<duty, range>>
    BY <1>2, <1>7 DEF Wave, At
  <2> QED BY <1>1, <1>3, <2>1, <2>2 DEF WaveInv
<1> QED BY <1>2, <1>5, <1>6, <1>7 DEF Wave, At

LEMMA WaveStep == TypeInv /\ WaveInv /\ [PinNext]_pinVars => WaveInv'
<1> SUFFICES ASSUME TypeInv, WaveInv, [PinNext]_pinVars PROVE WaveInv'
  OBVIOUS
<1>1. {"PWMTest2", "PWMTest3"} \subseteq Programs /\ \A q \in Programs : ip[q] \in Int
  BY CodeIs DEF TypeInv, Shapes
<1>2. CASE UNCHANGED pinVars
  BY <1>2 DEF pinVars, board, WaveInv
<1>3. ASSUME NEW p \in Programs, Act(p) PROVE WaveInv'
  <2>1. \A q \in Programs : q # p => ip'[q] = ip[q]
    BY <1>3, OneMoves
  <2>2. CASE Store(p)
    BY <2>2, StoreWaves
  <2>3. CASE Wave(p)
    BY <2>3, WaveWaves
  <2>4. CASE MapBanks(p) \/ Load(p) \/ SetOrClear(p) \/ Again(p)
    <3>1. UNCHANGED <<duty, range>>
      BY <2>4 DEF MapBanks, Load, SetOrClear, Again, board
    <3>2. p \in {"PWMTest2", "PWMTest3"} =>
            ip'[p] = ip[p] \/ (ip[p] = 0 /\ ip'[p] \in {1, -1})
      <4>1. CASE MapBanks(p) \/ Load(p)
        BY <4>1 DEF MapBanks, Load, TypeInv, Shapes
      <4>2. CASE SetOrClear(p)
        <5>1. ip[p] \in 1..Len(Code[p]) /\ Code[p][ip[p]].op \in {"set", "clr", "low"}
          BY <4>2 DEF SetOrClear, At, Instr
        <5> QED BY <5>1, OpOf, PlaceIs
      <4>3. CASE Again(p)
        <5>1. /\ ip[p] \in 1..Len(Code[p]) /\ Code[p][ip[p]].op = "jump"
              /\ ip'[p] = Code[p][ip[p]].to
          BY <4>3 DEF Again, At, Instr, TypeInv, Shapes
        <5> QED BY <5>1, JumpsBack
      <4> QED BY <2>4, <4>1, <4>2, <4>3
    <3>3. CASE p \notin {"PWMTest2", "PWMTest3"}
      BY <1>1, <2>1, <3>1, <3>3 DEF WaveInv
    <3>4. CASE p \in {"PWMTest2", "PWMTest3"}
      BY <1>1, <2>1, <3>1, <3>2, <3>4 DEF WaveInv
    <3> QED BY <3>3, <3>4
  <2> QED BY <1>3, <2>2, <2>3, <2>4 DEF Act
<1> QED BY <1>2, <1>3 DEF PinNext, PinsFinished

(* A half wave is half and a duty is within its range as long as only one  *)
(* of the two programs has set up the PWM unit (PWMTest2.c:15-19,          *)
(* PWMTest3.c:18-26).                                                      *)
THEOREM WavesAreOwn == PinSpec => []WaveIsTheOnesOwn
<1>1. PinInit => WaveInv
  <2> SUFFICES ASSUME PinInit PROVE WaveInv
    OBVIOUS
  <2>1. ip["PWMTest2"] = 0 /\ ip["PWMTest3"] = 0
    BY CodeIs DEF PinInit
  <2> QED BY <2>1, PinAssumption DEF PinInit, WaveInv, Channels
<1>2. TypeInv /\ WaveInv => WaveIsTheOnesOwn
  <2> SUFFICES ASSUME TypeInv, WaveInv PROVE WaveIsTheOnesOwn
    OBVIOUS
  <2>1. /\ {"PWMTest2", "PWMTest3"} \subseteq Programs /\ Steps \in 1..128
        /\ \A q \in Programs : ip[q] \in Int
    BY CodeIs, PinAssumption DEF TypeInv, Shapes
  <2>2. ASSUME \E i \in Behind("PWMTest2") : i.op = "duty"
        PROVE  2 * duty[0] = range \/ ip["PWMTest3"] > 1
    <3>1. PICK k \in 1..Len(Code["PWMTest2"]) :
            k < ip["PWMTest2"] /\ Code["PWMTest2"][k].op = "duty"
      BY <2>2 DEF Behind
    <3>2. k = 4
      BY <2>1, <3>1, WaveMakers
    <3> QED BY <2>1, <3>1, <3>2 DEF WaveInv
  <2>3. ASSUME \E i \in Behind("PWMTest3") : i.op = "duty"
        PROVE  (duty[1] < range /\ range = 128) \/ ip["PWMTest2"] > 1
    <3>1. PICK k \in 1..Len(Code["PWMTest3"]) :
            k < ip["PWMTest3"] /\ Code["PWMTest3"][k].op = "duty"
      BY <2>3 DEF Behind
    <3>2. k >= 7
      BY <2>1, <3>1, WaveMakers
    <3> QED BY <2>1, <3>1, <3>2 DEF WaveInv
  <2> QED BY <2>2, <2>3 DEF WaveIsTheOnesOwn
<1> QED BY <1>1, <1>2, WaveStep, AlwaysTyped, PTL DEF PinSpec
==============================================================================
