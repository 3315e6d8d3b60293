----------------------------- MODULE PinPrograms -----------------------------
(***************************************************************************)
(* The small programs of ExampleCode and physical that act on the pins:    *)
(* LED.c, LCD.c, PWMtest.c, PWMTest2.c, PWMTest3.c, custom.c and setup.c.  *)
(* Nothing keeps two of them from running at once, and all of them change  *)
(* the function select registers, which hold ten pins each, by reading a   *)
(* register and writing it back.                                           *)
(*                                                                         *)
(* A program is the sequence of its accesses; a read-modify-write takes    *)
(* two steps.  Pins are GPIO numbers.  In a loop the accesses are written  *)
(* out, Steps times where the code counts to 100 or 128.  Reads of levels  *)
(* that are only printed are left out, and so are the mode and the clock   *)
(* of the PWM unit (pwmSetMode, pwmSetClock): they choose the shape and    *)
(* the frequency of a wave, not its function, duty or range.               *)
(***************************************************************************)
EXTENDS Integers, Sequences

CONSTANTS
  Groups,     \* the sets of programs that are started together
  Found,      \* the functions the pins may have before that
  PinEchoes,  \* the pins a set or clear register may be read as
  Steps       \* bound: the length of the counting loops, even

UsedPins == {3, 4, 12, 13, 15, 16, 17, 18, 19}
Channels == {0, 1}
BankOf(pin) == pin \div 10

(* Functions, by their code in a register *)
Input  == 0
Output == 1
Pwm(pin) == IF pin \in {12, 13} THEN 4 ELSE 2   \* ALT0, ALT5

ChannelOf(pin) == IF pin \in {12, 18} THEN 0 ELSE 1

(* The pin table of custom.c and setup.c, 0 to 63; -1 is padding *)
PinToGpio ==
  LET wired == <<17, 18, 21, 22, 23, 24, 25, 4, 0, 1, 8, 7, 10, 9, 11, 14, 15>>
  IN  [w \in 0..63 |-> IF w < 17 THEN wired[w + 1] ELSE -1]

VARIABLES
  group,    \* the programs that run
  fn,       \* the function of each pin
  lit,      \* the pins whose output latch is HIGH
  duty,     \* of each PWM channel
  range,    \* of both
  marks,    \* of the pins under software PWM
  ip,       \* the next access of each program
  loaded,   \* the register it has read and not yet written back
  met       \* history: the registers that two programs were changing at once

board == <<fn, lit, duty, range, marks>>
pinVars == <<group, board, ip, loaded, met>>

-----------------------------------------------------------------------------
(***************************************************************************)
(* The programs                                                            *)
(***************************************************************************)
Keep(pin)    == [op |-> "keep", pin |-> pin]      \* reg |= 0
OrOne(pin)   == [op |-> "or",   pin |-> pin]      \* reg |= 1 << shift
Mode(pin, f) == [op |-> "mode", pin |-> pin, f |-> f]
Set(pin)     == [op |-> "set",  pin |-> pin]      \* gpset0 |= 1 << pin
Clr(pin)     == [op |-> "clr",  pin |-> pin]
Low(pin)     == [op |-> "low",  pin |-> pin]      \* gpclr0 = 1 << pin
SetRange(r)  == [op |-> "range", r |-> r]
Duty(pin, d) == [op |-> "duty", pin |-> pin, d |-> d]
Soft(pin, m) == [op |-> "soft", pin |-> pin, m |-> m]
Jump(to)     == [op |-> "jump", to |-> to]

Thrice(body) == [n \in 1..3 * Len(body) |-> body[((n - 1) % Len(body)) + 1]]

(* Slips, to show that the properties would notice them: LED lets pin 17   *)
(* burn,                                                                   *)
LEDLit == <<Keep(4), Keep(4), OrOne(4), Keep(17), Keep(17), OrOne(17)>>
          \o Thrice(<<Set(4), Clr(4), Clr(17), Set(17)>>)

(* two pins of software PWM move together, or one is ahead, *)
MarksAlike(i, half) == <<Soft(12, half), Soft(13, i), Soft(18, i)>>

MarksAhead(i, half) == <<Soft(12, half), Soft(13, Steps - i), Soft(18, i + 1)>>

(* PWMTest3 forgets the range, *)
PWMTest3Unranged ==
  <<Mode(18, Pwm(18)), Mode(12, Pwm(12)), Mode(13, Pwm(13)), Mode(19, Pwm(19)),
    Mode(4, Input)>> \o [i \in 1..Steps |-> Duty(13, i - 1)]

(* a register is assigned to instead of or-ed into. *)
WrittenBackAlone(i, reg) ==
  [q \in DOMAIN reg |-> IF q # i.pin THEN Input
                        ELSE IF i.op = "mode" THEN i.f ELSE Output]

LED == <<Keep(4), Keep(4), OrOne(4), Keep(17), Keep(17), OrOne(17)>>
       \o Thrice(<<Set(4), Clr(4), Set(17), Clr(17)>>)

LCD == <<Keep(4), Keep(4), OrOne(4)>> \o Thrice(<<Set(4), Clr(4)>>)

(* pinMode translates its pin, digitalWrite takes it as it is. *)
setup == <<Mode(PinToGpio[16], Output), Low(16)>>

(* Maps the registers and leaves. *)
custom == <<>>

(* The three marks of one pass: to its half, down and up, *)
Marks(i, half) == <<Soft(12, half), Soft(13, Steps - i), Soft(18, i)>>

(* for i upwards, then downwards, for ever. *)
Pass(n) == IF n < Steps THEN Marks(n, n \div 2)
                        ELSE Marks(2 * Steps - n, Steps \div 2)

PassCount == 2 * Steps + 1

(* softPwmCreate drives its pin LOW and sets its function once more before *)
(* it starts the marks.                                                    *)
PWMtest ==
  <<Mode(12, Output), Mode(13, Output), Mode(18, Output),
    Low(12), Mode(12, Output), Soft(12, 1),
    Low(13), Mode(13, Output), Soft(13, 1),
    Low(18), Mode(18, Output), Soft(18, 1)>>
  \o [n \in 1..3 * PassCount |-> Pass((n - 1) \div 3)[((n - 1) % 3) + 1]]
  \o <<Jump(13)>>

PWMTest2 ==
  <<Mode(18, Pwm(18)), Mode(4, Input), SetRange(1024), Duty(18, 512), Jump(5)>>

PWMTest3 ==
  <<Mode(18, Pwm(18)), Mode(12, Pwm(12)), Mode(13, Pwm(13)), Mode(19, Pwm(19)),
    Mode(4, Input), SetRange(128)>> \o [i \in 1..Steps |-> Duty(13, i - 1)]

Code == [LED |-> LED, LCD |-> LCD, setup |-> setup, custom |-> custom,
         PWMtest |-> PWMtest, PWMTest2 |-> PWMTest2, PWMTest3 |-> PWMTest3]

Programs == DOMAIN Code

(* A register has eight codes, and what is counted fits the range of 128.  *)
ASSUME PinAssumption ==
  /\ Groups \subseteq SUBSET Programs
  /\ Found \subseteq [UsedPins -> 0..7]
  /\ PinEchoes \subseteq SUBSET UsedPins
  /\ Steps \in 1..128

-----------------------------------------------------------------------------
PinInit ==
  /\ group \in Groups
  /\ fn \in Found
  /\ lit = {}
  /\ duty = [c \in Channels |-> 0]
  /\ range = 1024
  /\ marks = [pin \in {12, 13, 18} |-> 0]
  /\ ip = [p \in Programs |-> 0]
  /\ loaded = [p \in Programs |-> <<>>]
  /\ met = {}

Instr(p) == Code[p][ip[p]]

(* Does p run and is its next access one of these? *)
At(p, ops) == p \in group /\ ip[p] \in 1..Len(Code[p]) /\ Instr(p).op \in ops

Done(p) == ip[p] \notin 0..Len(Code[p])
Step(p) == ip' = [ip EXCEPT ![p] = @ + 1]

(* open and mmap of the registers, or the program ends. *)
MapBanks(p) ==
  /\ p \in group
  /\ ip[p] = 0
  /\ \E first \in {1, -1} : ip' = [ip EXCEPT ![p] = first]
  /\ UNCHANGED <<group, board, loaded, met>>

Changes == {"keep", "or", "mode"}

Changing(r) == {q \in Programs : loaded[q] # <<>> /\ BankOf(Instr(q).pin) = r}

(* The first half of a read-modify-write: what the register holds. *)
Load(p) ==
  /\ At(p, Changes)
  /\ loaded[p] = <<>>
  /\ LET r == BankOf(Instr(p).pin)
     IN  /\ loaded' = [loaded EXCEPT
                         ![p] = [q \in {q \in UsedPins : BankOf(q) = r} |-> fn[q]]]
         /\ met' = IF Changing(r) = {} THEN met ELSE met \union {r}
  /\ UNCHANGED <<group, board, ip>>

OredWithOne(f) == IF f % 2 = 0 THEN f + 1 ELSE f

(* What is written back of the register that was read *)
WrittenBack(i, reg) ==
  [q \in DOMAIN reg |->
     CASE q = i.pin /\ i.op = "or"   -> OredWithOne(reg[q])
       [] q = i.pin /\ i.op = "mode" -> i.f
       [] OTHER                      -> reg[q]]

(* The second half.  pinMode for PWM sets the range of both channels to    *)
(* wiringPi's default.                                                     *)
Store(p) ==
  /\ At(p, Changes)
  /\ loaded[p] # <<>>
  /\ LET new == WrittenBack(Instr(p), loaded[p])
     IN  fn' = [q \in UsedPins |-> IF q \in DOMAIN new THEN new[q] ELSE fn[q]]
  /\ range' = IF Instr(p).op = "mode" /\ Instr(p).f \notin {Input, Output}
              THEN 1024 ELSE range
  /\ loaded' = [loaded EXCEPT ![p] = <<>>]
  /\ Step(p)
  /\ UNCHANGED <<group, lit, duty, marks, met>>

(* |= on a set or clear register writes back whatever it was read as. *)
SetOrClear(p) ==
  /\ \/ /\ At(p, {"set"})
        /\ \E echo \in PinEchoes : lit' = lit \union {Instr(p).pin} \union echo
     \/ /\ At(p, {"clr"})
        /\ \E echo \in PinEchoes : lit' = (lit \ {Instr(p).pin}) \ echo
     \/ /\ At(p, {"low"})
        /\ lit' = lit \ {Instr(p).pin}
  /\ Step(p)
  /\ UNCHANGED <<group, fn, duty, range, marks, loaded, met>>

Wave(p) ==
  /\ \/ /\ At(p, {"range"})
        /\ range' = Instr(p).r
        /\ UNCHANGED <<duty, marks>>
     \/ /\ At(p, {"duty"})
        /\ duty' = [duty EXCEPT ![ChannelOf(Instr(p).pin)] = Instr(p).d]
        /\ UNCHANGED <<range, marks>>
     \/ /\ At(p, {"soft"})
        /\ marks' = [marks EXCEPT ![Instr(p).pin] = Instr(p).m]
        /\ UNCHANGED <<range, duty>>
  /\ Step(p)
  /\ UNCHANGED <<group, fn, lit, loaded, met>>

Again(p) ==
  /\ At(p, {"jump"})
  /\ ip' = [ip EXCEPT ![p] = Instr(p).to]
  /\ UNCHANGED <<group, board, loaded, met>>

(* All programs have ended. *)
PinsFinished == (\A p \in group : Done(p)) /\ UNCHANGED pinVars

Act(p) == MapBanks(p) \/ Load(p) \/ Store(p) \/ SetOrClear(p) \/ Wave(p)
          \/ Again(p)

PinNext == (\E p \in Programs : Act(p)) \/ PinsFinished

PinSpec == PinInit /\ [][PinNext]_pinVars

-----------------------------------------------------------------------------
(***************************************************************************)
(* What must hold                                                          *)
(***************************************************************************)

(* wiringPi's range and that of PWMTest3, and what fits the wider one. *)
Ranges == {128, 1024}
Duties == 0..1024

(* Every variable stays in its range. *)
PinTypeOK ==
  /\ fn \in [UsedPins -> 0..7]
  /\ lit \subseteq UsedPins
  /\ duty \in [Channels -> Duties]
  /\ range \in Ranges
  /\ marks \in [{12, 13, 18} -> 0..Steps]
  /\ \A p \in Programs : ip[p] \in -1..Len(Code[p]) + 1
  /\ met \subseteq {0, 1}

(* The accesses that p has behind it (once round its loop, if any), *)
Behind(p) == {Code[p][k] : k \in {k \in 1..Len(Code[p]) : k < ip[p]}}

(* those of them that ask for a function, and the function. *)
Asked(p) == {i \in Behind(p) : i.op \in {"or", "mode"}}
Wants(i) == IF i.op = "or" THEN Output ELSE i.f

(* A function that one program has asked for, of a pin of which nobody     *)
(* else has asked another, is the pin's function, unless two programs were *)
(* changing its register at once (LED.c:47-52, LCD.c:39-41,                *)
(* setup.c:95-96): it is the overlap, not the order in which the programs *)
(* run, that loses a function.  Or-ing a 1 asks for an output, and gives   *)
(* one of a pin that was an input.                                         *)
FunctionsStick ==
  \A p \in group : \A i \in Asked(p) :
    /\ BankOf(i.pin) \notin met
    /\ \A q \in group : \A other \in Asked(q) :
         other.pin = i.pin => Wants(other) = Wants(i)
    => fn[i.pin] = Wants(i) \/ (Wants(i) = Output /\ fn[i.pin] % 2 = 1)

(* When the programs are through, the lights are out, in whatever order    *)
(* they blinked: pin 4 is shared by LED and LCD (LED.c:57-82,              *)
(* LCD.c:45-49).                                                           *)
EndsDark ==
  (\A p \in group : Done(p)) => lit \ UNION PinEchoes = {}

(* The two opposed pins of PWMtest.c add up to the full scale but for the  *)
(* one mark that is being moved, at the turns of the loops too             *)
(* (PWMtest.c:24-39).                                                      *)
MarksComplement ==
  ip["PWMtest"] > 15 /\ ~Done("PWMtest") =>
    marks[13] + marks[18] \in Steps - 1..Steps + 1

(* What PWMTest3 writes stays within the range it set, unless PWMTest2 has *)
(* set up the same unit meanwhile; and PWMTest2's half duty is one unless  *)
(* PWMTest3 has (PWMTest2.c:15-19, PWMTest3.c:18-26): the range belongs to *)
(* both channels.                                                          *)
WaveIsTheOnesOwn ==
  /\ (\E i \in Behind("PWMTest2") : i.op = "duty")
     => 2 * duty[0] = range \/ ip["PWMTest3"] > 1
  /\ (\E i \in Behind("PWMTest3") : i.op = "duty")
     => (duty[1] < range /\ range = 128) \/ ip["PWMTest2"] > 1
==============================================================================
