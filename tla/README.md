# MobileNet_Maestro: a TLA+ verification project

The repository is a collection of C programs that test the hardware of a
Raspberry Pi 4: one combined test program that an operator runs on a test
station, the single-part test programs it grew out of, two small kernel
modules, and CPU and memory tests.  This project models them, checks the models
with TLC, and proves theorems about them with TLAPS.

To check a model run `tlc -config X.cfg M` in this directory; to check the
proofs run `tlapm M_proofs.tla`.  `PROJECT.json` lists the runs, what each
definition translates (file and lines), the hazards and the theorems.

| module | what it is |
|---|---|
| `Board` | the pins, PWM channels, jumpers and faults that the combined program acts on |
| `CombineCode` | the combined test program, `src/CombineCode/main.c` and `test.c` |
| `TestStation` | what the combined program promises, without its pins and buses |
| `CombineCode_proofs` | theorems about `CombineCode` |
| `CombineCodeClaims` | what the repository says of the combined program and it does not do |
| `MCCombineCode`, `MCArrays` | a small board, and the real pin arrays, for TLC |
| `GpioRegisters` | the register-level GPIO test, `src/ExampleCode/GPIOTest.c` |
| `GpioRegisters_proofs` | theorems about `GpioRegisters` |
| `MCGpioRegisters` | its instance for TLC, with all pins, run by itself for its claim |
| `Ping` | the ICMP echo test, `src/ExampleCode/code/wifi.c` |
| `Ping_proofs` | theorems about `Ping` and `Checksum` |
| `PingClaims`, `MCPing` | its claim and its instance for TLC |
| `Nobrand` | the character device `nobrand.c` and its client `app.c` |
| `Nobrand_proofs`, `MCNobrand` | theorems about it, and its instance for TLC, run by itself for its claim |
| `PinPrograms` | the LED, LCD and PWM examples and the GPIO library study, running side by side |
| `PinPrograms_proofs`, `MCPinPrograms` | theorems about it, and its instance for TLC |
| `NetTests`, `NetTests_proofs` | the Wi-Fi, Ethernet and Bluetooth tests, and theorems about them |
| `BusPrograms`, `BusPrograms_proofs` | the BMP280 reader and the SPI and I2C examples, and theorems about them |
| `Benchmarks` | the CPU and memory tests |
| `KernelScript` | the script that builds, loads and unloads the module, `testkernel.sh` |
| `TestPrograms_proofs` | theorems about `Benchmarks` and `KernelScript` |
| `Checksum` | `checksum()` of the echo test |
| `MCPins` | the register test and the programs on the pins, which share one run |
| `MCSingles` | the network tests, the bus programs, the benchmarks, the script, the checksum and the device, which share one run |

## 1. Inventory

For each component: its state, its operations, how it interacts, what is hard
about it, and what makes it correct.

**Combined test program** (`src/CombineCode`).  State: the globals `m` (menu
number) and one counter of passes per test; in the process, descriptors that the
bus tests open; on the board, a function and an output latch per pin and a duty
per PWM channel, all of which outlive the test that set them.  Operations: the
menu; `GpioTest` (drive each of 17 pins HIGH, read it back, drive it LOW),
`resetGPIO`, `PWMTest` (start each of four PWM pins and sample input pin 7),
`SPITest_0`, `SPITest_1`, `i2cTest`; three network tests whose calls are commented
out; the summary.  The tests never call each other: they interact through the pins
and the descriptor table.  Hard: what a read returns depends on the tests and the
rounds before it; nothing that is opened is closed, nothing that runs is stopped;
a failing bus test ends the process with the verdicts of the others.  Correct
when a verdict is about the part it names, each verdict is counted once under its
own test, the pins are given back, and a round comes to an end.

**GPIO register test** (`src/ExampleCode/GPIOTest.c`, and line for line in
`ExampleCode/test.c`).  State: three function select registers of ten pins each,
the output latches, and two loop counters (pin and bit) that must stay together.
Hard: read-modify-write of registers shared with every other pin; registers that
cannot be read.  Correct when the pin that is driven is the pin that is read, the
right pins are named, and no pin is left driven.

**ICMP echo test** (`src/ExampleCode/code/wifi.c`).  State: the counters, `flag`,
and the socket's receive queue.  Hard: lost, late, duplicated and foreign
messages, a blocking receive without a timeout, failing calls.  Correct when a
line is about the request it is printed for, a failed call is not an answer, and
the program ends.

**nobrand character device and its client** (`src/testProgram/kernel/nobrand.c`,
`app.c`).  State: the module table, the holder of major number 100, open files.
Operations: insmod, rmmod, and open, ioctl, write, read, close of the client.
Hard: `file_operations` without `.owner`, so rmmod is not held up by an open
file; an init that returns 0 when `register_chrdev` failed and an exit that
unregisters all the same.  Correct when a call reaches the code of a loaded
module and another driver's registration is left alone.

**Kernel module test script** (`testkernel.sh`, `testkernel.c`, `Makefile`).
State: the built file, the module table.  Hard: the here-document expands
`$(MAKE)` to nothing, so the recipe of the generated Makefile starts with `-`,
make ignores its failure and the script goes on with whatever `.ko` is there;
`lsmod | grep` cannot tell who loaded the module.  Correct when the messages are
about this build and this load.

**BMP280 reader and bus examples** (`ExampleCode/SPITest2.c`, `SPITest.c`, `i2ctest.c`).
State: the sensor's three data registers, changing while they are read one by
one; calibration words; the wire that both SPI channels share.  Hard: torn
samples, error returns used as data, readings before the first conversion.  Correct when a printed temperature is that
of the sensor, and a failed transfer can be told from one.

**Network tests** (`test.c:255-451`, and alone in `wifiTest.c`, `EthernetTest.c`).
State: the ends of pipes, sockets, heap blocks; the network and the Bluetooth
devices, which change meanwhile.  Hard: early returns leak; verdicts that do not
look at the commands' results.  Correct when a verdict was true at some moment of
its test, of the part it names, and what is lost stays within what is known to be
lost.

**LED, LCD and PWM examples and GPIO library study** (`ExampleCode`, `src/physical`).
State: the registers of the pins and the PWM unit, which every program changes by
reading and writing back, and which nothing keeps two of them from using at once;
a pin table with -1 padding; `pinMode` translates the pin, `digitalWrite` does not.
Correct when a program's pins end as it asked, whatever else runs.

**CPU tests** (`src/testProgram/cpu`), **memory tests** (`src/testProgram/memory`).
State: readings of three clocks, one of which may be set; the times taken; a block
of memory.  Hard: whole seconds in a `clock_t`, divided by `CLOCKS_PER_SEC` all the
same; a pipe and a block used unchecked; one pattern for all bits.  Correct when a time is the time that passed and a
broken bit that can show itself is reported.

The platform driver skeleton and the vendored and generated files keep no state;
`PROJECT.json` lists them with the reason they are left out.

## 2. Plan

In this order, the most important behaviour first.

1. *Done.* `Board`, `TestStation`, `CombineCode`: the combined program on its board,
   refinement of the abstract station, proofs.
2. *Done.* `GpioRegisters`, with proofs; `Ping`, with proofs.
3. *Done.* `Nobrand`: insmod and rmmod against concurrent clients and another driver
   of the same number, with proofs.
4. *Done.* `PinPrograms`: the programs that share the registers of the pins, with
   proofs.
5. *Done.* `KernelScript`, `NetTests`, `BusPrograms`, `Benchmarks` and `Checksum`, with
   proofs.
6. Left: a common descriptor budget for `NetTests` and `CombineCode`, should the three
   network calls in `main.c` be taken out of their comments; as invariants, the
   measures by which a round and an answered run come to their end, which
   the liveness properties rest on.

## 3. The combined program

### Correspondence

`CombineCode.pc` names where the one thread is.  A test that touches the pins is
split where it sleeps or samples; a test that does not is one action.

| code | action |
|---|---|
| `main.c:19-22` scanf and the test of `m` | `ReadMenu(x)`, `ReadNothing` (nothing converted: `m` keeps its value), both through `Dispatch` |
| `GpioTest` up to its loop | `GpioSetup` |
| `GpioTest`, pinMode and write HIGH | `GpioDrive` |
| `GpioTest`, read back and write LOW | `GpioSense` |
| `GpioTest` return, `main.c:24` | `GpioReturn` |
| `resetGPIO` | `ResetGPIO` |
| `setup`, `PWMTest` | `PwmSetup`, `PwmStart`, `PwmSense` (a run of `logPWMInput` and the band of 49 to 51 %), `PwmReturn` |
| `SPITest_0`, `SPITest_1`, `i2cTest` | `SPITest_0`, `SPITest_1`, `I2cTest` |
| the summary | `Summary` |
| `exit(1)` | the branches to `pc = "exited"` |

`Rewire` is the operator changing jumpers and bus adapters, between rounds only.
`Board` holds what the code relies on wiringPi and the BCM2711 for.  The facts it
takes from outside the repository: after a failed `wiringPiSetup` the first
`pinMode` ends the process; a PWM channel feeds two pins, so both carry its wave;
switching a pin's function does not stop its channel; `wiringPiSPISetup` and
`wiringPiI2CSetup` open a device node and keep the descriptor.  Faults do not
change while the program runs.  A net whose drivers disagree may be read either
way; a clean wave sampled 1024 times is counted somewhere in the band
(`WaveCounts`), opposing drivers anywhere (`Counts`).

`printed`, `spiFailed`, `converted`, `fds`, `ready`, `rounds` and `bench` are not variables
of the C code: they are what was printed (of pins, and of transfers that failed),
what scanf returned, what the process has open, what wiringPi remembers, a bound
and the station.

### Runs

- `jumpers`: the small board (seven pins, three arrays that put them in every
  combination the real ones do), at most one broken pin, five jumper
  arrangements, two rounds.  `GpioNamesFaults`, `FirstRoundPasses`,
  `ImplementsStation`, and `RoundEnds` under fairness.
- `buses`: the pin arrays exactly as in `test.c`, two rounds of two iterations, every
  state of the SPI channels or of the I2C adapter, transfers that fail on either
  channel, 16 descriptors.  `TypeOK`, `FdBudget`, `OutputsConfined`, `AbortHasCause`,
  `ImplementsStation`, and `LoopbackPasses`: a wired channel passes unless its own transfer
  failed.

Why the bounds are enough.  A second round sees everything that a first one
leaves behind (running PWM pins, open descriptors, counters), a third one
nothing new: the theorems below say so for any number.  16 descriptors last for
three iterations of five each, so that the fourth meets the limit in the middle
of a test.  The counts 501, 502, 522 and 523 are the ones at the ends of the band.
`SpiFailing` bounds which channels' transfers may fail: both in `buses`, channel 1 in
the others, where the tests of the pins matter and one channel is as good as two.

Two runs refute what the repository says of the program:

- `FailuresNotNegative`: the second round's summary prints -1 failures.
- `SoundBoardPasses`: in the second round a sound board may fail, for PWM pins of
  the first still run against the pin under test.

Other observations are in the model without a property, for no text of the
repository says what should be.  A letter, or the end of the input, starts a round,
for `m` keeps its value 0 when `scanf` converts nothing (`main.c:21`).  "PWM Success" is
also printed for a pin that does not drive the input, over the wave of a pin tested
before.  A pin stuck HIGH passes, for `GpioTest` does not read it while LOW.  The message
about a missing I2C device may mean that the program has no descriptors left.
The second loop of `resetGPIO` indexes the first
array (`test.c:496`); the pins are inputs by then and only their latches differ.
And joining all four PWM pins to the input at once fails sound boards in the
first round, since the two channels run at the same time: `SoundStation` says which
wirings work.

### Fairness

`FairSpec` asks for weak fairness of the program's own steps.  It is one thread,
and between the menu's reads nothing it calls waits for another party.  No
fairness is asked of the operator.  The system has no terminal state but
`exited`, which stutters explicitly, so deadlock checking stays on.

### Proofs

For all pins, arrays, wirings, faults, iterations, rounds and descriptors, from
`BoardAssumption`, `ProgramAssumption` and `ArraysFit` (the constants have the types
of the code's constants; the arrays of `resetGPIO` cover those of `GpioTest`, and the
second one is not the longer), all of which TLC evaluates on the real arrays:

| theorem | property | from |
|---|---|---|
| `TypeCorrect` | `TypeOK` | `TypeInv`: the loop index inside the array of its loop, at each place |
| `NothingLeftDriven` | `OutputsConfined` | `ModeInv`: an output is a pin of `GpioTest`, and only there |
| `FaultsNamed` | `GpioNamesFaults` | `NamesInv`: the pin that is read was just driven HIGH (`DriveInv`); before wiringPi is ready nothing is counted (`ReadyInv`) |
| `LeakBounded` | `FdBudget` | `FdInv`: in the menu the iteration counter is 0 |
| `AbortsHaveCause` | `AbortHasCause` | `FdInv` |
| `LoopbackHolds` | `LoopbackPasses` | `FdInv`: what was leaked leaves room for both nodes |
| `SoundBoardPassesFirst` | `FirstRoundPasses` | `FirstInv`: what each test of a sound first round has left for the next |
| `Implements` | `ImplementsStation` | `IInv`, with `PwmInv`: as long as `PWMTest` has refused no pin, some jumpered pin is sound |

None of the properties is inductive as it stands.  `GpioNamesFaults` for instance
says nothing of the moment between driving a pin and reading it, and a read is
only right because the pin is still an output and HIGH; `DriveInv` adds that.  Each
inductive step has one lemma per action or group of actions, and `Implements`
one per action, mapping it to a step of `TestStation` or to a stutter.

`LoopbackPasses` and `FirstRoundPasses` speak of transfers that work: what a failed
one says of the wire is nothing (`spiFailed` is history of it).

`FirstInv` follows a sound first round through its tests: `GpioTest` drives no pin
of the net it reads (`SoundRead`), and `PWMTest` finds only one channel running on
it (`SoundWave`).  `SoundBoardPassesFirst` assumes `RoomAndWave`: five descriptors, a clean
wave that counts inside the band, and that `PWMTest` switches on every pin that may be
jumpered.  The real arrays and the small board meet it.

`RoundEnds` is model-checked only: it needs fairness.

## 4. The register test

`GpioRegisters` takes a function select register as the set of its bits that
are 1.  `DriveHigh` or-s bit `k` into the register of pin `j`; `Release` clears the
register, moves on to the next pin and adds 3 to `k`; `Shift` starts `k` anew at pins 10
and 20.  The three branches of the code differ in the register only and are one
set of actions over `RegOf(j)`.  What the code does to write-only registers is
modelled with an arbitrary echo: `gpset0 |= x` writes `x` and any set of `Echoes`.

`pins` (module `MCPins`) runs either the programs of section 7 or, while they lie idle, the
whole walk over 27 pins, from the registers as a Pi boots with
I2C, SPI and UART enabled, and with a pin of each position (first of a register,
last, untested) in another function.  `OnlyTheTestedPin` relates the two counters, the
register and the registers found at the start.  `NamesFaults` has an exception that
the code forces: or-ing 001 into the field of a pin found in an alternate
function gives another alternate function.  It can only hit the first pin of a
register, the others having been cleared with it.  Pin 10 is such a pin when SPI is
enabled, which the SPI tests need.  `EndsUndriven`: the walk leaves no pin driven, by
clearing the functions of all.

`BusPinsLeftOut` is refuted: the specification of the test leaves the pins of I2C and
SPI out of the walk (`src/document`, line 42), the loop does not, and they become
outputs and lose their functions.

`GpioRegisters_proofs` proves all four properties for every content of the registers, every
board and every echo (`RegistersTyped`, `TestsOnePin`, `WalkNamesFaults`, `WalkEndsUndriven`).
The inductive invariant says what each register holds bit for bit (`RegsInv`), where
`k` stands against `j` (`ShiftInv`), and what the latch of the tested pin is (`LatchInv`).
`OnlyTheTestedPin` follows from it, since the fields of two pins of a register have no
bit in common (`FieldsDisjoint`).

The program takes its pins one after another with nothing concurrent in the
repository, so an action is a whole read-modify-write.

## 5. The echo test

`Ping` has the program (`Open`, `Send`, `Receive`, `ReceiveFails`) and a network that
delivers each answer as often as `Copies` allows and some messages that answer
nothing.  A raw socket queues all of them in order of arrival.  A message is the
number of the request it answers; nothing else of it is ever looked at.

`ping` runs three requests with zero, one or two answers each, a stray, and socket
calls that fail at any time.  Three requests are one more than it takes to have
an answer overtaken by two others.  `LinesInOrder`: no line shows an answer to a
later request, and an error is taken for an answer at the first request only
(the comparison at `wifi.c:113`).  `FailedSendSilences`: the first failed send silences its
own request and every later one, however well those are sent and answered (`flag` is
never set again), and every request before it makes its line unless its own
`recvfrom` failed.  `unsent` and `unread` are histories of the requests whose calls
failed.  `AnsweredRunEnds`: unless a request stays unanswered,
the program ends.  Fairness is weak fairness of the program's steps and of the
arrival of what is on its way; failures and strays need not happen.  The run has
deadlock checking off because the program really may stop: it blocks for ever in
`recvfrom` when an answer is lost, and always over IPv6, where the IPv4 protocol
number brings no answers.

`LinesAreAnswers` is refuted: a line "Ping to ..." may be printed for a message that
answers another request, or none.

`Ping_proofs` proves both safety properties and the type invariant for any number
of requests, copies and strays and any failing calls.  None is inductive.  What is
on its way, or queued, answers a request already sent (`PastInv`); while `recvfrom` waits
no line has been printed for the request sent last (`LinesInv`); a request is sent
only while there is one left, and counted only when answered (`CountInv`); and `flag`
is 0 exactly when a send has failed, which is what `FailedSendSilences` rests on.
`AnsweredRunEnds` needs fairness and is model-checked only.

`checksum()` is in `Checksum` (section 8): its result is only ever sent.  Its theorem is in
`Ping_proofs` as well.

## 6. The character device

`Nobrand` has the operator (`Insmod`, `Rmmod`, and `OtherArrives`, `OtherLeaves` of another driver
with major number 100) and the clients (`Open`, then `Call` for each call of `app.c`).  A load
of the module is a number, so that the code of an earlier load can be told from
that of the one in the kernel.  What the kernel does is taken from what the two
files rely on: `register_chrdev` refuses a number that is taken, `unregister_chrdev` asks for
the number and not for the driver, and a module whose operations name no owner is
not held by an open file.  A call on a file of a load that is gone runs what is left of
its code or ends the process, at the kernel's choice.  A kernel that guards user
memory may end a client in `nobrand_read`, which writes to the buffer itself; its end
closes the file.

`singles` (section 8) has it with two clients, three loads (one to be open on, one that comes while a
client still has the file of the first, one that finds the number taken).
`RegisteredIsLoaded`: a later open never reaches code that is gone, although init
reports success without the number and exit gives back what it may not hold.
`HeardInOrder` relates what the driver heard to where the client is.  `OtherLosesToUnload`:
the other driver loses its number to an unload only.
No call of `app.c` waits for another party and there is no loop in it, so no liveness is
stated.  `HeardInOrder` shows that a client whose load is gone is heard up to the call that
was its last.

`ReleaseReached`, the comment at `nobrand.c:42`, is refuted: after an unload the client's
close no longer reaches `nobrand_release`.

`Nobrand_proofs` has the type invariant and the three safety properties for any set of
clients and any number of loads.  `RegisteredIsLoaded` is inductive next to the types.
`HeardInOrder` is not: it does not say that a client that is about to open has no file
yet, nor that one in the middle of its calls has one (`FileInv`).

## 7. Programs that share the pins

Every program of `PinPrograms` is a sequence of accesses to the registers; a
read-modify-write is two steps, `Load` and `Store`, between which the other programs
run.  `SetOrClear` has the same arbitrary echo as `GpioRegisters`.  Loops that count to
100 or 128 are written out `Steps` times.  `softPwmCreate` is the three accesses it makes.
The mode and the clock of the PWM unit (`pwmSetMode`, `pwmSetClock`) are left out: they
change the shape and the frequency of a wave, on which no property depends.

`pins` has every two programs and the three that touch both registers, four steps to a
loop, from pins that are inputs or have other functions.  `FunctionsStick`: a program's
pin ends in the function it asked for, unless two programs were changing the same
register at the same time: the order in which the programs run loses nothing, the
overlap does.  `EndsDark`: the lights end out although LED and LCD share one.
`MarksComplement`: the two opposed software PWM pins are never more than one step
apart, at the turns of the loops too.  `WaveIsTheOnesOwn`: a half wave is half, and a duty
is within the range, unless the other PWM program changed the range, which
belongs to both channels: the half duty of the comment at `PWMTest2.c:50` is none once
`PWMTest3` has set its range, of which 512 is more than the whole.  Four steps have a first, a last and inner ones; the
loops do the same at every step.

`PinPrograms_proofs` proves all five, the types among them, for any sets of programs
started together, any functions found, any echo, and loops of up to 128 steps
(`PinAssumption`; 128 is the longer loop of the code, and what the code hands to the
PWM unit at most).  What each program does at each place is proved once, program by
program (`LEDIs`, `PassIs`, ..., `CodeIs`).  Then:

- `FunctionsStick` is not inductive: between a load and a store the register is not
  what the property speaks of.  `LoadedInv` says that a program which has read a
  register and not yet written it stands at a change of it, and that what it has read
  is still there, at every register at which no two programs have met.  `AloneInv` says
  that two programs which have read the same register have met there.
- `EndsDark` needs that whoever has lit a pin still has the step that clears it ahead of
  it (`LitInv`); a pin that an echo left lit is out of its reach.
- `MarksComplement` needs what each mark was set to at each place of the loops, the
  places before and after the jump back included (`MarksInv`).
- `WaveIsTheOnesOwn` needs who may have set the range: it is wiringPi's 1024 unless
  `PWMTest3` has set its 128, it stays 128 until `PWMTest2` sets up the unit, and each
  channel has one writer (`WaveInv`).

## 8. Programs that stand alone

`singles` runs these five modules and `Nobrand` one at a time: they share nothing, and one
run tells as much as six.  The initial state picks the module; the others lie idle.

- `NetTests`.  A test looks at its surroundings once or for each device, and `Changed` may
  change a fact before and after.  `VerdictWasTrue`: a verdict was true at some moment of
  its test, and the lack of a descriptor never passes for a part that is missing;
  only a Wi-Fi test whose pipe or command failed says nothing (`unasked` is the history
  of it): `iwconfig` missing or failing is printed as "Not connected" (`test.c:287`) on a
  station that is.  Of the Ethernet test the property says no more than the code gives:
  an address of `wlan0` is as good as one of `eth0`, and what `ifconfig`, `ping` and `iperf3`
  return is not looked at.  `LeaksAccounted`: a program of one test gives all back;
  the combined one loses a pipe and a socket, and a block with each, every round.
  Five descriptors run out in the third round; two changes let a device go and
  come back within a test.  `NetTests_proofs` proves the type invariant and both properties
  for any number of devices, descriptors, rounds and changes (`NetAssumption`: at
  least one round).  `Balance` says what is held at each place; `Witnessed` that the
  histories miss no fact, that each verdict under way has its witness, and that the
  inquiry left a descriptor for the connections.
- `BusPrograms`.  The sensor converts between the transfers, and may lose its setup.
  `TornReading`: a reading no conversion fell into is the sensor's; a torn one is within
  one step of the MSB, and of the LSB if the MSB stood still.  `FailureShowsInSign`: an
  unnoticed failure makes the number negative.  Nobody
  waits for the first conversion (`SPITest2.c:75`), or sees that the setup failed, so the
  temperature that a reading is of may be the value the registers have after a reset
  (`AtReset`): `TornReading` counts it as one.  Nothing is stated of `SPITest.c` and `i2ctest.c`
  beyond their types: what they print is the result of one call.  A digit has two values instead of 256 or 16: the weights are
  parameters and a digit has a first and a last.  `BusPrograms_proofs` proves the types and both properties for
  digits of any number of values (`BusAssumption`: at least one), so for those of the
  sensor.  `Reading` says which temperature each digit is of; `DigitsOf` that a number is
  made up of its digits, and `RawOf` what is made up of the rest of failed transfers.
- `Benchmarks`.  A program is a sequence of steps; time passes while a piece of work is
  timed, and the wall clock may be set.  `LapsAreTrue` says what each clock's time is: on
  the wall clock the time that passed and what the clock was set by (`shift`), on the
  processor's at most the time that passed.  `cpuTestProgram.c` cuts its readings to whole
  seconds and divides by `CLOCKS_PER_SEC` all the same, so that each second it sees pass
  makes one tick (`Elapsed`): the seconds are less than one off, a piece of less than a
  second may count as none, and `RatesAreOfTheTime` is refuted, that the rates it prints
  are over the time that passed (in a run whose pieces take up to two whole seconds of three
  ticks).  `StatsAreTrue`, `PatternFindsFaults` (a stuck bit shows unless it is stuck
  at what 0xAA has there).  Work takes up to one and a half seconds, so that whole
  seconds can be one too many or too few.  The loops over the times are taken one time
  a step, as the code has them.  `TestPrograms_proofs` proves all three, and the types
  (`BenchTypeOK`, which includes that no loop runs past its last time or cell), for any
  number of times, cells and ticks, any length of a second and any setting of the
  clock (`BenchAssumption`: at least one of each that is divided by or looped over).  A program is known by which step may follow which (`Follows`): that
  is proved of each function and kept where functions are joined (`Joins`).  None of the
  properties is inductive: `LapInv` says what a start has read and how the clocks have
  moved since, `CountedInv` how many times are taken where, so that the loop over them
  misses none; `StatsInv` that the extremes so far are those of the times so far;
  `CellInv` that no cell passed over is noticeable, and that a program with the test
  gets to its last line by way of the last cell only.
- `KernelScript`.  Three scripts, so that two can meet the module of a third, and a
  developer who edits and builds.  `NothingLeftLoaded`: a loaded module has a script that will
  unload it, unless that one was interrupted or refused.  `LoadedIsBuilt`, what lines 22-37
  announce, is refuted: the recipe of the generated Makefile starts with `-`, so a
  build that makes nothing counts as a success.  `TestPrograms_proofs` proves
  `NothingLeftLoaded` for any number of scripts and edits: a step of another script moves
  its own line only, or takes the module away.
- `Checksum`.  Words of four values and up to four of them, which makes both folds
  carry.  `ReceiverAccepts`: a receiver that adds with an end-around carry gets all ones.
  `carried` is a history of what such a receiver has after each word.  `ChecksumAccepted`
  (in `Ping_proofs`) proves it for words of any width and packets of up to as many words
  as a word has values (`SumAssumption`; the program's has 32 words of 65536 values).  The
  sum is what the receiver has but for a multiple of one less than the number of
  values, 0 only together with it, and two words of which that is true are the same
  (`Congruent`, `SameWord`); so the folds, which take such multiples away, end at it.

Deadlock is checked: a program that ends stutters explicitly.  No fairness is
stated in these modules, and no liveness.

## 9. Proved, and only checked

Eight modules hold proofs: `CombineCode_proofs`, `GpioRegisters_proofs`, `Ping_proofs` (with
`Checksum`), `Nobrand_proofs`, `PinPrograms_proofs`, `TestPrograms_proofs` (`Benchmarks` and
`KernelScript`), `NetTests_proofs`, `BusPrograms_proofs`.  Their theorems hold for every value of
the constants that meets the named assumptions, which TLC evaluates on the
instances.  Every invariant and action property of the passing runs is a theorem;
the strengthened invariants were checked with TLC as well before they were proved.
Only model-checked are `RoundEnds` and `AnsweredRunEnds`, which need
fairness: liveness and ENABLED are out of the prover's reach.

## 10. Not modelled

The wording and colours of messages; time, but where it is measured; the
contents of packets; the kernel, wiringPi and the network beyond what the code
relies on.  Further:

- `compensate_temperature` (`SPITest2.c:30-36`): pure arithmetic of three calibration words, for
  which the repository states no result.
- What the CPU tests compute (`isPrime`, the floating-point loop, the compressed
  bytes) and the rates divided out of the times: a run is timed whatever it computes.
- The levels that `LED.c` reads to print them (it prints "4 is" of bit 3), and the
  percentages of `PWMTest2.c`, `PWMTest3.c`: nothing depends on them.  The mode and the
  clock of the PWM unit.  What a crash over a NULL costs: the model has it as an
  outcome, and no property.  The
  table of physical pin numbers in `physical/custom.c` is never read.
- `testProgram/kernel/device.c`: prints one line on probe and remove and keeps no state.
- `ExampleCode/code/main.c`, which calls functions the repository does not have;
  `personal_effort/testProgram/cpu/tmp.c`; copies of modelled files (`ExampleCode/test.c`,
  `testProgram/memory/test.c`, the kernel files under `personal_effort`).
- `syscalls.h` and the `.mod.c` files: a header of the Linux kernel and files its build
  generates.
