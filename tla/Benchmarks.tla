------------------------------ MODULE Benchmarks ------------------------------
(***************************************************************************)
(* The CPU and memory tests: cpuTestProgram.c, IPSsample.c and             *)
(* compress_test.c of testProgram/cpu, prime.c and cpuTestProgram.c of     *)
(* personal_effort, cpu.c of ExampleCode; memTestProgram.c, memError.c and *)
(* bandWidth.c of testProgram/memory.  They time pieces of work on three   *)
(* clocks, take figures from the output of commands, and look for broken   *)
(* memory.                                                                 *)
(*                                                                         *)
(* A program is the sequence of its steps; time passes in the pieces of    *)
(* work that it times, which is where time matters.  It is counted in      *)
(* ticks, Second of them to a second of the wall clock, which may be set   *)
(* meanwhile; the clocks are taken to start with the piece.  A tick is the *)
(* unit of clock() and of tv_usec, so Second is CLOCKS_PER_SEC.            *)
(***************************************************************************)
EXTENDS Integers, Sequences

CONSTANTS
  Benches,   \* the programs that may be run
  Second,    \* ticks in a second, CLOCKS_PER_SEC
  Times,     \* NTIMES, how often each memory function is timed
  Cells,     \* BUFFER_SIZE, MEM_SIZE: the cells of the pattern test
  MaxTicks,  \* bound on the time that a piece of work takes
  Settings   \* by how much the wall clock may be set, once

VARIABLES
  bench,    \* the program that runs
  at,       \* its next step
  took,     \* ticks since the piece was started
  wall,     \* what gettimeofday returns
  cpu,      \* what clock() returns
  set,      \* has the wall clock been set?
  mark,     \* the reading at the start of the piece
  laps,     \* the times that the program has worked out, in ticks
  truth,    \* history: how long the last piece took, -1 while it is not over
  shift,    \* history: by how much the wall clock was set in that piece
  read,     \* history: the clock that the last time was read on
  fault,    \* the stuck bit of each cell of the block, if any
  content,  \* what each cell reads as, given its fault
  cell,     \* the cell that is looked at
  looked,   \* the times of a function that the loop has looked at
  stats,    \* the minimum and maximum of each function so far
  outcome   \* "running", "clear", "error", "exit" or "crash"

time   == <<took, wall, cpu, set>>
memory == <<fault, content, cell>>
lap    == <<mark, laps, truth, shift, read>>
table  == <<looked, stats>>
benchVars == <<bench, at, time, lap, memory, table, outcome>>

-----------------------------------------------------------------------------
(***************************************************************************)
(* The programs                                                            *)
(***************************************************************************)
Pipe(checked)   == [op |-> "popen", checked |-> checked]
Figure(needed)  == [op |-> "figure", needed |-> needed]
Malloc(checked) == [op |-> "malloc", checked |-> checked]
Start(piece)    == [op |-> "start", piece |-> piece]
Stop(piece)     == [op |-> "stop", piece |-> piece]
Stats(k)        == [op |-> "stats", of |-> k]
Fill            == [op |-> "fill"]
Verify          == [op |-> "verify"]
Clear           == [op |-> "clear"]     \* the last line, main returns 0

(* A piece of work is timed on a clock, again until so many times have     *)
(* been taken, and may end the program.                                    *)
Piece(clock, until, exits) == [clock |-> clock, until |-> until, exits |-> exits]
Timed(piece) == <<Start(piece), Stop(piece)>>

Once(clock) == Piece(clock, 0, FALSE)
Zlib == Piece("cpu", 0, TRUE)
Function(k) == Piece("wall", k * Times, FALSE)

(* Four pipes at once, of which one figure is needed; sysbench, whose      *)
(* figures are not; a loop in whole seconds.                               *)
cpuNumCheck     == <<Pipe(TRUE), Figure(TRUE)>>
cpuPerformCheck == <<Pipe(TRUE), Figure(FALSE)>>
cpuIPSCheck     == Timed(Once("seconds"))
cpuFPCheck      == Timed(Once("seconds"))

memoryFuncCheck == <<Pipe(FALSE), Figure(FALSE)>>

(* Each of three functions is timed Times times, on a block that nobody    *)
(* has looked at.                                                          *)
memoryBandWidthCheck ==
  <<Malloc(FALSE)>> \o Timed(Function(1)) \o Timed(Function(2))
    \o Timed(Function(3)) \o <<Stats(1), Stats(2), Stats(3)>>

memoryErrorCheck == <<Malloc(TRUE), Fill, Verify>>

cpuTestMain == cpuNumCheck \o cpuPerformCheck \o cpuIPSCheck \o cpuFPCheck \o <<Clear>>
memTestMain == memoryFuncCheck \o memoryBandWidthCheck \o memoryErrorCheck \o <<Clear>>

(* The cpuTestProgram.c of personal_effort calls cpuPerformCheck           *)
(* cpuFuncCheck and has a memoryFuncCheck as well.                         *)
effortMain == cpuNumCheck \o cpuPerformCheck \o memoryFuncCheck \o <<Clear>>

cpuMain       == cpuNumCheck \o <<Clear>>
ipsMain       == Timed(Once("cpu")) \o <<Clear>>
primeMain     == Timed(Once("cpu")) \o <<Clear>>
memErrorMain  == memoryErrorCheck \o <<Clear>>
bandWidthMain == memoryBandWidthCheck \o <<Clear>>

(* Compressing and decompressing; what comes out is compared.              *)
compressMain ==
  <<Malloc(TRUE)>> \o Timed(Zlib) \o Timed(Zlib) \o <<Figure(TRUE), Clear>>

Work == [
  cpuTestProgram |-> cpuTestMain,   effortProgram |-> effortMain,
  memTestProgram |-> memTestMain,   cpu           |-> cpuMain,
  IPSsample      |-> ipsMain,       prime         |-> primeMain,
  compress_test  |-> compressMain,  memError      |-> memErrorMain,
  bandWidth      |-> bandWidthMain]

ASSUME BenchAssumption ==
  /\ Benches \subseteq DOMAIN Work
  /\ {Second, Times, Cells} \subseteq Nat \ {0}
  /\ MaxTicks \in Nat
  /\ Settings \subseteq Int

Bit == [hi |-> 1, lo |-> 0]   \* two neighbouring bits of 0xAA

Faults == {"none"} \union ({"hi", "lo"} \X {0, 1})

(* What a cell holds after the pattern is written *)
Written(f) == IF f = "none" THEN Bit ELSE [Bit EXCEPT ![f[1]] = f[2]]

(* Slips: timeCheck forgets tv_sec, *)
ReadingFraction(clock) ==
  CASE clock = "wall" -> wall % Second
    [] clock = "seconds" -> wall \div Second
    [] clock = "cpu" -> cpu

(* minimum and maximum start from 0, *)
FromZero(t) == [min |-> 0, max |-> 0]

(* the last cell is left out. *)
LastCellLeftOut == Cells - 1

-----------------------------------------------------------------------------
BenchInit ==
  /\ bench \in Benches
  /\ at = 1
  /\ took = 0 /\ wall \in 0..Second - 1 /\ cpu = 0 /\ set = FALSE
  /\ mark = 0
  /\ laps = <<>> /\ truth = -1 /\ shift = 0 /\ read = "cpu"
  /\ fault = [c \in 1..Cells |-> "none"]
  /\ content = [c \in 1..Cells |-> Bit]
  /\ cell = 1
  /\ looked = 0
  /\ stats = <<>>
  /\ outcome = "running"

This == Work[bench][at]
Running(op) == outcome = "running" /\ This.op = op
Over(how) == outcome' = how /\ UNCHANGED at
Onward == at' = at + 1 /\ UNCHANGED outcome

(* Time passes; the program need not have the processor. *)
Tick ==
  /\ Running("stop")
  /\ took < MaxTicks
  /\ took' = took + 1
  /\ wall' = wall + 1
  /\ cpu' \in {cpu, cpu + 1}
  /\ UNCHANGED <<bench, at, set, lap, memory, table, outcome>>

(* Somebody sets the clock. *)
SetClock ==
  /\ Running("stop")
  /\ ~set
  /\ set' = TRUE
  /\ \E by \in Settings : wall' = wall + by /\ shift' = by
  /\ UNCHANGED <<bench, at, took, cpu, mark, laps, truth, read, memory, table, outcome>>

(* A bit turns over in a cell that the pattern test has filled and not yet *)
(* read, if there is only one such accident.                               *)
Flip ==
  /\ Running("verify")
  /\ \A c \in 1..Cells : content[c] = Written(fault[c])
  /\ \E c \in cell..Cells, b \in {"hi", "lo"} :
       /\ fault[c] = "none"
       /\ content' = [content EXCEPT ![c][b] = 1 - @]
  /\ UNCHANGED <<bench, at, time, lap, fault, cell, table, outcome>>

-----------------------------------------------------------------------------
(* What becomes of a program whose popen or malloc has returned NULL       *)
AfterNull(step) == IF step.checked THEN "exit" ELSE "crash"

Obtain ==
  /\ Running("popen") \/ Running("malloc")
  /\ \/ /\ Onward
        /\ laps' = <<>> /\ stats' = <<>>   \* locals of the function before
     \/ Over(AfterNull(This)) /\ UNCHANGED <<laps, stats>>
  /\ UNCHANGED <<bench, time, mark, truth, shift, read, memory, looked>>

(* The output of the command has the figure or has not (the command may    *)
(* not be there at all).                                                   *)
ReadFigure ==
  /\ Running("figure")
  /\ Onward \/ (This.needed /\ Over("exit"))
  /\ UNCHANGED <<bench, time, lap, memory, table>>

(* zlib reports an error. *)
PieceFails ==
  /\ Running("stop") /\ This.piece.exits
  /\ Over("exit")
  /\ UNCHANGED <<bench, time, lap, memory, table>>

(* timeCheck() as a double, timeCheck() stored in a clock_t, and clock()   *)
Reading(clock) ==
  CASE clock = "wall" -> wall
    [] clock = "seconds" -> wall \div Second
    [] clock = "cpu" -> cpu

StartLap ==
  /\ Running("start")
  /\ mark' = Reading(This.piece.clock)
  /\ truth' = -1 /\ shift' = 0
  /\ Onward
  /\ UNCHANGED <<bench, time, laps, read, memory, table>>

(* The time that the program makes of its two readings, in ticks.  Two     *)
(* doubles of timeCheck() differ by a time in seconds.  Readings kept in a *)
(* clock_t are divided by CLOCKS_PER_SEC, so that one unit of them counts  *)
(* as one tick, what it may stand for: a tick of clock(), or the whole     *)
(* second that timeCheck() was cut to (cpuTestProgram.c:104, 129).         *)
Elapsed(clock) == Reading(clock) - mark

(* The next piece is started at any moment of a second. *)
StopLap ==
  /\ Running("stop")
  /\ laps' = Append(laps, Elapsed(This.piece.clock))
  /\ truth' = took
  /\ read' = This.piece.clock
  /\ took' = 0 /\ cpu' = 0 /\ wall' \in 0..Second - 1
  /\ at' = IF Len(laps') < This.piece.until THEN at - 1 ELSE at + 1
  /\ UNCHANGED <<bench, set, mark, shift, memory, table, outcome>>

(* The i-th time of function k, the first minimum and maximum, the body of *)
(* the loop and its bound                                                  *)
TimeOf(k, i)   == laps[(k - 1) * Times + i]
First(t)       == [min |-> t, max |-> t]
Widened(m, t) ==
  [min |-> IF m.min > t THEN t ELSE m.min, max |-> IF m.max < t THEN t ELSE m.max]
LastTime       == Times

LookAtTime ==
  /\ Running("stats")
  /\ LET k == This.of
         m == IF looked = 0 THEN First(TimeOf(k, 1)) ELSE stats[k]
     IN  stats' = [j \in 1..k |-> IF j = k THEN Widened(m, TimeOf(k, looked + 1))
                                          ELSE stats[j]]
  /\ IF looked + 1 < LastTime
     THEN looked' = looked + 1 /\ UNCHANGED <<at, outcome>>
     ELSE looked' = 0 /\ Onward
  /\ UNCHANGED <<bench, time, lap, memory>>

(* The first loop, over a block of which any cells may be broken *)
FillCells ==
  /\ Running("fill")
  /\ fault' \in [1..Cells -> Faults]
  /\ content' = [c \in 1..Cells |-> Written(fault'[c])]
  /\ Onward
  /\ UNCHANGED <<bench, time, lap, cell, table>>

LastCell == Cells

(* The second loop stops the program at the first cell that is wrong.      *)
VerifyCell ==
  /\ Running("verify")
  /\ IF content[cell] # Bit
     THEN Over("error") /\ UNCHANGED cell
     ELSE /\ cell' = cell + 1
          /\ IF cell < LastCell THEN UNCHANGED <<at, outcome>> ELSE Onward
  /\ UNCHANGED <<bench, time, lap, fault, content, table>>

SayClear ==
  /\ Running("clear")
  /\ Over("clear")
  /\ UNCHANGED <<bench, time, lap, memory, table>>

Ended == outcome # "running" /\ UNCHANGED benchVars

BenchNext ==
  \/ Tick \/ SetClock \/ Flip
  \/ Obtain \/ ReadFigure \/ StartLap \/ StopLap \/ PieceFails \/ LookAtTime
  \/ FillCells \/ VerifyCell \/ SayClear
  \/ Ended

BenchSpec == BenchInit /\ [][BenchNext]_benchVars

-----------------------------------------------------------------------------
(***************************************************************************)
(* What must hold                                                          *)
(***************************************************************************)
(* The types; the loops of memTestProgram.c end at their last time         *)
(* (:122) and cell (:156).                                                 *)
BenchTypeOK ==
  /\ bench \in Benches /\ at \in DOMAIN Work[bench]
  /\ took \in 0..MaxTicks /\ wall \in Int /\ cpu \in 0..took /\ set \in BOOLEAN
  /\ mark \in Int /\ laps \in Seq(Int) /\ truth \in Nat \union {-1}
  /\ shift \in Int /\ read \in {"wall", "seconds", "cpu"}
  /\ fault \in [1..Cells -> Faults]
  /\ content \in [1..Cells -> [{"hi", "lo"} -> {0, 1}]] /\ cell \in 1..Cells + 1
  /\ looked \in 0..Times - 1
  /\ \E k \in 0..3 : stats \in [1..k -> [min : Int, max : Int]]
  /\ outcome \in {"running", "clear", "error", "exit", "crash"}

(* A time taken on the wall clock is the time that passed and, to the      *)
(* tick, what the clock was set by meanwhile (a clock set back makes it    *)
(* too short or negative); one on the processor's clock is at most the     *)
(* time that passed, whatever becomes of the wall clock.  In               *)
(* cpuTestProgram.c:92-135 each whole second between the readings makes    *)
(* one tick: the time is a CLOCKS_PER_SEC-th of one that is less than a    *)
(* second off in either direction, and 0 (a rate that is a division by 0)  *)
(* for some pieces of less than a second.                                  *)
LapsAreTrue ==
  laps # <<>> /\ truth >= 0 =>
    LET last == laps[Len(laps)]
        told == truth + shift
    IN  CASE read = "wall" -> last = told
          [] read = "seconds" -> last * Second \in told - Second + 1..told + Second - 1
          [] read = "cpu" -> last \in 0..truth

(* The printed minimum and maximum of each function are the least and the  *)
(* greatest of its own times (memTestProgram.c:117-132,                    *)
(* bandWidth.c:78-93).                                                     *)
StatsAreTrue ==
  stats # <<>> /\ This.op # "stats" =>
    /\ DOMAIN stats = 1..3
    /\ \A k \in 1..3 :
         /\ \E i, j \in 1..Times : /\ stats[k].min = TimeOf(k, i)
                                  /\ stats[k].max = TimeOf(k, j)
         /\ \A i \in 1..Times : TimeOf(k, i) \in stats[k].min..stats[k].max

(* A bit stuck at what 0xAA has there is never noticed; any other stuck    *)
(* bit is, by the first cell that has one, unless a bit that turned over   *)
(* comes first (memTestProgram.c:151-163, memError.c:12-24).               *)
Noticeable(c) == fault[c] # "none" /\ Written(fault[c]) # Bit

PatternFindsFaults ==
  /\ outcome = "clear" /\ (\E i \in DOMAIN Work[bench] : Work[bench][i] = Verify) =>
       \A c \in 1..Cells : ~Noticeable(c)
  /\ outcome = "error" =>
       /\ Noticeable(cell) \/ fault[cell] = "none"
       /\ \A c \in 1..cell - 1 : ~Noticeable(c)

-----------------------------------------------------------------------------
(* The rates of cpuTestProgram.c are printed as instructions and           *)
(* operations in a second ("IPS: %.2lf GIPS", :108, and "FLOPS: %.2lf      *)
(* MFLOPS", :134): the time that they are taken over is the time that the  *)
(* loop took, as far as whole seconds can tell, if the clock was not set.  *)
(* The program does not keep this.                                         *)
RatesAreOfTheTime ==
  laps # <<>> /\ truth >= 0 /\ read = "seconds" /\ shift = 0 =>
    laps[Len(laps)] \in truth - Second + 1..truth + Second - 1
==============================================================================
