-------------------------- MODULE TestPrograms_proofs --------------------------
(***************************************************************************)
(* Theorems about the test programs of testProgram that wait for nobody:   *)
(* KernelScript, for any number of scripts and versions, and Benchmarks,   *)
(* for any number of times, cells and ticks, any second and any setting of *)
(* the clock.                                                              *)
(*                                                                         *)
(* NothingLeftLoaded is inductive together with the types: the script      *)
(* whose insmod loaded the module is behind its insmod and not yet behind  *)
(* its rmmod, and what other scripts do moves only their own lines or      *)
(* takes the module away.                                                  *)
(*                                                                         *)
(* The benchmarks need to be known by what follows what in a program       *)
(* (Follows), and then what a start has read, how many times were taken,   *)
(* what the loop over them has seen and which cells were looked at.        *)
(***************************************************************************)
EXTENDS KernelScript, Benchmarks, TLAPS

Inv == ScriptTypeOK /\ NothingLeftLoaded

-----------------------------------------------------------------------------
LEMMA InvInit == ScriptInit => Inv
  BY DEF ScriptInit, Inv, ScriptTypeOK, NothingLeftLoaded, Lines

(* One script's step moves its own line and no other's.                    *)
LEMMA ReachMoves ==
  ASSUME ScriptTypeOK, NEW s \in Scripts, NEW l \in Lines, Reach(s, l)
  PROVE  /\ line' \in [Scripts -> Lines]
         /\ line'[s] = l
         /\ \A t \in Scripts \ {s} : line'[t] = line[t]
  BY DEF ScriptTypeOK, Reach

LEMMA SourceSteps ==
  ASSUME Inv, Edit \/ BuildElsewhere
  PROVE  Inv'
  BY DEF Inv, ScriptTypeOK, NothingLeftLoaded, Edit, BuildElsewhere

LEMMA MakeStep ==
  ASSUME Inv, NEW s \in Scripts, Make(s)
  PROVE  Inv'
<1>1. PICK next \in {"insmod", "ended"} : Reach(s, next)
  BY DEF Make
<1>2. /\ line' \in [Scripts -> Lines]
      /\ \A t \in Scripts \ {s} : line'[t] = line[t]
  BY <1>1, ReachMoves DEF Inv, Lines
<1>3. wanted' \in [Scripts -> Nat]
  BY DEF Inv, ScriptTypeOK, Make
<1>4. ScriptTypeOK'
  BY <1>2, <1>3 DEF Inv, ScriptTypeOK, Make, files
<1>5. NothingLeftLoaded'
  BY <1>2 DEF Inv, ScriptTypeOK, NothingLeftLoaded, Make
<1> QED BY <1>4, <1>5 DEF Inv

LEMMA InsmodStep ==
  ASSUME Inv, NEW s \in Scripts, ScriptInsmod(s)
  PROVE  Inv'
<1>1. /\ line' \in [Scripts -> Lines]
      /\ line'[s] = "check"
      /\ \A t \in Scripts \ {s} : line'[t] = line[t]
  BY ReachMoves DEF Inv, ScriptInsmod, Lines
<1>2. ScriptTypeOK'
  BY <1>1 DEF Inv, ScriptTypeOK, ScriptInsmod, files
<1>3. NothingLeftLoaded'
  BY <1>1 DEF Inv, ScriptTypeOK, NothingLeftLoaded, ScriptInsmod
<1> QED BY <1>2, <1>3 DEF Inv

LEMMA CheckStep ==
  ASSUME Inv, NEW s \in Scripts, Check(s)
  PROVE  Inv'
<1>1. CASE resident # 0
  <2>1. /\ line' \in [Scripts -> Lines]
        /\ line'[s] = "sleep"
        /\ \A t \in Scripts \ {s} : line'[t] = line[t]
    BY <1>1, ReachMoves DEF Inv, Check, AfterCheck, Lines
  <2>2. got' \in [Scripts -> Nat]
    BY <1>1 DEF Inv, ScriptTypeOK, Check
  <2>3. ScriptTypeOK'
    BY <2>1, <2>2 DEF Inv, ScriptTypeOK, Check, files
  <2>4. NothingLeftLoaded'
    BY <2>1 DEF Inv, ScriptTypeOK, NothingLeftLoaded, Check
  <2> QED BY <2>3, <2>4 DEF Inv
<1>2. CASE resident = 0
  <2>1. line' \in [Scripts -> Lines]
    BY <1>2, ReachMoves DEF Inv, Check, Lines
  <2> QED BY <1>2, <2>1 DEF Inv, ScriptTypeOK, NothingLeftLoaded, Check, files
<1> QED BY <1>1, <1>2

LEMMA SleepStep ==
  ASSUME Inv, NEW s \in Scripts, Sleep(s)
  PROVE  Inv'
<1>1. CASE Reach(s, "rmmod") /\ UNCHANGED abandoned
  <2>1. /\ line' \in [Scripts -> Lines]
        /\ line'[s] = "rmmod"
        /\ \A t \in Scripts \ {s} : line'[t] = line[t]
    BY <1>1, ReachMoves DEF Inv, Lines
  <2> QED BY <1>1, <2>1 DEF Inv, ScriptTypeOK, NothingLeftLoaded, Sleep, files
<1>2. CASE Reach(s, "ended") /\ abandoned' = abandoned \union {s}
  <2>1. /\ line' \in [Scripts -> Lines]
        /\ \A t \in Scripts \ {s} : line'[t] = line[t]
    BY <1>2, ReachMoves DEF Inv, Lines
  <2> QED BY <1>2, <2>1 DEF Inv, ScriptTypeOK, NothingLeftLoaded, Sleep, files
<1> QED BY <1>1, <1>2 DEF Sleep

LEMMA RmmodStep ==
  ASSUME Inv, NEW s \in Scripts, ScriptRmmod(s)
  PROVE  Inv'
<1>1. /\ line' \in [Scripts -> Lines]
      /\ \A t \in Scripts \ {s} : line'[t] = line[t]
  BY ReachMoves DEF Inv, ScriptRmmod, Lines
<1>2. ScriptTypeOK'
  BY <1>1 DEF Inv, ScriptTypeOK, ScriptRmmod, files
<1>3. NothingLeftLoaded'
  BY <1>1 DEF Inv, ScriptTypeOK, NothingLeftLoaded, ScriptRmmod
<1> QED BY <1>2, <1>3 DEF Inv

(* The loader does not come to its last check with the module loaded,      *)
(* unless its rmmod was refused.                                           *)
LEMMA RecheckStep ==
  ASSUME Inv, NEW s \in Scripts, Recheck(s)
  PROVE  Inv'
<1>1. /\ line' \in [Scripts -> Lines]
      /\ \A t \in Scripts \ {s} : line'[t] = line[t]
  BY ReachMoves DEF Inv, Recheck, Lines
<1> QED BY <1>1 DEF Inv, ScriptTypeOK, NothingLeftLoaded, Recheck, files

(* Inv is inductive.                                                       *)
LEMMA InvStep == Inv /\ [ScriptNext]_scriptVars => Inv'
<1> SUFFICES ASSUME Inv, [ScriptNext]_scriptVars PROVE Inv'
  OBVIOUS
<1>1. CASE Edit \/ BuildElsewhere
  BY <1>1, SourceSteps
<1>2. ASSUME NEW s \in Scripts, ScriptStep(s) PROVE Inv'
  BY <1>2, MakeStep, InsmodStep, CheckStep, SleepStep, RmmodStep, RecheckStep
     DEF ScriptStep
<1>3. CASE UNCHANGED scriptVars
  BY <1>3 DEF Inv, ScriptTypeOK, NothingLeftLoaded, scriptVars, files
<1> QED BY <1>1, <1>2, <1>3 DEF ScriptNext, AllEnded

-----------------------------------------------------------------------------
(* The types of the script's model.                                        *)
THEOREM ScriptTyped == ScriptSpec => []ScriptTypeOK
<1>1. Inv => ScriptTypeOK BY DEF Inv
<1> QED BY InvInit, InvStep, <1>1, PTL DEF ScriptSpec

(* Scripts that meet each other's module leave none behind, unless one was *)
(* interrupted or refused (testkernel.sh:32-48).                           *)
THEOREM NoneLeft == ScriptSpec => []NothingLeftLoaded
<1>1. Inv => NothingLeftLoaded BY DEF Inv
<1> QED BY InvInit, InvStep, <1>1, PTL DEF ScriptSpec

-----------------------------------------------------------------------------
(***************************************************************************)
(* Benchmarks                                                              *)
(***************************************************************************)
Pieces == [clock : {"wall", "seconds", "cpu"}, until : Nat, exits : BOOLEAN]

BenchOps ==
  [op : {"popen", "malloc"}, checked : BOOLEAN]
  \union [op : {"figure"}, needed : BOOLEAN]
  \union [op : {"start", "stop"}, piece : Pieces]
  \union [op : {"stats"}, of : 1..3]
  \union [op : {"fill", "verify", "clear"}]

(* What may follow what, wherever one part of a program is joined to       *)
(* another                                                                 *)
Follows(x, y) ==
  /\ x.op # "clear"
  /\ x.op = "start" \/ y.op = "stop" =>
       x.op = "start" /\ y.op = "stop" /\ x.piece = y.piece
  /\ y.op = "start" =>
       \/ y.piece.until = 0
       \/ x.op = "malloc" /\ y.piece.until = Times
       \/ /\ x.op = "stop" /\ x.piece.until > 0
          /\ y.piece.until = x.piece.until + Times
  /\ y.op = "stats" =>
       \/ y.of = 1 /\ x.op = "stop" /\ x.piece.until = 3 * Times
       \/ x.op = "stats" /\ y.of = x.of + 1
  /\ x.op = "stats" =>
       \/ x.of < 3 /\ y.op = "stats"
       \/ x.of = 3 /\ y.op \in {"malloc", "clear"}
  /\ x.op = "fill" <=> y.op = "verify"
  /\ x.op = "verify" => y.op = "clear"

Opening(x) == x.op \in {"popen", "malloc"} \/ (x.op = "start" /\ x.piece.until = 0)

Chain(s) ==
  /\ s \in Seq(BenchOps) /\ Len(s) >= 1
  /\ \A i \in 1..Len(s) - 1 : Follows(s[i], s[i + 1])

Program(s) == Chain(s) /\ Opening(s[1]) /\ s[Len(s)] = Clear

LapInv ==
  /\ ~set => shift = 0
  /\ This.op # "stop" => took = 0 /\ cpu = 0 /\ wall >= 0
  /\ This.op = "stop" =>
       /\ truth = -1
       /\ This.piece.clock = "cpu" => mark = 0
       /\ This.piece.clock = "wall" => mark = wall - took - shift
       /\ This.piece.clock = "seconds" => mark = (wall - took - shift) \div Second

CountedInv ==
  This.op \in {"start", "stop"} /\ This.piece.until > 0 =>
    Len(laps) \in This.piece.until - Times..This.piece.until - 1

(* stats[k] has the extremes of the first n times of function k.           *)
Extreme(k, n) ==
  /\ \E i, j \in 1..n : stats[k].min = TimeOf(k, i) /\ stats[k].max = TimeOf(k, j)
  /\ \A i \in 1..n : TimeOf(k, i) \in stats[k].min..stats[k].max

StatsInv ==
  /\ This.op = "stats" =>
       /\ Len(laps) = 3 * Times
       /\ DOMAIN stats = 1..(IF looked = 0 THEN This.of - 1 ELSE This.of)
       /\ \A k \in DOMAIN stats : Extreme(k, IF k = This.of THEN looked ELSE Times)
  /\ This.op # "stats" => looked = 0
  /\ This.op # "stats" /\ stats # <<>> =>
       This.op \in {"malloc", "clear"} /\ StatsAreTrue

HasVerify == \E i \in DOMAIN Work[bench] : Work[bench][i] = Verify

CellInv ==
  /\ \A c \in 1..Cells : fault[c] # "none" => content[c] = Written(fault[c])
  /\ This.op \notin {"verify", "clear"} => cell = 1
  /\ This.op = "verify" => cell <= Cells
  /\ \A c \in 1..cell - 1 : ~Noticeable(c)
  /\ This.op = "clear" /\ HasVerify => cell = Cells + 1

OutcomeInv ==
  /\ outcome = "error" => This.op = "verify" /\ content[cell] # Bit
  /\ outcome = "clear" => This.op = "clear"
  /\ outcome \notin {"error", "running"} => This.op # "verify"

BenchInv ==
  BenchTypeOK /\ LapInv /\ LapsAreTrue /\ CountedInv /\ StatsInv /\ CellInv /\ OutcomeInv

-----------------------------------------------------------------------------
(* A part of a program, its first step and its last                        *)
Part(s, x, y) == Chain(s) /\ s[1] = x /\ s[Len(s)] = y

LEMMA OpOf ==
  ASSUME NEW x \in BenchOps
  PROVE  /\ x.op \in {"popen", "malloc", "figure", "start", "stop", "stats", "fill",
                     "verify", "clear"}
         /\ x.op \in {"start", "stop"} =>
              x.piece.clock \in {"wall", "seconds", "cpu"} /\ x.piece.until \in Nat
         /\ x.op = "stats" => x.of \in 1..3
BY DEF BenchOps, Pieces

LEMMA Joins ==
  ASSUME NEW s, NEW t, NEW x, NEW y, NEW u, NEW v,
         Part(s, x, y), Part(t, u, v), Follows(y, u)
  PROVE  Part(s \o t, x, v)
<1> DEFINE m == Len(s)
           n == Len(t)
           j == s \o t
<1>1. /\ s \in Seq(BenchOps) /\ t \in Seq(BenchOps)
      /\ m \in Nat /\ n \in Nat /\ m >= 1 /\ n >= 1
  BY DEF Part, Chain
<1>2. /\ j \in Seq(BenchOps) /\ Len(j) = m + n
      /\ \A k \in 1..m : j[k] = s[k]
      /\ \A k \in m + 1..m + n : j[k] = t[k - m]
  BY <1>1
<1>3. /\ s[1] = x /\ s[m] = y /\ t[1] = u /\ t[n] = v
      /\ \A i \in 1..m - 1 : Follows(s[i], s[i + 1])
      /\ \A i \in 1..n - 1 : Follows(t[i], t[i + 1])
  BY DEF Part, Chain
<1> HIDE DEF m, n, j
<1>4. j[1] = x /\ j[m] = y
  <2>1. 1 \in 1..m /\ m \in 1..m
    BY <1>1
  <2> QED BY <1>2, <1>3, <2>1
<1>5. j[m + 1] = u
  <2>1. m + 1 \in m + 1..m + n /\ (m + 1) - m = 1
    BY <1>1
  <2> QED BY <1>2, <1>3, <2>1
<1>6. j[m + n] = v
  <2>1. m + n \in m + 1..m + n /\ (m + n) - m = n
    BY <1>1
  <2> QED BY <1>2, <1>3, <2>1
<1>7. ASSUME NEW i \in 1..m + n - 1 PROVE Follows(j[i], j[i + 1])
  <2>1. CASE i < m
    <3>1. i \in 1..m /\ i + 1 \in 1..m /\ i \in 1..m - 1
      BY <1>1, <2>1
    <3> QED BY <1>2, <1>3, <3>1
  <2>2. CASE i = m
    BY <1>4, <1>5, <2>2
  <2>3. CASE i > m
    <3>1. /\ i \in m + 1..m + n /\ i + 1 \in m + 1..m + n
          /\ i - m \in 1..n - 1 /\ (i + 1) - m = (i - m) + 1
      BY <1>1, <2>3
    <3>2. j[i] = t[i - m] /\ j[i + 1] = t[(i - m) + 1]
      BY <1>2, <3>1
    <3> QED BY <1>3, <3>1, <3>2
  <2> QED BY <1>1, <2>1, <2>2, <2>3
<1>8. Chain(j)
  <2>1. Len(j) >= 1 /\ Len(j) - 1 = m + n - 1
    BY <1>1, <1>2
  <2> QED BY <1>2, <1>7, <2>1 DEF Chain
<1>9. Part(j, x, v)
  BY <1>2, <1>4, <1>6, <1>8 DEF Part
<1> QED BY <1>9 DEF j

(* The parts                                                               *)
LEMMA OneIs ==
  ASSUME NEW x \in BenchOps
  PROVE  Part(<<x>>, x, x)
<1>1. <<x>> \in Seq(BenchOps) /\ Len(<<x>>) = 1 /\ <<x>>[1] = x
  OBVIOUS
<1> QED BY <1>1 DEF Part, Chain

LEMMA PairIs ==
  ASSUME NEW x \in BenchOps, NEW y \in BenchOps, Follows(x, y)
  PROVE  Part(<<x, y>>, x, y)
<1>1. /\ <<x, y>> \in Seq(BenchOps) /\ Len(<<x, y>>) = 2
      /\ <<x, y>>[1] = x /\ <<x, y>>[2] = y
  OBVIOUS
<1> QED BY <1>1 DEF Part, Chain

LEMMA TripleIs ==
  ASSUME NEW x \in BenchOps, NEW y \in BenchOps, NEW z \in BenchOps,
         Follows(x, y), Follows(y, z)
  PROVE  Part(<<x, y, z>>, x, z)
<1>1. /\ <<x, y, z>> \in Seq(BenchOps) /\ Len(<<x, y, z>>) = 3
      /\ <<x, y, z>>[1] = x /\ <<x, y, z>>[2] = y /\ <<x, y, z>>[3] = z
  OBVIOUS
<1>2. \A i \in 1..2 : Follows(<<x, y, z>>[i], <<x, y, z>>[i + 1])
  <2>1. \A i \in 1..2 : (i = 1 /\ i + 1 = 2) \/ (i = 2 /\ i + 1 = 3)
    OBVIOUS
  <2> QED BY <1>1, <2>1
<1> QED BY <1>1, <1>2 DEF Part, Chain

LEMMA OpsAre ==
  /\ \A b \in BOOLEAN : {Pipe(b), Figure(b), Malloc(b)} \subseteq BenchOps
  /\ \A p \in Pieces : {Start(p), Stop(p)} \subseteq BenchOps
  /\ \A k \in 1..3 : Stats(k) \in BenchOps
  /\ {Fill, Verify, Clear} \subseteq BenchOps
BY DEF BenchOps, Pipe, Figure, Malloc, Start, Stop, Stats, Fill, Verify, Clear

LEMMA PiecesAre ==
  /\ Once("seconds") \in Pieces /\ Once("cpu") \in Pieces /\ Zlib \in Pieces
  /\ \A k \in 1..3 : Function(k) \in Pieces
<1>1. \A k \in 1..3 : k * Times \in Nat
  BY BenchAssumption
<1> QED BY <1>1 DEF Once, Zlib, Function, Piece, Pieces

LEMMA TimedIs ==
  ASSUME NEW p \in Pieces
  PROVE  Part(Timed(p), Start(p), Stop(p))
<1>1. Start(p) \in BenchOps /\ Stop(p) \in BenchOps /\ Follows(Start(p), Stop(p))
  BY OpsAre DEF Follows, Start, Stop
<1> QED BY <1>1, PairIs DEF Timed

LEMMA PartsAre ==
  /\ Part(cpuNumCheck, Pipe(TRUE), Figure(TRUE))
  /\ Part(cpuPerformCheck, Pipe(TRUE), Figure(FALSE))
  /\ Part(memoryFuncCheck, Pipe(FALSE), Figure(FALSE))
  /\ Part(memoryErrorCheck, Malloc(TRUE), Verify)
  /\ Part(<<Clear>>, Clear, Clear)
<1>1. \A a, b \in BOOLEAN : Follows(Pipe(a), Figure(b))
  BY DEF Follows, Pipe, Figure
<1>2. Part(cpuNumCheck, Pipe(TRUE), Figure(TRUE))
  BY <1>1, PairIs, OpsAre DEF cpuNumCheck
<1>3. Part(cpuPerformCheck, Pipe(TRUE), Figure(FALSE))
  BY <1>1, PairIs, OpsAre DEF cpuPerformCheck
<1>4. Part(memoryFuncCheck, Pipe(FALSE), Figure(FALSE))
  BY <1>1, PairIs, OpsAre DEF memoryFuncCheck
<1>5. Part(memoryErrorCheck, Malloc(TRUE), Verify)
  <2>1. Follows(Malloc(TRUE), Fill) /\ Follows(Fill, Verify)
    BY DEF Follows, Malloc, Fill, Verify
  <2> QED BY <2>1, TripleIs, OpsAre DEF memoryErrorCheck
<1>6. Part(<<Clear>>, Clear, Clear)
  BY OneIs, OpsAre
<1> QED BY <1>2, <1>3, <1>4, <1>5, <1>6

(* Each loop starts with as many times taken as the one before ends with.  *)
LEMMA BandIs ==
  Part(memoryBandWidthCheck, Malloc(FALSE), Stats(3))
<1> DEFINE f(k) == Timed(Function(k))
           a == <<Malloc(FALSE)>> \o f(1)
           b == a \o f(2)
           c == b \o f(3)
           d == <<Stats(1), Stats(2), Stats(3)>>
<1>1. /\ Part(f(1), Start(Function(1)), Stop(Function(1)))
      /\ Part(f(2), Start(Function(2)), Stop(Function(2)))
      /\ Part(f(3), Start(Function(3)), Stop(Function(3)))
  <2>1. \A k \in 1..3 : Part(f(k), Start(Function(k)), Stop(Function(k)))
    BY PiecesAre, TimedIs
  <2> QED BY <2>1
<1>2. Part(<<Malloc(FALSE)>>, Malloc(FALSE), Malloc(FALSE))
  BY OneIs, OpsAre
<1>3. Part(d, Stats(1), Stats(3))
  <2>1. Follows(Stats(1), Stats(2)) /\ Follows(Stats(2), Stats(3))
    BY DEF Follows, Stats
  <2>2. Stats(1) \in BenchOps /\ Stats(2) \in BenchOps /\ Stats(3) \in BenchOps
    BY OpsAre
  <2> QED BY <2>1, <2>2, TripleIs
<1>4. /\ Function(1).until = Times /\ Function(2).until = 2 * Times
      /\ Function(3).until = 3 * Times /\ Times \in Nat \ {0}
  BY BenchAssumption DEF Function, Piece
<1>5. /\ Follows(Malloc(FALSE), Start(Function(1)))
      /\ Follows(Stop(Function(1)), Start(Function(2)))
      /\ Follows(Stop(Function(2)), Start(Function(3)))
      /\ Follows(Stop(Function(3)), Stats(1))
  BY <1>4 DEF Follows, Malloc, Start, Stop, Stats
<1>6. memoryBandWidthCheck = c \o d
  BY DEF memoryBandWidthCheck
<1> HIDE DEF f, d
<1>7. Part(a, Malloc(FALSE), Stop(Function(1)))
  BY <1>1, <1>2, <1>5, Joins
<1> HIDE DEF a
<1>8. Part(b, Malloc(FALSE), Stop(Function(2)))
  BY <1>1, <1>5, <1>7, Joins
<1> HIDE DEF b
<1>9. Part(c, Malloc(FALSE), Stop(Function(3)))
  BY <1>1, <1>5, <1>8, Joins
<1> HIDE DEF c
<1> QED BY <1>3, <1>5, <1>6, <1>9, Joins

(* Joining the functions of the programs                                   *)
LEMMA JoinsAre ==
  /\ Follows(Figure(TRUE), Pipe(TRUE)) /\ Follows(Figure(FALSE), Pipe(FALSE))
  /\ Follows(Figure(FALSE), Malloc(FALSE)) /\ Follows(Stats(3), Malloc(TRUE))
  /\ Follows(Figure(FALSE), Start(Once("seconds")))
  /\ Follows(Stop(Once("seconds")), Start(Once("seconds")))
  /\ Follows(Malloc(TRUE), Start(Zlib)) /\ Follows(Stop(Zlib), Start(Zlib))
  /\ Follows(Stop(Zlib), Figure(TRUE))
  /\ \A x \in {Figure(TRUE), Figure(FALSE), Stats(3), Verify, Stop(Once("seconds")),
               Stop(Once("cpu"))} : Follows(x, Clear)
BY DEF Follows, Pipe, Figure, Malloc, Start, Stop, Stats, Verify, Clear, Once, Zlib, Piece

LEMMA cpuTestIs == Part(cpuTestMain, Pipe(TRUE), Clear)
<1> DEFINE a == cpuNumCheck \o cpuPerformCheck
           b == a \o cpuIPSCheck
           c == b \o cpuFPCheck
<1>1. /\ Part(cpuIPSCheck, Start(Once("seconds")), Stop(Once("seconds")))
      /\ Part(cpuFPCheck, Start(Once("seconds")), Stop(Once("seconds")))
  BY TimedIs, PiecesAre DEF cpuIPSCheck, cpuFPCheck
<1>2. cpuTestMain = c \o <<Clear>>
  BY DEF cpuTestMain
<1>3. Part(a, Pipe(TRUE), Figure(FALSE))
  BY PartsAre, JoinsAre, Joins
<1> HIDE DEF a
<1>4. Part(b, Pipe(TRUE), Stop(Once("seconds")))
  BY <1>1, <1>3, JoinsAre, Joins
<1> HIDE DEF b
<1>5. Part(c, Pipe(TRUE), Stop(Once("seconds")))
  BY <1>1, <1>4, JoinsAre, Joins
<1> HIDE DEF c
<1> QED BY <1>2, <1>5, PartsAre, JoinsAre, Joins

LEMMA memTestIs == Part(memTestMain, Pipe(FALSE), Clear)
<1> DEFINE a == memoryFuncCheck \o memoryBandWidthCheck
           b == a \o memoryErrorCheck
<1>1. memTestMain = b \o <<Clear>>
  BY DEF memTestMain
<1>2. Part(a, Pipe(FALSE), Stats(3))
  BY PartsAre, BandIs, JoinsAre, Joins
<1> HIDE DEF a
<1>3. Part(b, Pipe(FALSE), Verify)
  BY <1>2, PartsAre, JoinsAre, Joins
<1> HIDE DEF b
<1> QED BY <1>1, <1>3, PartsAre, JoinsAre, Joins

LEMMA effortIs == Part(effortMain, Pipe(TRUE), Clear)
<1> DEFINE a == cpuNumCheck \o cpuPerformCheck
           b == a \o memoryFuncCheck
<1>1. effortMain = b \o <<Clear>>
  BY DEF effortMain
<1>2. Part(a, Pipe(TRUE), Figure(FALSE))
  BY PartsAre, JoinsAre, Joins
<1> HIDE DEF a
<1>3. Part(b, Pipe(TRUE), Figure(FALSE))
  BY <1>2, PartsAre, JoinsAre, Joins
<1> HIDE DEF b
<1> QED BY <1>1, <1>3, PartsAre, JoinsAre, Joins

LEMMA ShortOnesAre ==
  /\ Part(cpuMain, Pipe(TRUE), Clear)
  /\ Part(ipsMain, Start(Once("cpu")), Clear)
  /\ Part(primeMain, Start(Once("cpu")), Clear)
  /\ Part(memErrorMain, Malloc(TRUE), Clear)
  /\ Part(bandWidthMain, Malloc(FALSE), Clear)
<1>1. Part(Timed(Once("cpu")), Start(Once("cpu")), Stop(Once("cpu")))
  BY TimedIs, PiecesAre
<1>2. Part(cpuMain, Pipe(TRUE), Clear)
  BY PartsAre, JoinsAre, Joins DEF cpuMain
<1>3. /\ Part(ipsMain, Start(Once("cpu")), Clear)
      /\ Part(primeMain, Start(Once("cpu")), Clear)
  BY <1>1, PartsAre, JoinsAre, Joins DEF ipsMain, primeMain
<1>4. Part(memErrorMain, Malloc(TRUE), Clear)
  BY PartsAre, JoinsAre, Joins DEF memErrorMain
<1>5. Part(bandWidthMain, Malloc(FALSE), Clear)
  BY BandIs, PartsAre, JoinsAre, Joins DEF bandWidthMain
<1> QED BY <1>2, <1>3, <1>4, <1>5

LEMMA compressIs == Part(compressMain, Malloc(TRUE), Clear)
<1> DEFINE a == <<Malloc(TRUE)>> \o Timed(Zlib)
           b == a \o Timed(Zlib)
           c == <<Figure(TRUE), Clear>>
<1>1. Part(Timed(Zlib), Start(Zlib), Stop(Zlib))
  BY TimedIs, PiecesAre
<1>2. Part(<<Malloc(TRUE)>>, Malloc(TRUE), Malloc(TRUE))
  BY OneIs, OpsAre
<1>3. Part(c, Figure(TRUE), Clear)
  BY PairIs, OpsAre, JoinsAre
<1>4. compressMain = b \o c
  BY DEF compressMain
<1> HIDE DEF c
<1>5. Part(a, Malloc(TRUE), Stop(Zlib))
  BY <1>1, <1>2, JoinsAre, Joins
<1> HIDE DEF a
<1>6. Part(b, Malloc(TRUE), Stop(Zlib))
  BY <1>1, <1>5, JoinsAre, Joins
<1> HIDE DEF b
<1> QED BY <1>3, <1>4, <1>6, JoinsAre, Joins

(* All the programs                                                        *)
LEMMA ProgramsAre ==
  ASSUME NEW b \in DOMAIN Work
  PROVE  Program(Work[b])
<1>1. ASSUME NEW s, NEW x, Part(s, x, Clear), Opening(x) PROVE Program(s)
  BY <1>1 DEF Part, Program
<1>2. /\ \A c \in BOOLEAN : Opening(Pipe(c)) /\ Opening(Malloc(c))
      /\ Opening(Start(Once("cpu")))
  BY DEF Opening, Pipe, Malloc, Start, Once, Piece
<1>3. /\ Program(cpuTestMain) /\ Program(memTestMain) /\ Program(effortMain)
      /\ Program(cpuMain) /\ Program(ipsMain) /\ Program(primeMain)
      /\ Program(memErrorMain) /\ Program(bandWidthMain) /\ Program(compressMain)
  BY <1>1, <1>2, cpuTestIs, memTestIs, effortIs, ShortOnesAre, compressIs
<1> QED BY <1>3, cpuTestIs, ShortOnesAre, compressIs DEF Work

-----------------------------------------------------------------------------
(* Where a program is, and what comes before and after                     *)
LEMMA PlaceIs ==
  ASSUME BenchTypeOK
  PROVE  /\ at \in Nat /\ at >= 1 /\ This \in BenchOps
         /\ This.op # "clear" => at + 1 \in DOMAIN Work[bench]
                                /\ Follows(This, Work[bench][at + 1])
         /\ at > 1 => at - 1 \in DOMAIN Work[bench]
                      /\ Follows(Work[bench][at - 1], This)
         /\ at = 1 => Opening(This)
<1> DEFINE s == Work[bench]
           n == Len(s)
<1>1. Program(s)
  BY ProgramsAre, BenchAssumption DEF BenchTypeOK
<1>2. /\ s \in Seq(BenchOps) /\ n \in Nat /\ n >= 1 /\ DOMAIN s = 1..n
      /\ Opening(s[1]) /\ s[n] = Clear
      /\ \A i \in 1..n - 1 : Follows(s[i], s[i + 1])
  BY <1>1 DEF Program, Chain
<1>3. at \in 1..n
  BY <1>2 DEF BenchTypeOK
<1> HIDE DEF n
<1>4. This = s[at]
  BY DEF This
<1> HIDE DEF s
<1>5. This \in BenchOps
  BY <1>2, <1>3, <1>4
<1>6. This.op # "clear" => at \in 1..n - 1
  BY <1>2, <1>3, <1>4 DEF Clear
<1>7. at > 1 => /\ at - 1 \in 1..n - 1 /\ at - 1 \in 1..n /\ (at - 1) + 1 = at
                /\ Follows(s[at - 1], s[at])
  <2>1. at > 1 => at - 1 \in 1..n - 1 /\ at - 1 \in 1..n /\ (at - 1) + 1 = at
    BY <1>2, <1>3
  <2>2. at > 1 => Follows(s[at - 1], s[(at - 1) + 1])
    BY <1>2, <2>1
  <2> QED BY <2>1, <2>2
<1>8. at \in 1..n - 1 => at + 1 \in 1..n /\ Follows(s[at], s[at + 1])
  BY <1>2, <1>3
<1> QED BY <1>2, <1>3, <1>4, <1>5, <1>6, <1>7, <1>8 DEF s

LEMMA GoesOn ==
  ASSUME BenchTypeOK, This.op # "clear", bench' = bench, at' = at + 1
  PROVE  /\ at' \in DOMAIN Work[bench'] /\ This' \in BenchOps
         /\ Follows(This, This')
         /\ This'.op = "clear" /\ HasVerify' => This.op = "verify"
<1>1. at + 1 \in DOMAIN Work[bench] /\ Follows(This, Work[bench][at + 1])
  BY PlaceIs
<1>2. This' = Work[bench][at + 1]
  BY DEF This
<1>3. Program(Work[bench])
  BY ProgramsAre, BenchAssumption DEF BenchTypeOK
<1>4. This' \in BenchOps
  BY <1>1, <1>2, <1>3 DEF Program, Chain
<1>5. HasVerify' = HasVerify
  BY DEF HasVerify
<1>6. ASSUME This'.op = "clear", NEW i \in DOMAIN Work[bench], Work[bench][i] = Verify
      PROVE  This.op = "verify"
  <2> DEFINE s == Work[bench]
             n == Len(s)
  <2>1. /\ n \in Nat /\ DOMAIN s = 1..n /\ s[n].op = "clear"
        /\ \A j \in 1..n - 1 : Follows(s[j], s[j + 1])
    BY <1>3 DEF Program, Chain, Clear
  <2>2. s[i].op = "verify" /\ s[at + 1].op = "clear" /\ This = s[at]
    BY <1>2, <1>6 DEF Verify, This
  <2>3. i \in 1..n /\ at + 1 \in 1..n /\ at \in Nat
    BY <1>1, <1>6, <2>1, PlaceIs
  <2> HIDE DEF n, s
  <2>4. i # n /\ i \in 1..n - 1
    BY <2>1, <2>2, <2>3
  <2>5. s[i + 1].op = "clear"
    BY <2>1, <2>2, <2>4 DEF Follows
  <2>6. \A j \in 1..n - 1 : s[j].op # "clear"
    BY <2>1 DEF Follows
  <2>7. ~(i + 1 \in 1..n - 1) /\ ~(at + 1 \in 1..n - 1)
    BY <2>2, <2>5, <2>6
  <2>8. i = at
    BY <2>1, <2>3, <2>4, <2>7
  <2> QED BY <2>2, <2>8
<1> QED BY <1>1, <1>2, <1>4, <1>5, <1>6 DEF HasVerify

LEMMA GoesBack ==
  ASSUME BenchTypeOK, This.op = "stop", bench' = bench, at' = at - 1
  PROVE  /\ at' \in DOMAIN Work[bench'] /\ This'.op = "start"
         /\ This'.piece = This.piece
<1>1. at > 1
  BY PlaceIs DEF Opening
<1>2. This' = Work[bench][at - 1]
  BY DEF This
<1> QED BY <1>1, <1>2, PlaceIs DEF Follows

LEMMA StaysThere ==
  ASSUME bench' = bench, at' = at
  PROVE  This' = This /\ HasVerify' = HasVerify
BY DEF This, HasVerify

(* What a step leaves alone, where it does not move                        *)
LEMMA Frames ==
  ASSUME BenchInv, bench' = bench, at' = at
  PROVE  /\ UNCHANGED <<time, mark, truth, shift>> => LapInv'
         /\ UNCHANGED laps => CountedInv'
         /\ UNCHANGED <<laps, table>> => StatsInv'
         /\ UNCHANGED memory => CellInv'
         /\ UNCHANGED <<outcome, content, cell>> => OutcomeInv'
<1>1. This' = This /\ HasVerify' = HasVerify
  BY StaysThere
<1>2. LapInv /\ CountedInv /\ StatsInv /\ CellInv /\ OutcomeInv
  BY DEF BenchInv
<1>3. UNCHANGED <<time, mark, truth, shift>> => LapInv'
  BY <1>1, <1>2 DEF LapInv, time
<1>4. UNCHANGED laps => CountedInv'
  BY <1>1, <1>2 DEF CountedInv
<1>5. UNCHANGED <<laps, table>> => StatsInv'
  <2> SUFFICES ASSUME UNCHANGED <<laps, table>> PROVE StatsInv'
    OBVIOUS
  <2>1. /\ \A k, n : Extreme(k, n)' = Extreme(k, n)
        /\ StatsAreTrue' = StatsAreTrue
    BY <1>1 DEF Extreme, StatsAreTrue, TimeOf, table
  <2> QED BY <1>1, <1>2, <2>1 DEF StatsInv, table
<1>6. UNCHANGED memory => CellInv'
  BY <1>1, <1>2 DEF CellInv, Noticeable, memory
<1>7. UNCHANGED <<outcome, content, cell>> => OutcomeInv'
  BY <1>1, <1>2 DEF OutcomeInv
<1> QED BY <1>3, <1>4, <1>5, <1>6, <1>7

LEMMA LapsStay ==
  ASSUME BenchInv, UNCHANGED <<laps, truth, shift, read>> \/ laps' = <<>> \/ truth' < 0,
         truth' \in Int
  PROVE  LapsAreTrue'
<1>1. LapsAreTrue
  BY DEF BenchInv
<1>2. CASE UNCHANGED <<laps, truth, shift, read>>
  BY <1>1, <1>2 DEF LapsAreTrue
<1>3. CASE laps' = <<>> \/ truth' < 0
  BY <1>3 DEF LapsAreTrue
<1> QED BY <1>2, <1>3

(* What holds anew at the step y when x is done, if that changes neither   *)
(* the clocks nor the times and ends no loop                               *)
LEMMA Arrives ==
  ASSUME BenchInv, bench' = bench, at' = at + 1,
         This.op \in {"popen", "malloc", "figure", "fill", "verify"},
         UNCHANGED <<time, shift, looked>>,
         stats' = <<>> \/ (UNCHANGED stats /\ This.op # "malloc"),
         laps' = <<>> \/ (UNCHANGED laps /\ This.op # "malloc")
  PROVE  /\ at' \in DOMAIN Work[bench'] /\ This'.op \notin {"stop", "stats"}
         /\ LapInv' /\ CountedInv' /\ StatsInv'
<1>1. BenchTypeOK /\ LapInv /\ CountedInv /\ StatsInv
  BY DEF BenchInv
<1>2. /\ at' \in DOMAIN Work[bench'] /\ This' \in BenchOps /\ Follows(This, This')
  BY <1>1, GoesOn
<1>3. /\ This'.op \notin {"stop", "stats"}
      /\ This'.op = "start" =>
           This'.piece.until = 0 \/ (This.op = "malloc" /\ This'.piece.until = Times)
  BY <1>2 DEF Follows
<1>4. LapInv'
  BY <1>1, <1>3 DEF LapInv, time
<1>5. CountedInv'
  <2>1. This'.op = "start" /\ This'.piece.until > 0 =>
          laps' = <<>> /\ This'.piece.until = Times
    BY <1>3
  <2>2. Times \in Nat \ {0}
    BY BenchAssumption
  <2>3. laps' = <<>> => Len(laps') = 0
    OBVIOUS
  <2> QED BY <1>3, <2>1, <2>2, <2>3 DEF CountedInv
<1>6. StatsInv'
  <2>1. looked = 0 /\ (stats # <<>> => This.op = "malloc")
    BY <1>1 DEF StatsInv
  <2>2. looked' = 0 /\ stats' = <<>>
    BY <2>1
  <2> QED BY <1>3, <2>2 DEF StatsInv
<1> QED BY <1>2, <1>3, <1>4, <1>5, <1>6

-----------------------------------------------------------------------------
(* The steps of the benchmarks and of the world around them                *)
LEMMA TickStep ==
  ASSUME BenchInv, Tick
  PROVE  BenchInv'
<1>1. /\ BenchTypeOK /\ LapInv /\ bench' = bench /\ at' = at /\ This.op = "stop"
      /\ UNCHANGED <<lap, memory, table, outcome, set>>
      /\ took < MaxTicks /\ took' = took + 1 /\ wall' = wall + 1
      /\ cpu' \in {cpu, cpu + 1}
  BY DEF BenchInv, Tick, Running
<1>2. This' = This
  BY <1>1, StaysThere
<1>3. took \in Nat /\ wall \in Int /\ cpu \in 0..took /\ MaxTicks \in Nat
  BY <1>1, BenchAssumption DEF BenchTypeOK
<1>4. /\ took' \in 0..MaxTicks /\ wall' \in Int /\ cpu' \in 0..took'
      /\ shift' = shift /\ wall' - took' - shift' = wall - took - shift
  <2>1. shift' = shift /\ shift \in Int
    BY <1>1 DEF BenchTypeOK, lap
  <2> QED BY <1>1, <1>3, <2>1
<1>5. BenchTypeOK'
  BY <1>1, <1>4 DEF BenchTypeOK, lap, memory, table
<1>6. LapInv'
  BY <1>1, <1>2, <1>4 DEF LapInv, lap
<1>7. truth' \in Int
  BY <1>1 DEF BenchTypeOK, lap
<1> QED BY <1>1, <1>5, <1>6, <1>7, Frames, LapsStay DEF BenchInv, lap, memory

LEMMA SetClockStep ==
  ASSUME BenchInv, SetClock
  PROVE  BenchInv'
<1>1. /\ BenchTypeOK /\ LapInv /\ bench' = bench /\ at' = at /\ This.op = "stop"
      /\ UNCHANGED <<took, cpu, mark, laps, truth, read, memory, table, outcome>>
      /\ ~set /\ set' = TRUE
  BY DEF BenchInv, SetClock, Running
<1>2. This' = This
  BY <1>1, StaysThere
<1>3. PICK by \in Settings : wall' = wall + by /\ shift' = by
  BY DEF SetClock
<1>4. wall' \in Int /\ shift' \in Int
  BY <1>1, <1>3, BenchAssumption DEF BenchTypeOK
<1>5. BenchTypeOK'
  BY <1>1, <1>4 DEF BenchTypeOK, memory, table
<1>6. LapInv'
  <2>1. shift = 0
    BY <1>1 DEF LapInv
  <2>2. wall' - took' - shift' = wall - took - shift
    BY <1>1, <1>3, <1>4, <2>1 DEF BenchTypeOK
  <2> QED BY <1>1, <1>2, <2>2 DEF LapInv
<1>7. truth' = -1 /\ truth' < 0 /\ truth' \in Int
  BY <1>1 DEF LapInv
<1> QED BY <1>1, <1>5, <1>6, <1>7, Frames, LapsStay DEF BenchInv, memory

LEMMA FlipStep ==
  ASSUME BenchInv, Flip
  PROVE  BenchInv'
<1>1. /\ BenchTypeOK /\ CellInv /\ OutcomeInv
      /\ bench' = bench /\ at' = at /\ This.op = "verify"
      /\ UNCHANGED <<time, lap, fault, cell, table, outcome>> /\ outcome = "running"
  BY DEF BenchInv, Flip, Running
<1>2. PICK c \in cell..Cells, b \in {"hi", "lo"} :
        fault[c] = "none" /\ content' = [content EXCEPT ![c][b] = 1 - @]
  BY DEF Flip
<1>3. /\ content' \in [1..Cells -> [{"hi", "lo"} -> {0, 1}]]
      /\ \A d \in 1..Cells : d # c => content'[d] = content[d]
  BY <1>1, <1>2 DEF BenchTypeOK
<1>4. BenchTypeOK'
  BY <1>1, <1>3 DEF BenchTypeOK, time, lap, table
<1>5. CellInv'
  <2>1. This' = This /\ HasVerify' = HasVerify
    BY <1>1, StaysThere
  <2> QED BY <1>1, <1>2, <1>3, <2>1 DEF CellInv, Noticeable
<1>6. OutcomeInv'
  BY <1>1 DEF OutcomeInv
<1>7. truth' \in Int
  BY <1>1 DEF BenchTypeOK, lap
<1> QED BY <1>1, <1>4, <1>5, <1>6, <1>7, Frames, LapsStay DEF BenchInv, time, lap

(* A program that says how it ends stays where it is.                      *)
LEMMA EndStep ==
  ASSUME BenchInv, outcome = "running", bench' = bench, at' = at,
         UNCHANGED <<time, mark, truth, shift, read, memory, looked>>,
         outcome' \in {"clear", "error", "exit", "crash"},
         UNCHANGED <<laps, stats>>,
         OutcomeInv'
  PROVE  BenchInv'
<1>1. BenchTypeOK /\ LapInv /\ CountedInv /\ StatsInv
  BY DEF BenchInv
<1>2. This' = This /\ HasVerify' = HasVerify
  BY StaysThere
<1>3. BenchTypeOK'
  BY <1>1 DEF BenchTypeOK, time, memory
<1>4. truth' \in Int
  BY <1>1 DEF BenchTypeOK
<1> QED BY <1>3, <1>4, Frames, LapsStay DEF BenchInv, table

LEMMA ObtainStep ==
  ASSUME BenchInv, Obtain
  PROVE  BenchInv'
<1>1. /\ BenchTypeOK /\ CellInv /\ bench' = bench /\ This.op \in {"popen", "malloc"}
      /\ outcome = "running"
      /\ UNCHANGED <<time, mark, truth, shift, read, memory, looked>>
  BY DEF BenchInv, Obtain, Running
<1>2. CASE Onward /\ laps' = <<>> /\ stats' = <<>>
  <2>1. /\ at' \in DOMAIN Work[bench'] /\ This'.op \notin {"stop", "stats"}
        /\ LapInv' /\ CountedInv' /\ StatsInv'
    BY <1>1, <1>2, Arrives DEF Onward
  <2>2. Follows(This, This') /\ (This'.op = "clear" /\ HasVerify' => This.op = "verify")
    BY <1>1, <1>2, GoesOn DEF Onward
  <2>3. This'.op # "verify"
    BY <1>1, <2>2 DEF Follows
  <2>4. CellInv'
    BY <1>1, <2>2, <2>3 DEF CellInv, Noticeable, memory
  <2>5. <<>> \in [1..0 -> [min : Int, max : Int]] /\ 0 \in 0..3 /\ <<>> \in Seq(Int)
    OBVIOUS
  <2>6. BenchTypeOK'
    BY <1>1, <1>2, <2>1, <2>5 DEF BenchTypeOK, time, memory, Onward
  <2>7. truth' \in Int
    BY <1>1 DEF BenchTypeOK
  <2>8. OutcomeInv'
    BY <1>1, <1>2 DEF OutcomeInv, Onward
  <2> QED BY <1>1, <1>2, <2>1, <2>4, <2>6, <2>7, <2>8, LapsStay DEF BenchInv
<1>3. CASE Over(AfterNull(This)) /\ UNCHANGED <<laps, stats>>
  <2>1. /\ at' = at /\ This' = This
        /\ \/ outcome' = "exit" /\ This.checked
           \/ outcome' = "crash" /\ ~This.checked
    BY <1>1, <1>3, StaysThere DEF Over, AfterNull
  <2>2. OutcomeInv'
    BY <1>1, <2>1 DEF OutcomeInv
  <2> QED BY <1>1, <1>3, <2>1, <2>2, EndStep
<1> QED BY <1>2, <1>3 DEF Obtain

LEMMA FigureStep ==
  ASSUME BenchInv, ReadFigure
  PROVE  BenchInv'
<1>1. /\ BenchTypeOK /\ CellInv /\ bench' = bench /\ This.op = "figure"
      /\ outcome = "running" /\ UNCHANGED <<time, lap, memory, table>>
  BY DEF BenchInv, ReadFigure, Running
<1>2. CASE Onward
  <2>1. /\ at' \in DOMAIN Work[bench'] /\ This'.op \notin {"stop", "stats"}
        /\ LapInv' /\ CountedInv' /\ StatsInv'
    BY <1>1, <1>2, Arrives DEF Onward, lap, table
  <2>2. Follows(This, This') /\ (This'.op = "clear" /\ HasVerify' => This.op = "verify")
    BY <1>1, <1>2, GoesOn DEF Onward
  <2>3. This'.op # "verify"
    BY <1>1, <2>2 DEF Follows
  <2>4. CellInv'
    BY <1>1, <2>2, <2>3 DEF CellInv, Noticeable, memory
  <2>5. BenchTypeOK'
    BY <1>1, <1>2, <2>1 DEF BenchTypeOK, time, lap, memory, table, Onward
  <2>6. truth' \in Int
    BY <1>1 DEF BenchTypeOK, lap
  <2>7. OutcomeInv'
    BY <1>1, <1>2 DEF OutcomeInv, Onward
  <2> QED BY <1>1, <2>1, <2>4, <2>5, <2>6, <2>7, LapsStay DEF BenchInv, lap
<1>3. CASE Over("exit")
  <2>1. at' = at /\ This' = This /\ outcome' = "exit"
    BY <1>3, <1>1, StaysThere DEF Over
  <2>2. OutcomeInv'
    BY <1>1, <2>1 DEF OutcomeInv
  <2>3. UNCHANGED <<time, mark, truth, shift, read, memory, looked>> /\ UNCHANGED <<laps, stats>>
    BY <1>1 DEF lap, table
  <2> QED BY <1>1, <2>1, <2>2, <2>3, EndStep
<1> QED BY <1>2, <1>3 DEF ReadFigure

LEMMA LastSteps ==
  ASSUME BenchInv, PieceFails \/ SayClear
  PROVE  BenchInv'
<1>1. /\ bench' = bench /\ at' = at /\ This' = This /\ outcome = "running"
      /\ UNCHANGED <<time, lap, memory, table>>
      /\ \/ outcome' = "exit" /\ This.op = "stop"
         \/ outcome' = "clear" /\ This.op = "clear"
  BY StaysThere DEF PieceFails, SayClear, Running, Over
<1>2. OutcomeInv'
  BY <1>1 DEF OutcomeInv
<1>3. UNCHANGED <<time, mark, truth, shift, read, memory, looked>> /\ UNCHANGED <<laps, stats>>
  BY <1>1 DEF lap, table
<1>4. bench' = bench /\ at' = at /\ outcome' \in {"clear", "error", "exit", "crash"}
  BY <1>1
<1> QED BY <1>1, <1>2, <1>3, <1>4, EndStep

LEMMA ReadingIs ==
  ASSUME BenchTypeOK, NEW c \in {"wall", "seconds", "cpu"}
  PROVE  Reading(c) \in Int
<1>1. wall \in Int /\ cpu \in Int /\ Second \in Nat \ {0}
  BY BenchAssumption DEF BenchTypeOK
<1>2. wall \div Second \in Int
  BY <1>1
<1> QED BY <1>1, <1>2 DEF Reading

(* Whole seconds at both ends are less than a second off.                  *)
LEMMA WholeSeconds ==
  ASSUME NEW S \in Nat \ {0}, NEW v \in Int, NEW w \in Int
  PROVE  ((w \div S) - (v \div S)) * S \in (w - v) - S + 1..(w - v) + S - 1
<1> DEFINE a == w \div S
           b == v \div S
<1>1. /\ a \in Int /\ a * S <= w /\ w <= (a * S) + S - 1
      /\ b \in Int /\ b * S <= v /\ v <= (b * S) + S - 1
  <2>1. \A x \in Int : /\ x \div S \in Int /\ x % S \in 0..S - 1
                       /\ x = (S * (x \div S)) + (x % S)
    OBVIOUS
  <2>2. \A x \in Int : S * (x \div S) = (x \div S) * S /\ S * (x \div S) \in Int
    BY <2>1
  <2> QED BY <2>1, <2>2
<1> HIDE DEF a, b
<1>2. (a - b) * S = (a * S) - (b * S) /\ a * S \in Int /\ b * S \in Int
  BY <1>1
<1>3. (a - b) * S \in (w - v) - S + 1..(w - v) + S - 1
  BY <1>1, <1>2
<1> QED BY <1>3 DEF a, b

LEMMA StartStep ==
  ASSUME BenchInv, StartLap
  PROVE  BenchInv'
<1>1. /\ BenchTypeOK /\ LapInv /\ CountedInv /\ StatsInv /\ CellInv /\ OutcomeInv
      /\ bench' = bench /\ at' = at + 1 /\ This.op = "start" /\ outcome = "running"
      /\ mark' = Reading(This.piece.clock) /\ truth' = -1 /\ shift' = 0
      /\ UNCHANGED <<time, laps, read, memory, table, outcome>>
  BY DEF BenchInv, StartLap, Running, Onward
<1>2. /\ at' \in DOMAIN Work[bench'] /\ This' \in BenchOps /\ This \in BenchOps
      /\ This'.op = "stop" /\ This'.piece = This.piece
  BY <1>1, GoesOn, PlaceIs DEF Follows
<1>3. This.piece.clock \in {"wall", "seconds", "cpu"}
  BY <1>1, <1>2, OpOf
<1>4. mark' \in Int /\ truth' \in Nat \union {-1} /\ shift' \in Int
  BY <1>1, <1>3, ReadingIs
<1>5. BenchTypeOK'
  BY <1>1, <1>2, <1>4 DEF BenchTypeOK, time, memory, table
<1>6. took = 0 /\ cpu = 0 /\ wall >= 0 /\ wall \in Int
  BY <1>1 DEF LapInv, BenchTypeOK
<1>7. LapInv'
  <2>1. wall' - took' - shift' = wall
    BY <1>1, <1>6 DEF time
  <2> QED BY <1>1, <1>2, <1>3, <1>6, <2>1 DEF LapInv, Reading, time
<1>8. CountedInv'
  BY <1>1, <1>2 DEF CountedInv
<1>9. StatsInv'
  BY <1>1, <1>2 DEF StatsInv, table
<1>10. CellInv'
  BY <1>1, <1>2 DEF CellInv, Noticeable, memory
<1>11. OutcomeInv'
  BY <1>1 DEF OutcomeInv
<1> QED BY <1>1, <1>5, <1>7, <1>8, <1>9, <1>10, <1>11, LapsStay DEF BenchInv

LEMMA LapIsTrue ==
  ASSUME BenchInv, StopLap
  PROVE  LapsAreTrue'
<1> DEFINE c == This.piece.clock
           d == Elapsed(c)
           t == took + shift
<1>1. /\ BenchTypeOK /\ LapInv /\ This.op = "stop" /\ This \in BenchOps
      /\ laps' = Append(laps, d) /\ read' = c
      /\ truth' = took /\ shift' = shift
  BY PlaceIs DEF BenchInv, StopLap, Running
<1>2. /\ c \in {"wall", "seconds", "cpu"} /\ laps \in Seq(Int) /\ mark \in Int
      /\ wall \in Int /\ took \in Nat /\ shift \in Int
      /\ cpu \in 0..took /\ Second \in Nat \ {0}
  BY <1>1, OpOf, BenchAssumption DEF BenchTypeOK
<1>3. d \in Int
  BY <1>1, <1>2, ReadingIs DEF Elapsed
<1> HIDE DEF d
<1>4. laps'[Len(laps')] = d /\ truth' + shift' = t
  BY <1>1, <1>2, <1>3
<1>5. CASE c = "wall"
  <2>1. mark = wall - took - shift
    BY <1>1, <1>5 DEF LapInv
  <2>2. d = t
    BY <1>2, <1>5, <2>1 DEF d, Elapsed, Reading
  <2> QED BY <1>1, <1>4, <1>5, <2>2 DEF LapsAreTrue
<1>6. CASE c = "cpu"
  <2>1. mark = 0
    BY <1>1, <1>6 DEF LapInv
  <2>2. d = cpu
    BY <1>2, <1>6, <2>1 DEF d, Elapsed, Reading
  <2> QED BY <1>1, <1>2, <1>4, <1>6, <2>2 DEF LapsAreTrue
<1>7. CASE c = "seconds"
  <2>1. mark = (wall - took - shift) \div Second
    BY <1>1, <1>7 DEF LapInv
  <2>2. d = (wall \div Second) - ((wall - took - shift) \div Second)
    BY <1>2, <1>7, <2>1 DEF d, Elapsed, Reading
  <2>3. wall - took - shift \in Int /\ wall - (wall - took - shift) = t
    BY <1>2
  <2>4. d * Second \in t - Second + 1..t + Second - 1
    BY <1>2, <2>2, <2>3, WholeSeconds
  <2> QED BY <1>1, <1>4, <1>7, <2>4 DEF LapsAreTrue
<1> QED BY <1>2, <1>5, <1>6, <1>7

LEMMA StopStep ==
  ASSUME BenchInv, StopLap
  PROVE  BenchInv'
<1> DEFINE p == This.piece
           d == Elapsed(p.clock)
           l == Len(laps)
<1>1. /\ BenchTypeOK /\ LapInv /\ CountedInv /\ StatsInv /\ CellInv /\ OutcomeInv
      /\ bench' = bench /\ This.op = "stop" /\ This \in BenchOps /\ outcome = "running"
      /\ laps' = Append(laps, d) /\ read' = p.clock
      /\ truth' = took
      /\ took' = 0 /\ cpu' = 0 /\ wall' \in 0..Second - 1
      /\ at' = IF Len(laps') < p.until THEN at - 1 ELSE at + 1
      /\ UNCHANGED <<set, mark, shift, memory, table, outcome>>
  BY PlaceIs DEF BenchInv, StopLap, Running
<1>2. /\ p.clock \in {"wall", "seconds", "cpu"} /\ p.until \in Nat
      /\ Times \in Nat \ {0} /\ MaxTicks \in Nat /\ Second \in Nat /\ took \in Nat
      /\ laps \in Seq(Int) /\ mark \in Int
  BY <1>1, OpOf, BenchAssumption DEF BenchTypeOK
<1>3. d \in Int
  BY <1>1, <1>2, ReadingIs DEF Elapsed
<1> HIDE DEF d
<1>4. laps' \in Seq(Int) /\ Len(laps') = l + 1 /\ l \in Nat
  BY <1>1, <1>2, <1>3
<1> HIDE DEF l
<1>5. wall' >= 0 /\ wall' \in Int /\ cpu' \in 0..took' /\ took' \in 0..MaxTicks
      /\ truth' \in Nat \union {-1}
  BY <1>1, <1>2
<1>6. looked = 0 /\ stats = <<>> /\ cell = 1
  BY <1>1 DEF StatsInv, CellInv
<1>7. p.until > 0 => l \in p.until - Times..p.until - 1
  <2> HIDE DEF p
  <2>1. This.op \in {"start", "stop"} /\ (p.until > 0 => This.piece.until > 0)
    BY <1>1 DEF p
  <2> QED BY <1>1, <2>1 DEF CountedInv, l, p
<1>8. /\ at' \in DOMAIN Work[bench'] /\ This'.op \notin {"stop", "verify"}
      /\ CountedInv' /\ StatsInv'
      /\ This'.op = "clear" => ~HasVerify'
  <2>1. CASE Len(laps') < p.until
    <3>1. at' \in DOMAIN Work[bench'] /\ This'.op = "start" /\ This'.piece = p
      BY <1>1, <2>1, GoesBack
    <3>2. CountedInv'
      <4>1. Len(laps') \in p.until - Times..p.until - 1
        <5>1. p.until > 0 /\ l + 1 < p.until
          BY <1>2, <1>4, <2>1
        <5> QED BY <1>2, <1>4, <1>7, <5>1
      <4> QED BY <3>1, <4>1 DEF CountedInv
    <3>3. StatsInv'
      BY <1>1, <1>6, <3>1 DEF StatsInv, table
    <3> QED BY <3>1, <3>2, <3>3
  <2>2. CASE ~(Len(laps') < p.until)
    <3>1. /\ at' \in DOMAIN Work[bench'] /\ This' \in BenchOps /\ Follows(This, This')
          /\ This'.op = "clear" /\ HasVerify' => This.op = "verify"
      <4>1. at' = at + 1
        BY <1>1, <2>2
      <4> QED BY <1>1, <4>1, GoesOn
    <3>2. p.until > 0 => Len(laps') = p.until
      BY <1>2, <1>4, <1>7, <2>2
    <3>3. /\ This'.op \notin {"stop", "verify"}
          /\ This'.op = "start" => \/ This'.piece.until = 0
                                   \/ /\ p.until > 0
                                      /\ This'.piece.until = p.until + Times
          /\ This'.op = "stats" => This'.of = 1 /\ p.until = 3 * Times
      BY <1>1, <3>1 DEF Follows
    <3>4. CountedInv'
      <4> SUFFICES ASSUME This'.op = "start", This'.piece.until > 0
                   PROVE  Len(laps') \in This'.piece.until - Times..This'.piece.until - 1
        BY <3>3 DEF CountedInv
      <4>1. Len(laps') = p.until /\ This'.piece.until = p.until + Times /\ p.until \in Int
        BY <1>2, <3>2, <3>3
      <4> QED BY <1>2, <4>1
    <3>5. StatsInv'
      <4>1. /\ looked' = 0 /\ stats' = <<>> /\ DOMAIN stats' = 1..(1 - 1)
            /\ 3 * Times > 0
        BY <1>1, <1>2, <1>6 DEF table
      <4> QED BY <3>2, <3>3, <4>1 DEF StatsInv
    <3> QED BY <1>1, <3>1, <3>3, <3>4, <3>5
  <2> QED BY <2>1, <2>2
<1>9. BenchTypeOK'
  BY <1>1, <1>2, <1>4, <1>5, <1>8 DEF BenchTypeOK, memory, table
<1>10. LapInv'
  BY <1>1, <1>5, <1>8 DEF LapInv
<1>11. CellInv'
  BY <1>1, <1>6, <1>8 DEF CellInv, Noticeable, memory
<1>12. OutcomeInv'
  BY <1>1 DEF OutcomeInv
<1> QED BY <1>8, <1>9, <1>10, <1>11, <1>12, LapIsTrue DEF BenchInv

LEMMA WrittenIs ==
  ASSUME NEW f \in Faults
  PROVE  Written(f) \in [{"hi", "lo"} -> {0, 1}]
<1>1. Bit \in [{"hi", "lo"} -> {0, 1}]
  BY DEF Bit
<1>2. f # "none" => f[1] \in {"hi", "lo"} /\ f[2] \in {0, 1}
  BY DEF Faults
<1> QED BY <1>1, <1>2 DEF Written

LEMMA FillStep ==
  ASSUME BenchInv, FillCells
  PROVE  BenchInv'
<1>1. /\ BenchTypeOK /\ CellInv /\ bench' = bench /\ at' = at + 1 /\ This.op = "fill"
      /\ outcome = "running" /\ outcome' = "running"
      /\ fault' \in [1..Cells -> Faults]
      /\ content' = [c \in 1..Cells |-> Written(fault'[c])]
      /\ UNCHANGED <<time, lap, cell, table>>
  BY DEF BenchInv, FillCells, Running, Onward
<1>2. /\ at' \in DOMAIN Work[bench'] /\ LapInv' /\ CountedInv' /\ StatsInv'
  BY <1>1, Arrives DEF lap, table
<1>3. This'.op = "verify"
  BY <1>1, GoesOn DEF Follows
<1>4. content' \in [1..Cells -> [{"hi", "lo"} -> {0, 1}]]
  BY <1>1, WrittenIs
<1>5. BenchTypeOK'
  BY <1>1, <1>2, <1>4 DEF BenchTypeOK, time, lap, table
<1>6. CellInv'
  <2>1. cell' = 1 /\ cell' <= Cells
    BY <1>1, BenchAssumption DEF CellInv
  <2> QED BY <1>1, <1>3, <2>1 DEF CellInv
<1>7. OutcomeInv' /\ truth' \in Int
  BY <1>1 DEF OutcomeInv, BenchTypeOK, lap
<1> QED BY <1>1, <1>2, <1>5, <1>6, <1>7, LapsStay DEF BenchInv, lap

LEMMA VerifyStep ==
  ASSUME BenchInv, VerifyCell
  PROVE  BenchInv'
<1>1. /\ BenchTypeOK /\ CellInv /\ OutcomeInv /\ bench' = bench /\ This.op = "verify"
      /\ outcome = "running" /\ UNCHANGED <<time, lap, fault, content, table>>
  BY DEF BenchInv, VerifyCell, Running
<1>2. cell \in 1..Cells /\ Cells \in Nat /\ truth' \in Int
  BY <1>1, BenchAssumption DEF BenchTypeOK, CellInv, lap
<1>3. CASE content[cell] # Bit
  <2>1. at' = at /\ outcome' = "error" /\ cell' = cell
    BY <1>3 DEF VerifyCell, Over
  <2>2. This' = This
    BY <1>1, <2>1, StaysThere
  <2>3. OutcomeInv'
    BY <1>1, <1>3, <2>1, <2>2 DEF OutcomeInv
  <2>4. /\ UNCHANGED <<time, mark, truth, shift, read, memory, looked>>
        /\ UNCHANGED <<laps, stats>>
    BY <1>1, <2>1 DEF lap, table, memory
  <2> QED BY <1>1, <2>1, <2>3, <2>4, EndStep
<1>4. CASE content[cell] = Bit
  <2>1. /\ cell' = cell + 1 /\ outcome' = "running"
        /\ IF cell < Cells THEN at' = at ELSE at' = at + 1
    BY <1>1, <1>4 DEF VerifyCell, Onward, LastCell
  <2>2. \A c \in 1..cell' - 1 : ~Noticeable(c)'
    <3>1. \A c \in 1..cell' - 1 : c \in 1..cell - 1 \/ c = cell
      BY <1>2, <2>1
    <3>2. ~Noticeable(cell)
      BY <1>1, <1>2, <1>4 DEF CellInv, Noticeable
    <3>3. \A c \in 1..Cells : Noticeable(c)' = Noticeable(c)
      BY <1>1 DEF Noticeable
    <3>4. \A c \in 1..cell' - 1 : c \in 1..Cells
      BY <1>2, <2>1
    <3> QED BY <1>1, <3>1, <3>2, <3>3, <3>4 DEF CellInv
  <2>3. cell' \in 1..Cells + 1
    BY <1>2, <2>1
  <2>4. OutcomeInv'
    BY <2>1 DEF OutcomeInv
  <2>5. CASE cell < Cells
    <3>1. at' = at /\ This' = This /\ HasVerify' = HasVerify
      BY <1>1, <2>1, <2>5, StaysThere
    <3>2. cell' <= Cells
      BY <1>2, <2>1, <2>5
    <3>3. CellInv'
      BY <1>1, <2>2, <3>1, <3>2 DEF CellInv
    <3>4. BenchTypeOK'
      BY <1>1, <2>1, <2>3, <3>1 DEF BenchTypeOK, time, lap, table
    <3> QED BY <1>1, <1>2, <2>4, <3>1, <3>3, <3>4, Frames, LapsStay DEF BenchInv, lap
  <2>6. CASE ~(cell < Cells)
    <3>1. at' = at + 1 /\ cell' = Cells + 1
      BY <1>2, <2>1, <2>6
    <3>2. /\ at' \in DOMAIN Work[bench'] /\ LapInv' /\ CountedInv' /\ StatsInv'
      BY <1>1, <3>1, Arrives DEF lap, table
    <3>3. This'.op = "clear"
      BY <1>1, <3>1, GoesOn DEF Follows
    <3>4. CellInv'
      BY <1>1, <2>2, <3>1, <3>3 DEF CellInv
    <3>5. BenchTypeOK'
      BY <1>1, <2>1, <2>3, <3>2 DEF BenchTypeOK, time, lap, table
    <3> QED BY <1>1, <1>2, <2>4, <3>2, <3>4, <3>5, LapsStay DEF BenchInv, lap
  <2> QED BY <2>5, <2>6
<1> QED BY <1>3, <1>4

-----------------------------------------------------------------------------
(* The loop over the times                                                 *)
LEMMA TimeIs ==
  ASSUME BenchTypeOK, Len(laps) = 3 * Times, NEW k \in 1..3, NEW i \in 1..Times
  PROVE  TimeOf(k, i) \in Int
<1>1. Times \in Nat /\ laps \in Seq(Int)
  BY BenchAssumption DEF BenchTypeOK
<1>2. (k - 1) * Times + i \in 1..3 * Times
  <2>1. CASE k = 1
    BY <1>1, <2>1
  <2>2. CASE k = 2
    BY <1>1, <2>2
  <2>3. CASE k = 3
    BY <1>1, <2>3
  <2> QED BY <2>1, <2>2, <2>3
<1> QED BY <1>1, <1>2 DEF TimeOf

LEMMA WidenedIs ==
  ASSUME NEW a \in Int, NEW b \in Int, NEW t \in Int, NEW m, m.min = a, m.max = b,
         NEW w, w = Widened(m, t)
  PROVE  /\ w \in [min : Int, max : Int]
         /\ w.min \in {a, t} /\ w.min <= a /\ w.min <= t
         /\ w.max \in {b, t} /\ w.max >= b /\ w.max >= t
BY DEF Widened

LEMMA LookStep ==
  ASSUME BenchInv, LookAtTime
  PROVE  BenchInv'
<1>1. /\ BenchTypeOK /\ LapInv /\ CountedInv /\ StatsInv /\ CellInv /\ OutcomeInv
      /\ bench' = bench /\ This.op = "stats" /\ This \in BenchOps
      /\ UNCHANGED <<time, lap, memory>> /\ outcome = "running" /\ outcome' = "running"
  BY PlaceIs DEF BenchInv, LookAtTime, Running, Onward
<1>2. /\ This.of \in 1..3 /\ Times \in Nat \ {0} /\ looked \in 0..Times - 1
      /\ looked + 1 \in 1..Times /\ truth' \in Int
  BY <1>1, OpOf, BenchAssumption DEF BenchTypeOK, lap
<1>k. PICK k \in 1..3 : k = This.of
  BY <1>2
<1>n. PICK n \in 1..Times : n = looked + 1
  BY <1>2
<1> DEFINE m == IF looked = 0 THEN First(TimeOf(k, 1)) ELSE stats[k]
           T == [min : Int, max : Int]
<1>s. /\ stats' = [j \in 1..k |-> IF j = k THEN Widened(m, TimeOf(k, n)) ELSE stats[j]]
      /\ IF n < Times THEN looked' = n /\ at' = at ELSE looked' = 0 /\ at' = at + 1
  BY <1>1, <1>k, <1>n DEF LookAtTime, LastTime, Onward
<1>3. /\ Len(laps) = 3 * Times
      /\ DOMAIN stats = 1..(IF looked = 0 THEN k - 1 ELSE k)
      /\ \A j \in DOMAIN stats : Extreme(j, IF j = k THEN looked ELSE Times)
      /\ \A j \in DOMAIN stats : stats[j] \in T
  BY <1>1, <1>k DEF StatsInv, BenchTypeOK
<1> HIDE DEF m
<1>4. \A j \in 1..3, i \in 1..Times : TimeOf(j, i) \in Int /\ TimeOf(j, i)' = TimeOf(j, i)
  BY <1>1, <1>3, TimeIs DEF TimeOf, lap
<1>5. \A j \in 1..k : j # k => /\ stats'[j] = stats[j] /\ stats'[j] \in T
                              /\ Extreme(j, Times)'
  <2> SUFFICES ASSUME NEW j \in 1..k, j # k
               PROVE  stats'[j] = stats[j] /\ stats'[j] \in T /\ Extreme(j, Times)'
    OBVIOUS
  <2>1. j \in DOMAIN stats /\ j \in 1..3
    BY <1>2, <1>3
  <2>2. stats'[j] = stats[j]
    BY <1>s
  <2>3. Extreme(j, Times) /\ stats[j] \in T
    BY <1>3, <2>1
  <2>4. \A i \in 1..Times : TimeOf(j, i)' = TimeOf(j, i)
    BY <1>4, <2>1
  <2>5. Extreme(j, Times)'
    BY <2>2, <2>3, <2>4 DEF Extreme
  <2> QED BY <2>2, <2>3, <2>5
<1>6. stats'[k] \in T /\ Extreme(k, n)'
  <2> DEFINE t == TimeOf(k, n)
             w == stats'[k]
  <2>1. w = Widened(m, t) /\ t \in Int
    BY <1>s, <1>4
  <2>2. CASE looked = 0
    <3>1. n = 1 /\ m.min = t /\ m.max = t
      BY <1>n, <2>2 DEF m, First
    <3> HIDE DEF t, w
    <3>2. w \in T /\ w.min = t /\ w.max = t
      BY <2>1, <3>1, WidenedIs
    <3>3. \A i \in 1..n : i = 1 /\ n = 1
      BY <3>1
    <3>4. 1 \in 1..n /\ t = TimeOf(k, 1)' /\ t \in t..t
      BY <1>2, <1>4, <2>1, <3>1 DEF t
    <3>5. Extreme(k, n)'
      BY <3>2, <3>3, <3>4 DEF Extreme, w
    <3> QED BY <3>2, <3>5 DEF w
  <2>3. CASE looked # 0
    <3>1. k \in DOMAIN stats /\ looked \in 1..Times
      BY <1>2, <1>3, <2>3
    <3>2. m = stats[k] /\ m \in T /\ Extreme(k, looked)
      BY <1>3, <2>3, <3>1 DEF m
    <3>3. m.min \in Int /\ m.max \in Int
      BY <3>2
    <3> HIDE DEF t, w
    <3>4. /\ w \in T
          /\ w.min \in {m.min, t} /\ w.min <= m.min /\ w.min <= t
          /\ w.max \in {m.max, t} /\ w.max >= m.max /\ w.max >= t
      BY <2>1, <3>3, WidenedIs
    <3>5. PICK i, j \in 1..looked : m.min = TimeOf(k, i) /\ m.max = TimeOf(k, j)
      BY <3>2 DEF Extreme
    <3>6. /\ i \in 1..n /\ j \in 1..n /\ n \in 1..n
          /\ \A l \in 1..n : l \in 1..Times /\ (l = n \/ l \in 1..looked)
      BY <1>2, <1>n, <3>5
    <3>7. \E a, b \in 1..n : w.min = TimeOf(k, a)' /\ w.max = TimeOf(k, b)'
      <4>1. \A l \in 1..n : TimeOf(k, l)' = TimeOf(k, l)
        BY <1>2, <1>4, <3>6
      <4>2. w.min = TimeOf(k, i)' \/ w.min = TimeOf(k, n)'
        BY <3>4, <3>5, <3>6, <4>1 DEF t
      <4>3. w.max = TimeOf(k, j)' \/ w.max = TimeOf(k, n)'
        BY <3>4, <3>5, <3>6, <4>1 DEF t
      <4> QED BY <3>6, <4>2, <4>3
    <3>8. ASSUME NEW l \in 1..n PROVE TimeOf(k, l)' \in w.min..w.max
      <4>1. TimeOf(k, l)' = TimeOf(k, l) /\ TimeOf(k, l) \in Int
        BY <1>2, <1>4, <3>6
      <4>2. l = n \/ TimeOf(k, l) \in m.min..m.max
        BY <3>2, <3>6 DEF Extreme
      <4>3. w.min \in Int /\ w.max \in Int
        BY <3>4
      <4> QED BY <2>1, <3>3, <3>4, <4>1, <4>2, <4>3 DEF t
    <3>9. Extreme(k, n)'
      BY <3>7, <3>8 DEF Extreme, w
    <3> QED BY <3>4, <3>9 DEF w
  <2> QED BY <2>2, <2>3
<1>7. stats' \in [1..k -> T] /\ k \in 0..3 /\ DOMAIN stats' = 1..k
  BY <1>s, <1>5, <1>6
<1>8. OutcomeInv'
  BY <1>1 DEF OutcomeInv
<1>9. CASE n < Times
  <2>1. looked' = n /\ at' = at /\ This' = This /\ n # 0 /\ n \in 0..Times - 1
    BY <1>1, <1>2, <1>s, <1>n, <1>9, StaysThere
  <2>2. BenchTypeOK'
    BY <1>1, <1>7, <2>1 DEF BenchTypeOK, time, lap, memory
  <2>3. StatsInv'
    <3>1. /\ Len(laps') = 3 * Times /\ This'.op = "stats" /\ This'.of = k
      BY <1>1, <1>3, <1>k, <2>1 DEF lap
    <3>2. \A j \in DOMAIN stats' : Extreme(j, IF j = k THEN n ELSE Times)'
      BY <1>5, <1>6, <1>7
    <3> QED BY <1>7, <2>1, <3>1, <3>2 DEF StatsInv
  <2> QED BY <1>1, <1>2, <1>8, <2>1, <2>2, <2>3, Frames, LapsStay DEF BenchInv, lap
<1>10. CASE ~(n < Times)
  <2>1. n = Times /\ looked' = 0 /\ at' = at + 1 /\ 0 \in 0..Times - 1
    BY <1>s, <1>2, <1>10
  <2>2. /\ at' \in DOMAIN Work[bench'] /\ This' \in BenchOps /\ Follows(This, This')
        /\ This'.op = "clear" /\ HasVerify' => This.op = "verify"
    BY <1>1, <2>1, GoesOn
  <2>3. /\ \/ This'.op = "stats" /\ This'.of = k + 1
           \/ k = 3 /\ This'.op \in {"malloc", "clear"}
    BY <1>1, <1>k, <2>2 DEF Follows
  <2>4. BenchTypeOK'
    BY <1>1, <1>7, <2>1, <2>2 DEF BenchTypeOK, time, lap, memory
  <2>5. LapInv'
    BY <1>1, <2>3 DEF LapInv, time, lap
  <2>6. CountedInv'
    BY <2>3 DEF CountedInv
  <2>7. \A j \in 1..k : Extreme(j, Times)'
    BY <1>5, <1>6, <2>1
  <2>8. StatsInv'
    <3>1. CASE This'.op = "stats" /\ This'.of = k + 1
      <4>1. DOMAIN stats' = 1..(This'.of - 1) /\ \A j \in DOMAIN stats' : j # This'.of
        BY <1>2, <1>7, <3>1
      <4>2. Len(laps') = 3 * Times
        BY <1>1, <1>3 DEF lap
      <4> QED BY <1>7, <2>1, <2>7, <3>1, <4>1, <4>2 DEF StatsInv
    <3>2. CASE k = 3 /\ This'.op \in {"malloc", "clear"}
      <4>1. StatsAreTrue'
        BY <1>7, <2>7, <3>2 DEF StatsAreTrue, Extreme
      <4> QED BY <2>1, <3>2, <4>1 DEF StatsInv
    <3> QED BY <2>3, <3>1, <3>2
  <2>9. CellInv'
    BY <1>1, <2>2, <2>3 DEF CellInv, Noticeable, memory
  <2> QED BY <1>1, <1>2, <1>8, <2>4, <2>5, <2>6, <2>8, <2>9, LapsStay DEF BenchInv, lap
<1> QED BY <1>9, <1>10

-----------------------------------------------------------------------------
LEMMA BenchStarts == BenchInit => BenchInv
<1> SUFFICES ASSUME BenchInit PROVE BenchInv
  OBVIOUS
<1>1. /\ bench \in Benches /\ at = 1 /\ took = 0 /\ cpu = 0 /\ set = FALSE /\ mark = 0
      /\ wall \in 0..Second - 1 /\ laps = <<>> /\ truth = -1 /\ shift = 0 /\ read = "cpu"
      /\ fault = [c \in 1..Cells |-> "none"] /\ content = [c \in 1..Cells |-> Bit]
      /\ cell = 1 /\ looked = 0 /\ stats = <<>> /\ outcome = "running"
      /\ {Second, Times, Cells} \subseteq Nat \ {0} /\ MaxTicks \in Nat
  BY BenchAssumption DEF BenchInit
<1>2. Program(Work[bench])
  BY <1>1, ProgramsAre, BenchAssumption
<1>3. at \in DOMAIN Work[bench] /\ This \in BenchOps /\ Opening(This)
  <2> DEFINE s == Work[bench]
  <2>1. s \in Seq(BenchOps) /\ Len(s) >= 1 /\ Opening(s[1])
    BY <1>2 DEF Program, Chain
  <2>2. This = s[1]
    BY <1>1 DEF This
  <2> HIDE DEF s
  <2>3. 1 \in DOMAIN s /\ s[1] \in BenchOps
    BY <2>1
  <2> QED BY <1>1, <2>1, <2>2, <2>3 DEF s
<1>4. BenchTypeOK
  <2>1. fault \in [1..Cells -> Faults]
    BY <1>1 DEF Faults
  <2>2. content \in [1..Cells -> [{"hi", "lo"} -> {0, 1}]]
    BY <1>1 DEF Bit
  <2>3. stats \in [1..0 -> [min : Int, max : Int]] /\ 0 \in 0..3 /\ laps \in Seq(Int)
    BY <1>1
  <2>4. wall \in Int /\ took \in 0..MaxTicks /\ cpu \in 0..took /\ looked \in 0..Times - 1
        /\ cell \in 1..Cells + 1
    BY <1>1
  <2>5. \E k \in 0..3 : stats \in [1..k -> [min : Int, max : Int]]
    BY <2>3
  <2>6. set \in BOOLEAN
    BY <1>1, Zenon
  <2>7. /\ mark \in Int /\ shift \in Int /\ truth \in Nat \union {-1}
        /\ bench \in Benches /\ read = "cpu" /\ outcome = "running"
    BY <1>1
  <2> QED BY <1>3, <2>1, <2>2, <2>3, <2>4, <2>5, <2>6, <2>7 DEF BenchTypeOK
<1>5. This.op \notin {"stop", "stats", "verify", "clear"}
  BY <1>3 DEF Opening
<1>6. LapInv /\ LapsAreTrue
  BY <1>1, <1>5 DEF LapInv, LapsAreTrue
<1>7. CountedInv
  BY <1>3, <1>5 DEF CountedInv, Opening
<1>8. StatsInv /\ OutcomeInv
  BY <1>1, <1>5 DEF StatsInv, OutcomeInv
<1>9. CellInv
  BY <1>1, <1>5 DEF CellInv
<1> QED BY <1>4, <1>6, <1>7, <1>8, <1>9 DEF BenchInv

(* BenchInv is inductive.                                                  *)
LEMMA BenchStep == BenchInv /\ [BenchNext]_benchVars => BenchInv'
<1> SUFFICES ASSUME BenchInv, [BenchNext]_benchVars PROVE BenchInv'
  OBVIOUS
<1>1. CASE UNCHANGED benchVars
  <2>1. /\ UNCHANGED <<bench, at, laps, outcome, content, cell>>
        /\ UNCHANGED <<time, mark, truth, shift>> /\ UNCHANGED <<laps, table>>
        /\ UNCHANGED memory /\ UNCHANGED <<laps, truth, shift, read>>
    BY <1>1 DEF benchVars, lap, memory
  <2>2. BenchTypeOK /\ truth' \in Int
    <3>1. BenchTypeOK
      BY DEF BenchInv
    <3>2. truth \in Int /\ truth' = truth
      BY <2>1, <3>1 DEF BenchTypeOK
    <3> QED BY <3>1, <3>2
  <2>3. BenchTypeOK'
    BY <1>1, <2>2 DEF BenchTypeOK, benchVars, time, lap, memory, table
  <2> QED BY <2>1, <2>2, <2>3, Frames, LapsStay DEF BenchInv
<1>2. CASE BenchNext
  BY <1>1, <1>2, TickStep, SetClockStep, FlipStep, ObtainStep, FigureStep, StartStep,
     StopStep, LastSteps, LookStep, FillStep, VerifyStep
     DEF BenchNext, Ended
<1> QED BY <1>1, <1>2

LEMMA BenchInvariant == BenchSpec => []BenchInv
  BY BenchStarts, BenchStep, PTL DEF BenchSpec

(* The types of the benchmarks; no loop runs past its last time or cell.   *)
THEOREM BenchesTyped == BenchSpec => []BenchTypeOK
<1>1. BenchInv => BenchTypeOK BY DEF BenchInv
<1> QED BY <1>1, BenchInvariant, PTL

(* What is taken for the time of a piece of work is that time, exactly, to *)
(* within a second or at most, by the clock that is read                   *)
(* (bandWidth.c:14-19, cpuTestProgram.c:100-131).                          *)
THEOREM TimesAreTrue == BenchSpec => []LapsAreTrue
<1>1. BenchInv => LapsAreTrue BY DEF BenchInv
<1> QED BY <1>1, BenchInvariant, PTL

(* The extremes that are printed are those of the function's own times     *)
(* (memTestProgram.c:117-132).                                             *)
THEOREM ExtremesAreTrue == BenchSpec => []StatsAreTrue
<1>1. BenchInv => StatsAreTrue BY DEF BenchInv, StatsInv, StatsAreTrue
<1> QED BY <1>1, BenchInvariant, PTL

(* Which broken cells the pattern test reports (memTestProgram.c:151-163). *)
THEOREM PatternFinds == BenchSpec => []PatternFindsFaults
<1>1. BenchInv => PatternFindsFaults
  <2> SUFFICES ASSUME BenchInv PROVE PatternFindsFaults
    OBVIOUS
  <2>1. /\ BenchTypeOK /\ CellInv /\ OutcomeInv /\ Cells \in Nat
    BY BenchAssumption DEF BenchInv
  <2>2. ASSUME outcome = "clear", HasVerify, NEW c \in 1..Cells PROVE ~Noticeable(c)
    <3>1. cell = Cells + 1
      BY <2>1, <2>2 DEF CellInv, OutcomeInv
    <3>2. c \in 1..cell - 1
      BY <2>1, <3>1
    <3> QED BY <2>1, <3>2 DEF CellInv
  <2>3. ASSUME outcome = "error" PROVE Noticeable(cell) \/ fault[cell] = "none"
    <3>1. cell \in 1..Cells /\ content[cell] # Bit
      BY <2>1, <2>3 DEF CellInv, OutcomeInv, BenchTypeOK
    <3> QED BY <2>1, <3>1 DEF CellInv, Noticeable
  <2> QED BY <2>1, <2>2, <2>3 DEF PatternFindsFaults, HasVerify, CellInv
<1> QED BY <1>1, BenchInvariant, PTL
==============================================================================
