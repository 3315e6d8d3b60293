------------------------------ MODULE MCSingles ------------------------------
(***************************************************************************)
(* One of the parts that have nothing to do with each other is run: a      *)
(* benchmark, a bus program, the network tests, scripts that share one     *)
(* kernel, a checksum, or the device nobrand with its clients.  The others *)
(* lie idle.                                                               *)
(*                                                                         *)
(* A piece of work takes up to one and a half seconds, so that whole       *)
(* seconds can be one too many and one too few; the clock is set back by   *)
(* one.  Digits of two values have a first and a last.  Five descriptors   *)
(* are what the third round of the network tests runs out of, and with two *)
(* changes a network or a device goes and comes back within one test.  Of  *)
(* three scripts two can meet the module of another.  Words of four values *)
(* and up to four of them make both folds carry.                           *)
(***************************************************************************)
EXTENDS Benchmarks, BusPrograms, NetTests, KernelScript, Checksum, MCNobrand

sgBenches  == DOMAIN Work
sgSettings == {-2}
sgDevices  == {"phone", "headset"}
sgScripts  == {"s1", "s2", "s3"}

VARIABLE runs   \* which part is run

Runs == {"bench", "bus", "net", "script", "sum", "device"}

singlesVars ==
  <<runs, benchVars, busVars, netVars, scriptVars, sumVars, deviceVars>>

SinglesInit ==
  /\ runs \in Runs
  /\ BenchInit  /\ (runs = "bench" \/ (bench = "cpu" /\ wall = 0))
  /\ BusInit    /\ (runs = "bus" \/ (task = "SPITest2" /\ wired = FALSE))
  /\ NetInit    /\ (runs = "net" \/ (program = "combined" /\ holds = {}))
  /\ ScriptInit /\ (runs = "script" \/ (ko = 0 /\ loader = "s1"))
  /\ SumInit    /\ (runs = "sum" \/ (packet = <<>> /\ byte = 0))
  /\ DeviceInit /\ (runs = "device" \/ ~other)

SinglesNext ==
  \/ /\ runs = "bench" /\ BenchNext
     /\ UNCHANGED <<runs, busVars, netVars, scriptVars, sumVars, deviceVars>>
  \/ /\ runs = "bus" /\ BusNext
     /\ UNCHANGED <<runs, benchVars, netVars, scriptVars, sumVars, deviceVars>>
  \/ /\ runs = "net" /\ NetNext
     /\ UNCHANGED <<runs, benchVars, busVars, scriptVars, sumVars, deviceVars>>
  \/ /\ runs = "script" /\ ScriptNext
     /\ UNCHANGED <<runs, benchVars, busVars, netVars, sumVars, deviceVars>>
  \/ /\ runs = "sum" /\ SumNext
     /\ UNCHANGED <<runs, benchVars, busVars, netVars, scriptVars, deviceVars>>
  \/ /\ runs = "device" /\ DeviceNext
     /\ UNCHANGED <<runs, benchVars, busVars, netVars, scriptVars, sumVars>>

SinglesSpec == SinglesInit /\ [][SinglesNext]_singlesVars
==============================================================================
