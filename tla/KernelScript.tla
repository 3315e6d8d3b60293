----------------------------- MODULE KernelScript -----------------------------
(***************************************************************************)
(* testkernel.sh of testProgram/kernel: it writes a Makefile, runs make,   *)
(* loads testkernel.ko, looks whether it is loaded, waits, unloads it and  *)
(* looks again.  It may be started more than once, it may be interrupted,  *)
(* and a developer edits the source and builds it by other means.          *)
(*                                                                         *)
(* A version of the source is a number; the file and the module in the     *)
(* kernel are the versions they were built from, 0 for none.               *)
(***************************************************************************)
EXTENDS Naturals

CONSTANTS
  Scripts,   \* the runs of the script
  MaxEdits   \* bound on the versions of testkernel.c

VARIABLES
  line,      \* where each script is
  source,    \* the version of testkernel.c
  ko,        \* the version of testkernel.ko
  resident,  \* the version of the module that is loaded
  wanted,    \* the version each script ran make on
  got,       \* the version it announced as loaded, 0 for none
  loader,    \* history: whose insmod loaded the module
  abandoned  \* history: the scripts that were stopped before their rmmod,
             \* or whose rmmod was refused

files == <<source, ko>>
scriptVars == <<line, files, resident, wanted, got, loader, abandoned>>

Lines == {"make", "insmod", "check", "sleep", "rmmod", "recheck", "ended"}

(* Slip: the script is through after the first check. *)
AfterCheckEnded == "ended"

ScriptInit ==
  /\ line = [s \in Scripts |-> "make"]
  /\ source = 1
  /\ ko \in {0, 1}
  /\ resident = 0
  /\ wanted = [s \in Scripts |-> 0]
  /\ got = [s \in Scripts |-> 0]
  /\ loader \in Scripts
  /\ abandoned = {}

Reach(s, l) == line' = [line EXCEPT ![s] = l]

Edit ==
  /\ source < MaxEdits
  /\ source' = source + 1
  /\ UNCHANGED <<line, ko, resident, wanted, got, loader, abandoned>>

BuildElsewhere ==
  /\ ko' = source
  /\ UNCHANGED <<line, source, resident, wanted, got, loader, abandoned>>

(* The shell expands $(MAKE) in the here-document to nothing: the recipe   *)
(* starts with a "-", which tells make to ignore that it fails.  make      *)
(* builds nothing and succeeds, unless make itself cannot be run.          *)
Make(s) ==
  /\ line[s] = "make"
  /\ wanted' = [wanted EXCEPT ![s] = source]
  /\ \E next \in {"insmod", "ended"} : Reach(s, next)
  /\ UNCHANGED <<files, resident, got, loader, abandoned>>

(* insmod fails without a file, when the module is loaded, or when sudo is *)
(* refused; nobody looks.                                                  *)
ScriptInsmod(s) ==
  /\ line[s] = "insmod"
  /\ \/ /\ ko # 0 /\ resident = 0
        /\ resident' = ko
        /\ loader' = s
     \/ UNCHANGED <<resident, loader>>
  /\ Reach(s, "check")
  /\ UNCHANGED <<files, wanted, got, abandoned>>

AfterCheck == "sleep"

(* lsmod | grep: loaded, by whomever, or the script exits. *)
Check(s) ==
  /\ line[s] = "check"
  /\ IF resident # 0
     THEN got' = [got EXCEPT ![s] = resident] /\ Reach(s, AfterCheck)
     ELSE UNCHANGED got /\ Reach(s, "ended")
  /\ UNCHANGED <<files, resident, wanted, loader, abandoned>>

(* The log is shown; sleep 20, which is when scripts are interrupted. *)
Sleep(s) ==
  /\ line[s] = "sleep"
  /\ \/ Reach(s, "rmmod") /\ UNCHANGED abandoned
     \/ Reach(s, "ended") /\ abandoned' = abandoned \union {s}
  /\ UNCHANGED <<files, resident, wanted, got, loader>>

(* rmmod of what is there, if sudo still lets it. *)
ScriptRmmod(s) ==
  /\ line[s] = "rmmod"
  /\ \/ resident' = 0 /\ UNCHANGED abandoned
     \/ UNCHANGED resident /\ abandoned' = abandoned \union {s}
  /\ Reach(s, "recheck")
  /\ UNCHANGED <<files, wanted, got, loader>>

(* Both answers are only printed. *)
Recheck(s) ==
  /\ line[s] = "recheck"
  /\ Reach(s, "ended")
  /\ UNCHANGED <<files, resident, wanted, got, loader, abandoned>>

AllEnded == (\A s \in Scripts : line[s] = "ended") /\ UNCHANGED scriptVars

ScriptStep(s) == Make(s) \/ ScriptInsmod(s) \/ Check(s) \/ Sleep(s) \/ ScriptRmmod(s) \/ Recheck(s)

ScriptNext ==
  \/ Edit \/ BuildElsewhere
  \/ \E s \in Scripts : ScriptStep(s)
  \/ AllEnded

ScriptSpec == ScriptInit /\ [][ScriptNext]_scriptVars

-----------------------------------------------------------------------------
(***************************************************************************)
(* What must hold                                                          *)
(***************************************************************************)
ScriptTypeOK ==
  /\ line \in [Scripts -> Lines]
  /\ source \in Nat /\ ko \in Nat /\ resident \in Nat
  /\ wanted \in [Scripts -> Nat] /\ got \in [Scripts -> Nat]
  /\ loader \in Scripts
  /\ abandoned \subseteq Scripts

(* A module that is loaded has a script that will unload it, namely the    *)
(* one whose insmod loaded it, unless that one was interrupted or its      *)
(* rmmod refused (testkernel.sh:32-48): scripts that find another's module *)
(* loaded, or unload it, leave nothing behind.                             *)
NothingLeftLoaded ==
  resident # 0 =>
    line[loader] \in {"check", "sleep", "rmmod"} \/ loader \in abandoned

(* testkernel.sh:22-29 builds the module and makes sure that this          *)
(* succeeded, and line 37 announces "Kernel module ... loaded              *)
(* successfully": what is announced is what was to be built.               *)
LoadedIsBuilt == \A s \in Scripts : got[s] # 0 => got[s] = wanted[s]
==============================================================================
