------------------------------- MODULE Nobrand -------------------------------
(***************************************************************************)
(* The character device of testProgram/kernel/nobrand.c and its client     *)
(* app.c: insmod and rmmod while clients have the device open, next to     *)
(* another driver that wants the same major number.                        *)
(*                                                                         *)
(* A load of nobrand.ko is a number, 1 for the first; 0 stands for none.   *)
(* The kernel's part is what the two files rely on it for: one load of a   *)
(* module at a time; register_chrdev refuses a number that is taken;       *)
(* unregister_chrdev takes the number away from whoever holds it; an open  *)
(* file keeps the operations of the device it was opened on; and, as fops  *)
(* names no owner, an open file does not hold up rmmod.                    *)
(***************************************************************************)
EXTENDS Naturals, Sequences

CONSTANTS
  Clients,   \* the processes that run app
  MaxLoads   \* bound: how often the operator loads the module

ASSUME NobrandAssumption == MaxLoads \in Nat

Loads   == 1..MaxLoads
Nobody  == 0
Another == MaxLoads + 1   \* the other driver, as the holder of the number

VARIABLES
  nobrand,   \* the load of the module that is in the kernel
  loads,     \* how often it has been loaded
  other,     \* is the other driver in the kernel?
  major,     \* who holds major number 100, NOD_MAJOR
  pc,        \* the next call of each client
  file,      \* whose operations its file has
  heard      \* the operations of nobrand.c that ran for it

kernelVars == <<nobrand, loads, other, major>>
clientVars == <<pc, file, heard>>
deviceVars == <<kernelVars, clientVars>>

(* The calls of main after open; what comes next, *)
Calls == {"ioctl3", "ioctl4", "write", "read", "close"}

NextCall(call) ==
  CASE call = "ioctl3" -> "ioctl4"
    [] call = "ioctl4" -> "write"
    [] call = "write"  -> "read"
    [] call = "read"   -> "close"
    [] call = "close"  -> "done"

(* and what nobrand.c runs for each. *)
Operation(call) ==
  CASE call \in {"ioctl3", "ioctl4"} -> "ioctl"
    [] call = "close" -> "release"
    [] OTHER -> call

DeviceInit ==
  /\ nobrand = 0
  /\ loads = 0
  /\ other \in BOOLEAN
  /\ major = IF other THEN Another ELSE Nobody
  /\ pc = [c \in Clients |-> "open"]
  /\ file = [c \in Clients |-> Nobody]
  /\ heard = [c \in Clients |-> <<>>]

-----------------------------------------------------------------------------
(***************************************************************************)
(* Slips: likely bugs, one definition each, that show that the properties  *)
(* below would notice them.                                                *)
(***************************************************************************)

(* nobrand_exit forgets the device number, *)
UnregisteredForgotten(m) == m

(* app opens for reading and writing, *)
ReachesAll(call) == TRUE

(* nobrand_init takes the number away from its holder. *)
RegisteredByForce(k) == k

-----------------------------------------------------------------------------
(* register_chrdev: the number goes to load k if nobody has it.            *)
Registered(k) == IF major = Nobody THEN k ELSE major

(* unregister_chrdev asks for the number, not for who holds it.            *)
Unregistered(m) == Nobody

(* nobrand_init returns 0, registered or not, so the module stays.         *)
Insmod ==
  /\ nobrand = 0
  /\ loads < MaxLoads
  /\ loads' = loads + 1
  /\ nobrand' = loads + 1
  /\ major' = Registered(loads + 1)
  /\ UNCHANGED <<other, clientVars>>

(* nobrand_exit.  Open files are not looked at. *)
Rmmod ==
  /\ nobrand # 0
  /\ nobrand' = 0
  /\ major' = Unregistered(major)
  /\ UNCHANGED <<loads, other, clientVars>>

(* The other driver gives up when it does not get the number, and gives it *)
(* back when it goes.                                                      *)
OtherArrives ==
  /\ ~other
  /\ major = Nobody
  /\ other' = TRUE
  /\ major' = Another
  /\ UNCHANGED <<nobrand, loads, clientVars>>

OtherLeaves ==
  /\ other
  /\ other' = FALSE
  /\ major' = Nobody
  /\ UNCHANGED <<nobrand, loads, clientVars>>

-----------------------------------------------------------------------------
(* open: without a device behind the node the client gives up.             *)
Open(c) ==
  /\ pc[c] = "open"
  /\ IF major = Nobody
     THEN /\ pc' = [pc EXCEPT ![c] = "done"]
          /\ UNCHANGED <<file, heard>>
     ELSE /\ pc' = [pc EXCEPT ![c] = "ioctl3"]
          /\ file' = [file EXCEPT ![c] = major]
          /\ heard' = IF major = Another THEN heard
                      ELSE [heard EXCEPT ![c] = <<"open">>]
  /\ UNCHANGED kernelVars

(* The file is open for reading: write fails before it reaches the driver. *)
Reaches(call) == call # "write"

(* No result of a call is looked at.  nobrand_read writes to the caller's  *)
(* buffer itself, which a kernel that guards user memory answers by ending *)
(* the process; its end closes the file.  A call on a file of a load that  *)
(* is gone runs what is left in its memory or ends the process, too.       *)
Call(c) ==
  /\ pc[c] \in Calls
  /\ \/ /\ pc' = [pc EXCEPT ![c] = NextCall(pc[c])]
        /\ heard' = IF Reaches(pc[c]) /\ file[c] # Another
                    THEN [heard EXCEPT ![c] = Append(@, Operation(pc[c]))]
                    ELSE heard
     \/ /\ Reaches(pc[c])
        /\ file[c] \in Loads \ {nobrand}
        /\ pc' = [pc EXCEPT ![c] = "killed"]
        /\ UNCHANGED heard
     \/ /\ pc[c] = "read"
        /\ file[c] \in Loads
        /\ pc' = [pc EXCEPT ![c] = "killed"]
        /\ heard' = [heard EXCEPT ![c] = @ \o <<"read", "release">>]
  /\ UNCHANGED <<kernelVars, file>>

(* Everything has been loaded, unloaded and run. *)
Finished ==
  /\ \A c \in Clients : pc[c] \in {"done", "killed"}
  /\ UNCHANGED deviceVars

Operator == Insmod \/ Rmmod \/ OtherArrives \/ OtherLeaves

DeviceNext == Operator \/ (\E c \in Clients : Open(c) \/ Call(c)) \/ Finished

DeviceSpec == DeviceInit /\ [][DeviceNext]_deviceVars

-----------------------------------------------------------------------------
(***************************************************************************)
(* What must hold                                                          *)
(***************************************************************************)
Session == <<"open", "ioctl", "ioctl", "read", "release">>

(* How many operations of a session lie before a client's next call *)
Before(call) ==
  CASE call = "open" -> 0
    [] call = "ioctl3" -> 1
    [] call = "ioctl4" -> 2
    [] call \in {"write", "read"} -> 3
    [] call = "close" -> 4
    [] call = "done" -> 5

(* Every variable stays in its range. *)
DeviceTypeOK ==
  /\ nobrand \in 0..MaxLoads
  /\ loads \in 0..MaxLoads
  /\ other \in BOOLEAN
  /\ major \in 0..Another
  /\ pc \in [Clients -> {"open", "done", "killed"} \union Calls]
  /\ file \in [Clients -> 0..Another]
  /\ heard \in [Clients -> Seq({"open", "ioctl", "write", "read", "release"})]

(* A device number that leads to nobrand leads to the load that is in the  *)
(* kernel (nobrand.c:48-60): no later open can reach code that is gone,    *)
(* whatever the other driver does and although init reports success        *)
(* without the number.                                                     *)
RegisteredIsLoaded == major \in Loads => major = nobrand

(* The driver hears a client's calls in order, each once, and never its    *)
(* message, for app.c:12 opens the file for reading; a client that the     *)
(* unload killed was heard up to the call that killed it.                  *)
HeardInOrder ==
  \A c \in Clients :
    IF file[c] \in Loads
    THEN /\ Len(heard[c]) <= Len(Session)
         /\ \A i \in 1..Len(heard[c]) : heard[c][i] = Session[i]
         /\ pc[c] # "killed" => Len(heard[c]) = Before(pc[c])
    ELSE heard[c] = <<>>

(* The other driver keeps its number as long as it stays, unless nobrand   *)
(* was loaded without getting the number and is now unloaded               *)
(* (nobrand.c:50-58).                                                      *)
OtherLosesToUnload ==
  [][major = Another /\ major' # Another /\ other' =>
       nobrand # 0 /\ nobrand' = 0]_deviceVars

(* The comment at nobrand.c:42: .release runs when app.c closes the file.  *)
ReleaseReached ==
  \A c \in Clients :
    pc[c] \in {"done", "killed"} /\ file[c] \in Loads =>
      heard[c] # <<>> /\ heard[c][Len(heard[c])] = "release"
==============================================================================
