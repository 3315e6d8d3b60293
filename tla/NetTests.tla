------------------------------ MODULE NetTests ------------------------------
(***************************************************************************)
(* The network tests: wifiTest, EthernetTest and bluetoothTest of          *)
(* CombineCode/test.c, called round after round in the order main.c names  *)
(* them in, and the programs wifiTest.c and EthernetTest.c of ExampleCode, *)
(* which are the first two on their own.  While a test runs, networks and  *)
(* devices come and go.                                                    *)
(*                                                                         *)
(* A fact is something that holds of the surroundings or not: the station  *)
(* is associated, an interface has an IPv4 address, a device accepts a     *)
(* connection.                                                             *)
(***************************************************************************)
EXTENDS Naturals, FiniteSets

CONSTANTS
  Devices,    \* Bluetooth devices
  FreeFds,    \* how many descriptors the process may open
  MaxRounds,  \* bound on the rounds of the combined program
  MaxChanges  \* bound on the changes of the surroundings

ASSUME NetAssumption ==
  /\ FreeFds \in Nat
  /\ MaxRounds \in Nat \ {0}

Interfaces == {"eth0", "wlan0"}
Facts == {"associated"} \union Interfaces \union Devices

VARIABLES
  program,  \* what runs: "combined", "wifiTest" or "EthernetTest"
  place,    \* where it is
  verdict,  \* of the test that runs
  fds,      \* descriptors it has open
  blocks,   \* heap blocks it has not given back
  found,    \* the devices that answered the inquiry and are still to be tried
  inquired, \* all the devices that answered it
  round,    \* rounds begun
  holds,    \* the facts that hold
  held,     \* history: those that have held since the test began
  failed,   \* history: those that have not
  unasked,  \* history: what kept wifiTest from asking: "none", "pipe", "command"
  changes   \* of the surroundings, so far

around  == <<holds, held, failed, changes>>
netVars == <<program, place, verdict, fds, blocks, found, inquired, round,
             unasked, around>>

NetInit ==
  /\ program \in {"combined", "wifiTest", "EthernetTest"}
  /\ place = "idle"
  /\ verdict = 0
  /\ fds = 0 /\ blocks = 0
  /\ found = {} /\ inquired = {}
  /\ round = 0
  /\ holds \in SUBSET Facts
  /\ held = {} /\ failed = {}
  /\ unasked = "none"
  /\ changes = 0

Changed(fact) ==
  /\ changes < MaxChanges
  /\ changes' = changes + 1
  /\ holds' = IF fact \in holds THEN holds \ {fact} ELSE holds \union {fact}
  /\ held' = held \union holds'
  /\ failed' = failed \union (Facts \ holds')
  /\ UNCHANGED <<program, place, verdict, fds, blocks, found, inquired, round, unasked>>

(* A test begins: from here on its verdict is about what goes on.          *)
Begins(p) ==
  /\ place' = p
  /\ held' = holds
  /\ failed' = Facts \ holds
  /\ unasked' = "none"
  /\ UNCHANGED <<holds, changes>>

Goes(p) == place' = p /\ UNCHANGED <<around, unasked>>
Exits == Goes("exited")

(* Slips: bluetoothTest counts the devices that have answered the inquiry  *)
(* and forgets to close their sockets; EthernetTest keeps its address.     *)
ReachedAnswering(d, before) == 1

ClosedNever(used) == used

FreedNever(kept) == kept

-----------------------------------------------------------------------------
(* In the combined program rounds follow each other; the others end.       *)
StartRound ==
  /\ place = "idle"
  /\ round < (IF program = "combined" THEN MaxRounds ELSE 1)
  /\ round' = round + 1
  /\ Begins(IF program = "EthernetTest" THEN "ifconfig" ELSE "popen")
  /\ UNCHANGED <<program, verdict, fds, blocks, found, inquired>>

(* popen needs both ends of a pipe and keeps one, and a block for the      *)
(* FILE.  It fails for want of these, of memory or of a process; the test  *)
(* says so and returns 0.                                                  *)
Popen ==
  /\ place = "popen"
  /\ \/ /\ fds + 2 <= FreeFds
        /\ fds' = fds + 1
        /\ blocks' = blocks + 1
        /\ UNCHANGED verdict
        /\ Goes("iwconfig")
     \/ /\ verdict' = 0
        /\ place' = "wifiEnd"
        /\ unasked' = "pipe"
        /\ UNCHANGED <<fds, blocks, around>>
  /\ UNCHANGED <<program, found, inquired, round>>

(* Does a line of iwconfig name a network and not "off/any"?  The command  *)
(* may also not be there, or fail: then no line names any.                 *)
Associated(x) == "associated" \in x

(* iwconfig looks once; its lines are read to the end, and nobody looks at *)
(* its status.  The combined program returns before pclose.                *)
Iwconfig ==
  /\ place = "iwconfig"
  /\ \/ verdict' = (IF Associated(holds) THEN 1 ELSE 0) /\ UNCHANGED unasked
     \/ verdict' = 0 /\ unasked' = "command"
  /\ IF program = "combined"
     THEN UNCHANGED <<fds, blocks>>
     ELSE fds' = fds - 1 /\ blocks' = blocks - 1
  /\ place' = "wifiEnd"
  /\ UNCHANGED <<program, found, inquired, round, around>>

WifiReturn ==
  /\ place = "wifiEnd"
  /\ IF program = "combined" THEN Begins("ifconfig") ELSE Goes("done")
  /\ UNCHANGED <<program, verdict, fds, blocks, found, inquired, round>>

-----------------------------------------------------------------------------
(* ifconfig and ping take their time; what they return is only printed.    *)
Command ==
  /\ \/ place = "ifconfig" /\ Goes("ping")
     \/ place = "ping" /\ Goes("address")
     \/ place = "iperf3" /\ Goes("free")
  /\ UNCHANGED <<program, verdict, fds, blocks, found, inquired, round>>

HasAddress(x) == x \intersect Interfaces # {}

(* get_ip_address walks over one snapshot of the interfaces, the loopback  *)
(* first.  Without memory, without a socket for the snapshot or when       *)
(* getnameinfo fails the program is at its end.                            *)
GetIpAddress ==
  /\ place = "address"
  /\ \/ /\ fds < FreeFds
        /\ IF HasAddress(holds)
           THEN blocks' = blocks + 1 /\ verdict' = 1 /\ Goes("iperf3")
           ELSE UNCHANGED blocks /\ verdict' = 0 /\ Goes("ethernetEnd")
     \/ Exits /\ UNCHANGED <<verdict, blocks>>
  /\ UNCHANGED <<program, fds, found, inquired, round>>

(* free(raspberry_pi_ip) *)
Freed(kept) == kept - 1

FreeAddress ==
  /\ place = "free"
  /\ blocks' = Freed(blocks)
  /\ Goes("ethernetEnd")
  /\ UNCHANGED <<program, verdict, fds, found, inquired, round>>

EthernetReturn ==
  /\ place = "ethernetEnd"
  /\ IF program = "combined" THEN Begins("hci") ELSE Goes("done")
  /\ UNCHANGED <<program, verdict, fds, blocks, found, inquired, round>>

-----------------------------------------------------------------------------
(* An adapter is looked for and opened; malloc for the answers is not      *)
(* looked at.                                                              *)
HciOpen ==
  /\ place = "hci"
  /\ verdict' = 0
  /\ \/ /\ fds < FreeFds
        /\ fds' = fds + 1
        /\ blocks' = blocks + 1
        /\ Goes("inquiry")
     \/ Exits /\ UNCHANGED <<fds, blocks>>
  /\ UNCHANGED <<program, found, inquired, round>>

(* hci_inquiry uses a socket of its own.  A device that is in reach need   *)
(* not answer, and one that answers may be gone.                           *)
Inquiry ==
  /\ place = "inquiry"
  /\ \/ /\ fds < FreeFds
        /\ inquired' \in SUBSET Devices
        /\ found' = inquired'
        /\ Goes("connect")
     \/ Exits /\ UNCHANGED <<found, inquired>>
  /\ UNCHANGED <<program, verdict, fds, blocks, round>>

Reached(d, before) == IF d \in holds THEN 1 ELSE before

Closed(used) == used - 1

(* One device: its name, a socket, connect, close.  The result of socket   *)
(* is not looked at; without one, connect fails.                           *)
Connect ==
  /\ place = "connect"
  /\ found # {}
  /\ \E d \in found :
       /\ found' = found \ {d}
       /\ IF fds < FreeFds
          THEN verdict' = Reached(d, verdict) /\ fds' = Closed(fds + 1)
          ELSE UNCHANGED <<verdict, fds>>
  /\ Goes("connect")
  /\ UNCHANGED <<program, blocks, inquired, round>>

(* Both branches return before free(ii) and close(sock).                   *)
BluetoothReturn ==
  /\ place = "connect"
  /\ found = {}
  /\ Goes("bluetoothEnd")
  /\ UNCHANGED <<program, verdict, fds, blocks, found, inquired, round>>

RoundEnds ==
  /\ place = "bluetoothEnd"
  /\ Goes("idle")
  /\ UNCHANGED <<program, verdict, fds, blocks, found, inquired, round>>

(* The bound, exit, or the end of main. *)
Stopped ==
  /\ place \in {"exited", "done"} \/ (place = "idle" /\ round = MaxRounds)
  /\ UNCHANGED netVars

NetNext ==
  \/ \E fact \in Facts : Changed(fact)
  \/ StartRound \/ Popen \/ Iwconfig \/ WifiReturn
  \/ Command \/ GetIpAddress \/ FreeAddress \/ EthernetReturn
  \/ HciOpen \/ Inquiry \/ Connect \/ BluetoothReturn \/ RoundEnds
  \/ Stopped

NetSpec == NetInit /\ [][NetNext]_netVars

-----------------------------------------------------------------------------
(***************************************************************************)
(* What must hold                                                          *)
(***************************************************************************)

(* Every variable stays in its range: no descriptor or block is given back *)
(* twice, and no more descriptors are open than may be.                    *)
NetTypeOK ==
  /\ verdict \in {0, 1}
  /\ fds \in 0..FreeFds
  /\ blocks \in 0..2 * round + 1
  /\ found \subseteq inquired
  /\ inquired \subseteq Devices
  /\ round \in 0..MaxRounds
  /\ unasked \in {"none", "pipe", "command"}
  /\ holds \subseteq Facts
  /\ holds \subseteq held \/ place = "idle"

(* What a test reports was so at some moment of the test, but not all at   *)
(* one moment (test.c:255-451): Wi-Fi was or was not associated, unless    *)
(* there was no pipe to ask through or the command failed; an interface,   *)
(* the wired one or the other, had an address, or neither had one; a       *)
(* device took the connection, or each that answered did not at some       *)
(* moment.  The lack of a descriptor is never taken for a device that is   *)
(* not connected.                                                          *)
VerdictWasTrue ==
  /\ place = "wifiEnd" =>
       IF verdict = 1 THEN "associated" \in held
       ELSE unasked # "none" \/ "associated" \in failed
  /\ place = "ethernetEnd" =>
       IF verdict = 1 THEN Interfaces \intersect held # {}
       ELSE Interfaces \subseteq failed
  /\ place = "bluetoothEnd" =>
       IF verdict = 1 THEN inquired \intersect held # {}
       ELSE inquired \subseteq failed

(* The program of one test has given everything back when it ends          *)
(* (wifiTest.c:41, EthernetTest.c:95); the combined one, between rounds,   *)
(* has lost a pipe, unless there was none to be had, and a socket for each *)
(* round, and a block with each (test.c:284-292, 443-450).                 *)
LeaksAccounted ==
  /\ place = "done" => fds = 0 /\ blocks = 0
  /\ place = "idle" => fds \in round..2 * round /\ blocks = fds
==============================================================================
