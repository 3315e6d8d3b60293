---------------------------- MODULE NetTests_proofs ----------------------------
(***************************************************************************)
(* Theorems about the network tests, for any number of devices,            *)
(* descriptors, rounds and changes of the surroundings.                    *)
(***************************************************************************)
EXTENDS NetTests, TLAPS

(* What is held is known at each place.  A combined round begins with what *)
(* the rounds before it have lost, one or two descriptors each; the        *)
(* programs of one test begin with nothing.  Blocks go with descriptors,   *)
(* but for the address while it is used.                                   *)
Balance ==
  /\ program \in {"combined", "wifiTest", "EthernetTest"}
  /\ place = "idle" =>
       fds \in round..2 * round /\ blocks = fds /\ (program # "combined" => round = 0)
  /\ place # "idle" =>
       round \in Nat \ {0} /\ (program # "combined" => round = 1)
  /\ place = "popen" =>
       fds \in round - 1..2 * round - 2 /\ blocks = fds
  /\ place = "iwconfig" =>
       fds \in round..2 * round - 1 /\ blocks = fds
  /\ place \in {"wifiEnd", "ifconfig", "ping", "address", "iperf3", "free",
                "ethernetEnd", "hci"} =>
       /\ fds \in round - 1..2 * round - 1
       /\ program # "combined" => fds = 0
       /\ blocks = (IF place \in {"iperf3", "free"} THEN fds + 1 ELSE fds)
  /\ place \in {"inquiry", "connect", "bluetoothEnd"} =>
       fds \in round..2 * round /\ blocks = fds
  /\ place \in {"hci", "inquiry", "connect", "bluetoothEnd"} =>
       program = "combined"
  /\ place = "done" => fds = 0 /\ blocks = 0

(* The two histories miss nothing, each verdict on its way has its         *)
(* witness, and the inquiry has left a descriptor for the connections.     *)
Witnessed ==
  /\ place # "idle" => holds \subseteq held /\ Facts \ holds \subseteq failed
  /\ place \in {"iperf3", "free"} =>
       verdict = 1 /\ Interfaces \intersect held # {}
  /\ place = "inquiry" => verdict = 0
  /\ place = "connect" =>
       /\ fds < FreeFds
       /\ IF verdict = 1 THEN inquired \intersect held # {}
          ELSE inquired \ found \subseteq failed

IInv == NetTypeOK /\ Balance /\ Witnessed /\ VerdictWasTrue

-----------------------------------------------------------------------------
LEMMA InvInit == NetInit => IInv
  BY NetAssumption
     DEF NetInit, IInv, NetTypeOK, Balance, Witnessed, VerdictWasTrue

(* A change of the surroundings only adds to the histories.                *)
LEMMA ChangedStep ==
  ASSUME IInv, NEW fact \in Facts, Changed(fact)
  PROVE  IInv'
<1>1. holds' \subseteq Facts /\ held \subseteq held' /\ failed \subseteq failed'
  BY DEF Changed, IInv, NetTypeOK
<1>2. holds' \subseteq held' /\ Facts \ holds' \subseteq failed'
  BY DEF Changed
<1>3. NetTypeOK'
  BY <1>1, <1>2 DEF IInv, NetTypeOK, Changed
<1>4. Balance'
  BY DEF IInv, Balance, Changed
<1>5. Witnessed'
  BY <1>1, <1>2 DEF IInv, Witnessed, Changed
<1>6. VerdictWasTrue'
  BY <1>1 DEF IInv, VerdictWasTrue, Changed
<1> QED BY <1>3, <1>4, <1>5, <1>6 DEF IInv

(* What every other step keeps or begins anew                              *)
LEMMA HistoriesStep ==
  ASSUME IInv, NetNext, ~\E fact \in Facts : Changed(fact)
  PROVE  /\ holds' = holds
         /\ place' # "idle" => holds \subseteq held' /\ Facts \ holds \subseteq failed'
  BY DEF IInv, Witnessed, NetNext, StartRound, Popen, Iwconfig, WifiReturn,
         Command, GetIpAddress, FreeAddress, EthernetReturn, HciOpen, Inquiry,
         Connect, BluetoothReturn, RoundEnds, Stopped, Begins, Goes, Exits,
         around, netVars

LEMMA BalanceStep ==
  ASSUME IInv, NetNext
  PROVE  Balance' /\ fds' \in 0..FreeFds /\ blocks' \in 0..2 * round' + 1
                  /\ round' \in 0..MaxRounds
<1> USE NetAssumption DEF IInv, NetTypeOK, Balance
<1>1. CASE \E fact \in Facts : Changed(fact)
  BY <1>1 DEF Changed
<1>2. CASE StartRound
  BY <1>2 DEF StartRound, Begins
<1>3. CASE Popen
  BY <1>3 DEF Popen, Goes
<1>4. CASE Iwconfig
  BY <1>4 DEF Iwconfig, Goes
<1>5. CASE WifiReturn \/ Command \/ EthernetReturn
  BY <1>5 DEF WifiReturn, Command, EthernetReturn, Begins, Goes
<1>6. CASE GetIpAddress
  BY <1>6 DEF GetIpAddress, Goes, Exits
<1>7. CASE FreeAddress
  BY <1>7 DEF FreeAddress, Freed, Goes
<1>8. CASE HciOpen
  BY <1>8 DEF HciOpen, Goes, Exits
<1>9. CASE Inquiry
  BY <1>9 DEF Inquiry, Goes, Exits
<1>10. CASE Connect
  BY <1>10 DEF Connect, Closed, Goes
<1>11. CASE BluetoothReturn \/ RoundEnds \/ Stopped
  BY <1>11 DEF BluetoothReturn, RoundEnds, Stopped, Goes, netVars
<1> QED
  BY <1>1, <1>2, <1>3, <1>4, <1>5, <1>6, <1>7, <1>8, <1>9, <1>10, <1>11
     DEF NetNext

LEMMA TypesStep ==
  ASSUME IInv, NetNext
  PROVE  NetTypeOK'
<1>1. CASE \E fact \in Facts : Changed(fact)
  BY <1>1, ChangedStep DEF IInv
<1>2. CASE ~\E fact \in Facts : Changed(fact)
  <2>1. /\ holds' \subseteq Facts
        /\ holds' \subseteq held' \/ place' = "idle"
    BY <1>2, HistoriesStep DEF IInv, NetTypeOK
  <2>2. verdict' \in {0, 1}
    BY <1>2
       DEF IInv, NetTypeOK, NetNext, StartRound, Popen, Iwconfig, WifiReturn,
           Command, GetIpAddress, FreeAddress, EthernetReturn, HciOpen, Inquiry,
           Connect, Reached, BluetoothReturn, RoundEnds, Stopped, netVars
  <2>3. found' \subseteq inquired' /\ inquired' \subseteq Devices
    BY <1>2
       DEF IInv, NetTypeOK, NetNext, StartRound, Popen, Iwconfig, WifiReturn,
           Command, GetIpAddress, FreeAddress, EthernetReturn, HciOpen, Inquiry,
           Connect, BluetoothReturn, RoundEnds, Stopped, netVars
  <2>4. unasked' \in {"none", "pipe", "command"}
    BY <1>2
       DEF IInv, NetTypeOK, NetNext, StartRound, Popen, Iwconfig, WifiReturn,
           Command, GetIpAddress, FreeAddress, EthernetReturn, HciOpen, Inquiry,
           Connect, BluetoothReturn, RoundEnds, Stopped, Begins, Goes, Exits, netVars
  <2> QED BY <2>1, <2>2, <2>3, <2>4, BalanceStep DEF NetTypeOK
<1> QED BY <1>1, <1>2

LEMMA WitnessStep ==
  ASSUME IInv, NetNext
  PROVE  Witnessed' /\ VerdictWasTrue'
<1>0. CASE \E fact \in Facts : Changed(fact)
  BY <1>0, ChangedStep DEF IInv
<1> SUFFICES ASSUME ~\E fact \in Facts : Changed(fact)
             PROVE  Witnessed' /\ VerdictWasTrue'
  BY <1>0
<1>1. /\ holds' = holds /\ holds \subseteq Facts
      /\ place' # "idle" => holds' \subseteq held' /\ Facts \ holds' \subseteq failed'
  BY HistoriesStep DEF IInv, NetTypeOK
<1> USE DEF IInv, Witnessed, VerdictWasTrue
<1>2. CASE StartRound
  BY <1>1, <1>2 DEF StartRound, Begins
<1>3. CASE Popen
  BY <1>1, <1>3 DEF Popen, Goes, around
<1>4. CASE Iwconfig
  BY <1>1, <1>4 DEF Iwconfig, Associated, Goes, around, Facts
<1>5. CASE WifiReturn \/ Command \/ FreeAddress \/ EthernetReturn
  BY <1>1, <1>5
     DEF WifiReturn, Command, FreeAddress, EthernetReturn, Begins, Goes, around
<1>6. CASE GetIpAddress
  <2>1. CASE place' = "exited"
    BY <1>1, <2>1
  <2>2. CASE place' # "exited"
    <3>1. /\ held' = held /\ failed' = failed /\ place = "address"
          /\ \/ HasAddress(holds) /\ verdict' = 1 /\ place' = "iperf3"
             \/ ~HasAddress(holds) /\ verdict' = 0 /\ place' = "ethernetEnd"
      BY <1>6, <2>2 DEF GetIpAddress, Goes, Exits, around
    <3>2. HasAddress(holds) => Interfaces \intersect held # {}
      BY <3>1 DEF HasAddress
    <3>3. ~HasAddress(holds) => Interfaces \subseteq failed
      BY <3>1 DEF HasAddress, Facts
    <3> QED BY <1>1, <3>1, <3>2, <3>3
  <2> QED BY <2>1, <2>2
<1>7. CASE HciOpen
  BY <1>1, <1>7 DEF HciOpen, Goes, Exits, around
<1>8. CASE Inquiry
  BY <1>1, <1>8 DEF Inquiry, Goes, Exits, around, NetTypeOK
<1>9. CASE Connect
  <2>1. PICK d \in found : /\ found' = found \ {d}
                           /\ verdict' = Reached(d, verdict)
                           /\ fds' = Closed(fds + 1)
    BY <1>9 DEF Connect
  <2>2. /\ place = "connect" /\ place' = "connect" /\ inquired' = inquired
        /\ held' = held /\ failed' = failed
    BY <1>9 DEF Connect, Goes, around
  <2>3. d \in inquired /\ d \in Facts
    BY DEF NetTypeOK, Facts
  <2>4. fds' < FreeFds
    BY <2>1, <2>2 DEF Closed, NetTypeOK
  <2>5. CASE d \in holds
    BY <1>1, <2>1, <2>2, <2>3, <2>4, <2>5 DEF Reached
  <2>6. CASE d \notin holds
    <3>1. d \in failed /\ verdict' = verdict
      BY <1>1, <2>1, <2>2, <2>3, <2>6 DEF Reached
    <3> QED BY <1>1, <2>1, <2>2, <2>4, <3>1
  <2> QED BY <2>5, <2>6
<1>10. CASE BluetoothReturn
  BY <1>1, <1>10 DEF BluetoothReturn, Goes, around
<1>11. CASE RoundEnds
  BY <1>11 DEF RoundEnds, Goes
<1>12. CASE Stopped
  BY <1>12 DEF Stopped, netVars, around
<1> QED
  BY <1>2, <1>3, <1>4, <1>5, <1>6, <1>7, <1>8, <1>9, <1>10, <1>11, <1>12
     DEF NetNext

LEMMA InvNext == IInv /\ [NetNext]_netVars => IInv'
<1>1. ASSUME IInv, UNCHANGED netVars PROVE IInv'
  BY <1>1
     DEF netVars, around, IInv, NetTypeOK, Balance, Witnessed, VerdictWasTrue
<1> QED BY <1>1, BalanceStep, TypesStep, WitnessStep DEF IInv

LEMMA Invariant == NetSpec => []IInv
  BY InvInit, InvNext, PTL DEF NetSpec

-----------------------------------------------------------------------------
(* Every variable stays in its range: no descriptor or block is given back  *)
(* twice, and no more descriptors are open than the process may open.       *)
THEOREM NetTyped == NetSpec => []NetTypeOK
  BY Invariant, PTL DEF IInv

(* The verdict of a network test was true of the surroundings at some      *)
(* moment while the test ran (test.c:255-451), however they change, but    *)
(* for a "not associated" of a wifiTest whose command could not be run.    *)
THEOREM VerdictsWereTrue == NetSpec => []VerdictWasTrue
  BY Invariant, PTL DEF IInv

(* The programs of one test give everything back; a round of the combined  *)
(* program loses one or two descriptors and as many blocks, never more     *)
(* (test.c:284-292, 443-450), in any number of rounds.                     *)
THEOREM LeaksAreAccounted == NetSpec => []LeaksAccounted
<1>1. IInv => LeaksAccounted
  BY DEF IInv, Balance, LeaksAccounted
<1> QED BY <1>1, Invariant, PTL
==============================================================================
