---------------------------- MODULE Nobrand_proofs ----------------------------
(***************************************************************************)
(* Proofs about Nobrand, for any number of clients and loads.              *)
(*                                                                         *)
(* RegisteredIsLoaded is inductive next to DeviceTypeOK.  HeardInOrder is  *)
(* not: it does not say that a client that is about to open has no file    *)
(* yet, nor that a client in the middle of its calls has one; FileInv does.*)
(***************************************************************************)
EXTENDS Nobrand, SequenceTheorems, TLAPS

FileInv ==
  \A c \in Clients :
    /\ pc[c] = "open" => file[c] = Nobody
    /\ pc[c] \in Calls => file[c] # Nobody

IInv == DeviceTypeOK /\ RegisteredIsLoaded /\ FileInv /\ HeardInOrder

Operations == {"open", "ioctl", "write", "read", "release"}

-----------------------------------------------------------------------------
(* The places in the session of the operations that it consists of. *)
LEMMA SessionFacts ==
  /\ Session \in Seq(Operations)
  /\ Len(Session) = 5
  /\ Session[1] = "open"
  /\ Session[2] = "ioctl"
  /\ Session[3] = "ioctl"
  /\ Session[4] = "read"
  /\ Session[5] = "release"
  BY DEF Session, Operations

(* Two more elements after three *)
LEMMA AppendTwo ==
  ASSUME NEW S, NEW s \in Seq(S), Len(s) = 3, NEW a \in S, NEW b \in S
  PROVE  LET t == s \o <<a, b>>
         IN  /\ t \in Seq(S)
             /\ Len(t) = 5
             /\ \A i \in 1..3 : t[i] = s[i]
             /\ t[4] = a /\ t[5] = b
<1> DEFINE two == <<a, b>>
           t   == s \o two
<1>1. two \in Seq(S) /\ Len(two) = 2 /\ two[1] = a /\ two[2] = b
  OBVIOUS
<1> HIDE DEF two
<1>2. /\ t \in Seq(S)
      /\ Len(t) = 3 + 2
      /\ \A i \in 1..3 + 2 : t[i] = IF i <= 3 THEN s[i] ELSE two[i - 3]
  <2>1. /\ s \o two \in Seq(S)
        /\ Len(s \o two) = Len(s) + Len(two)
        /\ \A i \in 1..Len(s) + Len(two) :
             (s \o two)[i] = IF i <= Len(s) THEN s[i] ELSE two[i - Len(s)]
    BY <1>1, ConcatProperties, Zenon
  <2>2. Len(s) = 3 /\ Len(two) = 2
    BY <1>1
  <2> QED BY <2>1, <2>2, Zenon DEF t
<1> HIDE DEF t
<1>3. Len(t) = 5 /\ t[4] = a /\ t[5] = b
  BY <1>1, <1>2
<1>4. \A i \in 1..3 : t[i] = s[i]
  BY <1>2
<1> QED BY <1>2, <1>3, <1>4 DEF t, two

(* What the driver hears of a call is the next operation of the session. *)
LEMMA CallFacts ==
  ASSUME NEW call \in Calls
  PROVE  /\ NextCall(call) \in Calls \union {"done"}
         /\ Operation(call) \in Operations
         /\ Before(call) \in 1..4
         /\ Reaches(call) => /\ Session[Before(call) + 1] = Operation(call)
                             /\ Before(NextCall(call)) = Before(call) + 1
         /\ ~Reaches(call) => Before(NextCall(call)) = Before(call)
<1>1. CASE call = "ioctl3"
  BY <1>1, SessionFacts DEF NextCall, Operation, Before, Reaches, Calls, Operations
<1>2. CASE call = "ioctl4"
  BY <1>2, SessionFacts DEF NextCall, Operation, Before, Reaches, Calls, Operations
<1>3. CASE call = "write"
  BY <1>3, SessionFacts DEF NextCall, Operation, Before, Reaches, Calls, Operations
<1>4. CASE call = "read"
  BY <1>4, SessionFacts DEF NextCall, Operation, Before, Reaches, Calls, Operations
<1>5. CASE call = "close"
  BY <1>5, SessionFacts DEF NextCall, Operation, Before, Reaches, Calls, Operations
<1>6. QED
  BY <1>1, <1>2, <1>3, <1>4, <1>5 DEF Calls

-----------------------------------------------------------------------------
LEMMA InitInv == DeviceInit => IInv
<1> SUFFICES ASSUME DeviceInit PROVE IInv
  OBVIOUS
<1>1. MaxLoads \in Nat
  BY NobrandAssumption
<1>2. \A c \in Clients : heard[c] = <<>>
  BY DEF DeviceInit
<1>3. DeviceTypeOK
  <2>1. heard \in [Clients -> Seq({"open", "ioctl", "write", "read", "release"})]
    BY DEF DeviceInit
  <2>2. QED
    BY <1>1, <2>1 DEF DeviceInit, DeviceTypeOK, Nobody, Another
<1>4. RegisteredIsLoaded
  BY <1>1 DEF DeviceInit, RegisteredIsLoaded, Loads, Nobody, Another
<1>5. FileInv
  BY DEF DeviceInit, FileInv, Calls
<1>6. HeardInOrder
  <2>0. \A c \in Clients : file[c] = 0
    BY DEF DeviceInit, Nobody
  <2>1. 0 \notin Loads
    BY <1>1 DEF Loads
  <2>2. QED
    BY <1>2, <2>0, <2>1 DEF HeardInOrder
<1>7. QED
  BY <1>3, <1>4, <1>5, <1>6 DEF IInv

(* The operator's steps leave the clients alone. *)
LEMMA OperatorInv == IInv /\ Operator => IInv'
<1> SUFFICES ASSUME IInv, Operator PROVE IInv'
  OBVIOUS
<1> USE NobrandAssumption DEF IInv
<1>1. UNCHANGED clientVars
  BY DEF Operator, Insmod, Rmmod, OtherArrives, OtherLeaves
<1>2. /\ DeviceTypeOK'
      /\ RegisteredIsLoaded'
  <2> USE <1>1 DEF DeviceTypeOK, RegisteredIsLoaded, clientVars, Loads, Nobody, Another
  <2>1. CASE Insmod
    BY <2>1 DEF Insmod, Registered
  <2>2. CASE Rmmod
    BY <2>2 DEF Rmmod, Unregistered
  <2>3. CASE OtherArrives
    BY <2>3 DEF OtherArrives
  <2>4. CASE OtherLeaves
    <3>1. UNCHANGED <<nobrand, loads>> /\ major' = 0 /\ other' \in BOOLEAN
      BY <2>4 DEF OtherLeaves
    <3>2. QED
      BY <3>1
  <2>5. QED
    BY <2>1, <2>2, <2>3, <2>4 DEF Operator
<1>3. FileInv' /\ HeardInOrder'
  BY <1>1 DEF FileInv, HeardInOrder, clientVars
<1>4. QED
  BY <1>2, <1>3

LEMMA OpenInv == ASSUME NEW c \in Clients PROVE IInv /\ Open(c) => IInv'
<1> SUFFICES ASSUME IInv, Open(c) PROVE IInv'
  OBVIOUS
<1> USE NobrandAssumption DEF IInv
<1>0. /\ UNCHANGED kernelVars
      /\ pc[c] = "open" /\ file[c] = Nobody /\ heard[c] = <<>>
  BY DEF Open, FileInv, HeardInOrder, Loads, Nobody
<1>1. \A d \in Clients \ {c} :
        pc'[d] = pc[d] /\ file'[d] = file[d] /\ heard'[d] = heard[d]
  BY DEF Open, DeviceTypeOK
<1>2. CASE major = Nobody
  <2>1. /\ pc' = [pc EXCEPT ![c] = "done"]
        /\ UNCHANGED <<file, heard>>
    BY <1>2 DEF Open
  <2>2. DeviceTypeOK' /\ RegisteredIsLoaded'
    BY <1>0, <2>1 DEF DeviceTypeOK, RegisteredIsLoaded, kernelVars
  <2>3. pc'[c] = "done" /\ file'[c] = Nobody /\ heard'[c] = <<>>
    BY <1>0, <2>1 DEF DeviceTypeOK
  <2>4. FileInv'
    BY <1>1, <2>3 DEF FileInv, Calls
  <2>5. HeardInOrder'
    BY <1>1, <2>3 DEF HeardInOrder, Loads, Nobody
  <2>6. QED
    BY <2>2, <2>4, <2>5
<1>3. CASE major # Nobody
  <2>1. /\ pc' = [pc EXCEPT ![c] = "ioctl3"]
        /\ file' = [file EXCEPT ![c] = major]
        /\ heard' = IF major = Another THEN heard
                    ELSE [heard EXCEPT ![c] = <<"open">>]
    BY <1>3 DEF Open
  <2>2. pc'[c] = "ioctl3" /\ file'[c] = major
    BY <2>1 DEF DeviceTypeOK
  <2>3. heard'[c] = IF major = Another THEN <<>> ELSE <<"open">>
    BY <1>0, <2>1 DEF DeviceTypeOK
  <2>4. DeviceTypeOK' /\ RegisteredIsLoaded'
    <3>1. <<"open">> \in Seq({"open", "ioctl", "write", "read", "release"})
      OBVIOUS
    <3>2. heard' \in [Clients -> Seq({"open", "ioctl", "write", "read", "release"})]
      BY <2>1, <3>1 DEF DeviceTypeOK
    <3>3. QED
      BY <1>0, <2>1, <3>2 DEF DeviceTypeOK, RegisteredIsLoaded, kernelVars, Calls
  <2>5. FileInv'
    BY <1>1, <1>3, <2>2 DEF FileInv
  <2>6. HeardInOrder'
    <3>1. CASE major = Another
      <4>1. file'[c] \notin Loads
        BY <2>2, <3>1 DEF Loads, Another
      <4>2. QED
        BY <1>1, <2>3, <3>1, <4>1 DEF HeardInOrder
    <3>2. CASE major # Another
      <4>1. /\ Len(heard'[c]) = 1 /\ heard'[c][1] = "open"
            /\ file'[c] \in Loads
        BY <1>3, <2>2, <2>3, <3>2 DEF Loads, Another, Nobody, DeviceTypeOK
      <4>2. QED
        <5>1. Before("ioctl3") = 1 /\ \A i \in 1..1 : i = 1
          BY DEF Before
        <5>2. /\ Len(heard'[c]) <= Len(Session)
              /\ \A i \in 1..Len(heard'[c]) : heard'[c][i] = Session[i]
              /\ Len(heard'[c]) = Before(pc'[c])
          BY <2>2, <4>1, <5>1, SessionFacts
        <5> DEFINE InOrder(d) ==
              IF file[d] \in Loads
              THEN /\ Len(heard[d]) <= Len(Session)
                   /\ \A i \in 1..Len(heard[d]) : heard[d][i] = Session[i]
                   /\ pc[d] # "killed" => Len(heard[d]) = Before(pc[d])
              ELSE heard[d] = <<>>
        <5>3. InOrder(c)'
          BY <4>1, <5>2
        <5>4. \A d \in Clients : d # c => InOrder(d)'
          BY <1>1 DEF HeardInOrder
        <5>5. QED
          BY <5>3, <5>4 DEF HeardInOrder
    <3>3. QED
      BY <3>1, <3>2
  <2>7. QED
    BY <2>4, <2>5, <2>6
<1>4. QED
  BY <1>2, <1>3

LEMMA CallInv == ASSUME NEW c \in Clients PROVE IInv /\ Call(c) => IInv'
<1> SUFFICES ASSUME IInv, Call(c) PROVE IInv'
  OBVIOUS
<1> USE NobrandAssumption DEF IInv
<1>0. UNCHANGED <<kernelVars, file>> /\ pc[c] \in Calls
  BY DEF Call
<1>1. \A d \in Clients \ {c} :
        pc'[d] = pc[d] /\ file'[d] = file[d] /\ heard'[d] = heard[d]
  BY DEF Call, DeviceTypeOK
<1>2. heard[c] \in Seq(Operations) /\ file[c] # Nobody
  BY <1>0 DEF DeviceTypeOK, FileInv, Operations
<1>3. /\ DeviceTypeOK'
      /\ FileInv'
      /\ file'[c] \in Loads =>
           /\ Len(heard'[c]) <= Len(Session)
           /\ \A i \in 1..Len(heard'[c]) : heard'[c][i] = Session[i]
           /\ pc'[c] # "killed" => Len(heard'[c]) = Before(pc'[c])
      /\ file'[c] \notin Loads => heard'[c] = <<>>
  <2>0. /\ NextCall(pc[c]) \in Calls \union {"done"}
        /\ Operation(pc[c]) \in Operations
    BY <1>0, CallFacts
  <2>1. file[c] \in Loads => /\ Len(heard[c]) = Before(pc[c])
                             /\ \A i \in 1..Len(heard[c]) : heard[c][i] = Session[i]
    BY <1>0 DEF HeardInOrder, Calls
  <2>2. file[c] \notin Loads => file[c] = Another /\ heard[c] = <<>>
    BY <1>2 DEF HeardInOrder, DeviceTypeOK, Loads, Another, Nobody
  <2>3. CASE /\ pc' = [pc EXCEPT ![c] = NextCall(pc[c])]
             /\ Reaches(pc[c]) /\ file[c] # Another
             /\ heard' = [heard EXCEPT ![c] = Append(@, Operation(pc[c]))]
    <3>1. pc'[c] = NextCall(pc[c]) /\ heard'[c] = Append(heard[c], Operation(pc[c]))
      BY <2>3 DEF DeviceTypeOK
    <3>2. file[c] \in Loads /\ file'[c] = file[c]
      BY <1>0, <2>2, <2>3
    <3>3. /\ heard'[c] \in Seq(Operations)
          /\ Len(heard'[c]) = Len(heard[c]) + 1
          /\ \A i \in 1..Len(heard[c]) : heard'[c][i] = heard[c][i]
          /\ heard'[c][Len(heard[c]) + 1] = Operation(pc[c])
      BY <1>2, <2>0, <3>1
    <3>4. DeviceTypeOK'
      BY <1>0, <2>0, <2>3, <3>1, <3>3 DEF DeviceTypeOK, kernelVars, Operations
    <3>5. FileInv'
      BY <1>1, <1>0, <1>2, <2>0, <3>1, <3>2 DEF FileInv, Calls
    <3>6. QED
      BY <1>0, <2>1, <2>3, <3>1, <3>2, <3>3, <3>4, <3>5, CallFacts, SessionFacts
  <2>4. CASE /\ pc' = [pc EXCEPT ![c] = NextCall(pc[c])]
             /\ ~(Reaches(pc[c]) /\ file[c] # Another)
             /\ heard' = heard
    <3>1. pc'[c] = NextCall(pc[c]) /\ heard'[c] = heard[c] /\ file'[c] = file[c]
      BY <1>0, <2>4 DEF DeviceTypeOK
    <3>2. DeviceTypeOK'
      BY <1>0, <2>0, <2>4 DEF DeviceTypeOK, kernelVars
    <3>3. FileInv'
      BY <1>1, <1>2, <2>0, <3>1 DEF FileInv, Calls
    <3>4. file[c] \in Loads => ~Reaches(pc[c])
      BY <2>4 DEF Loads, Another
    <3>5. QED
      BY <1>0, <2>1, <2>2, <3>1, <3>2, <3>3, <3>4, CallFacts, SessionFacts
  <2>5. CASE /\ pc' = [pc EXCEPT ![c] = "killed"]
             /\ file[c] \in Loads
             /\ heard' = heard
    <3>1. pc'[c] = "killed" /\ heard'[c] = heard[c] /\ file'[c] = file[c]
      BY <1>0, <2>5 DEF DeviceTypeOK
    <3>2. DeviceTypeOK'
      BY <1>0, <2>5 DEF DeviceTypeOK, kernelVars
    <3>3. FileInv'
      BY <1>1, <1>2, <3>1 DEF FileInv, Calls
    <3>4. QED
      BY <1>0, <2>1, <2>5, <3>1, <3>2, <3>3, CallFacts, SessionFacts
  <2>6. CASE /\ pc[c] = "read" /\ file[c] \in Loads
             /\ pc' = [pc EXCEPT ![c] = "killed"]
             /\ heard' = [heard EXCEPT ![c] = @ \o <<"read", "release">>]
    <3>1. pc'[c] = "killed" /\ file'[c] = file[c]
      BY <1>0, <2>6 DEF DeviceTypeOK
    <3>2. heard'[c] = heard[c] \o <<"read", "release">> /\ Len(heard[c]) = 3
      BY <2>1, <2>6 DEF DeviceTypeOK, Before
    <3>3. heard[c] \in Seq(Operations) /\ {"read", "release"} \subseteq Operations
      BY <1>2 DEF Operations
    <3>4. /\ heard'[c] \in Seq(Operations)
          /\ Len(heard'[c]) = 5
          /\ \A i \in 1..3 : heard'[c][i] = heard[c][i]
          /\ heard'[c][4] = "read" /\ heard'[c][5] = "release"
      BY <3>2, <3>3, AppendTwo
    <3>5. DeviceTypeOK'
      BY <1>0, <2>6, <3>2, <3>4 DEF DeviceTypeOK, kernelVars, Operations
    <3>6. FileInv'
      BY <1>1, <1>2, <3>1 DEF FileInv, Calls
    <3>7. \A i \in 1..5 : i \in 1..3 \/ i = 4 \/ i = 5
      OBVIOUS
    <3>8. QED
      BY <2>1, <2>6, <3>1, <3>2, <3>4, <3>5, <3>6, <3>7, SessionFacts
  <2>7. QED
    BY <2>3, <2>4, <2>5, <2>6 DEF Call
<1>4. RegisteredIsLoaded'
  BY <1>0 DEF RegisteredIsLoaded, kernelVars
<1>5. HeardInOrder'
  BY <1>1, <1>3 DEF HeardInOrder
<1>6. QED
  BY <1>3, <1>4, <1>5

-----------------------------------------------------------------------------
LEMMA Invariance == DeviceSpec => []IInv
<1>1. IInv /\ [DeviceNext]_deviceVars => IInv'
  <2> SUFFICES ASSUME IInv, [DeviceNext]_deviceVars PROVE IInv'
    OBVIOUS
  <2>1. CASE Operator
    BY <2>1, OperatorInv
  <2>2. ASSUME NEW c \in Clients, Open(c) PROVE IInv'
    BY <2>2, OpenInv
  <2>3. ASSUME NEW c \in Clients, Call(c) PROVE IInv'
    BY <2>3, CallInv
  <2>4. CASE UNCHANGED deviceVars
    BY <2>4 DEF deviceVars, kernelVars, clientVars, IInv, DeviceTypeOK, RegisteredIsLoaded,
                FileInv, HeardInOrder
  <2>5. QED
    BY <2>1, <2>2, <2>3, <2>4 DEF DeviceNext, Finished
<1>2. QED
  BY InitInv, <1>1, PTL DEF DeviceSpec

(* Every variable of the kernel and the clients keeps its type. *)
THEOREM KernelTyped == DeviceSpec => []DeviceTypeOK
<1>1. IInv => DeviceTypeOK
  BY DEF IInv
<1>2. QED
  BY Invariance, <1>1, PTL

(* nobrand.c:48-60: no device number leads to code that has been unloaded. *)
THEOREM NumberLeadsToCode == DeviceSpec => []RegisteredIsLoaded
<1>1. IInv => RegisteredIsLoaded
  BY DEF IInv
<1>2. QED
  BY Invariance, <1>1, PTL

(* app.c:9-31: the driver hears each client's calls in order and once,     *)
(* whoever is loaded and unloaded meanwhile.                               *)
THEOREM SessionsHeard == DeviceSpec => []HeardInOrder
<1>1. IInv => HeardInOrder
  BY DEF IInv
<1>2. QED
  BY Invariance, <1>1, PTL

(* nobrand.c:50-58: only the unload of nobrand takes a number away from    *)
(* another driver.                                                         *)
THEOREM OnlyUnloadTakes == DeviceSpec => OtherLosesToUnload
<1>1. IInv /\ [DeviceNext]_deviceVars =>
        (major = Another /\ major' # Another /\ other' => nobrand # 0 /\ nobrand' = 0)
  <2> SUFFICES ASSUME DeviceNext, major = Another, major' # Another, other'
               PROVE  nobrand # 0 /\ nobrand' = 0
    BY DEF deviceVars, kernelVars
  <2>1. CASE Insmod
    BY <2>1, NobrandAssumption DEF Insmod, Registered, Another, Nobody
  <2>2. CASE Rmmod
    BY <2>2 DEF Rmmod
  <2>3. CASE OtherArrives
    BY <2>3 DEF OtherArrives
  <2>4. CASE OtherLeaves
    BY <2>4 DEF OtherLeaves
  <2>5. QED
    BY <2>1, <2>2, <2>3, <2>4 DEF DeviceNext, Operator, Open, Call, Finished, kernelVars, deviceVars
<1>2. QED
  BY Invariance, <1>1, PTL DEF DeviceSpec, OtherLosesToUnload
==============================================================================
