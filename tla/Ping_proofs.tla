------------------------------ MODULE Ping_proofs ------------------------------
(***************************************************************************)
(* Theorems about Ping, for any number of requests, copies and strays and  *)
(* for any calls that fail, and about Checksum, for words of any width.    *)
(*                                                                         *)
(* Neither TypeOK nor LinesInOrder is inductive.  The counters stay in     *)
(* range because a request is only sent while there is one left            *)
(* (CountInv).  A line is in order because whatever is on its way, or in   *)
(* the queue, answers a request that was sent before (PastInv), and while  *)
(* recvfrom waits no line has been printed for the request yet (LinesInv). *)
(* Which requests make a line is what flag remembers of the failed sendtos *)
(* (FlagInv), which needs the first of them all to be inductive.           *)
(***************************************************************************)
EXTENDS Ping, Checksum, TLAPS

CountInv ==
  /\ pc = "start" => msg_count = 0 /\ msg_received_count = 0
  /\ pc = "send" => msg_count < Total
  /\ pc = "recv" => msg_count >= 1 /\ msg_received_count < msg_count
  /\ msg_received_count <= msg_count

PastInv ==
  /\ \A k \in Requests : coming[k] > 0 => k <= msg_count
  /\ \A j \in DOMAIN queue : queue[j] <= msg_count

LinesInv ==
  \A j \in DOMAIN lines :
    /\ lines[j].asked <= msg_count
    /\ pc = "recv" => lines[j].asked < msg_count

IInv == TypeOK /\ CountInv /\ PastInv /\ LinesInv /\ LinesInOrder

-----------------------------------------------------------------------------
LEMMA LineFields ==
  ASSUME lines \in Seq(Line), NEW j \in DOMAIN lines
  PROVE  lines[j].asked \in Requests /\ lines[j].asked \in Int
<1>1. lines[j] \in Line
  OBVIOUS
<1>2. \A l \in Line : l.asked \in Requests
  BY DEF Line
<1>3. Requests \subseteq Int
  BY DEF Requests
<1> QED BY <1>1, <1>2, <1>3

LEMMA InitInv == Init => IInv
<1> SUFFICES ASSUME Init PROVE IInv
  OBVIOUS
<1> USE PingAssumption
<1>1. TypeOK
  BY DEF Init, TypeOK, Requests, Stray, Error, Line
<1>2. CountInv /\ PastInv
  BY DEF Init, CountInv, PastInv, Requests
<1>3. LinesInv /\ LinesInOrder
  BY DEF Init, LinesInv, LinesInOrder
<1> QED BY <1>1, <1>2, <1>3 DEF IInv

LEMMA OpenStep ==
  ASSUME IInv, Open
  PROVE  IInv'
<1> USE PingAssumption
<1>1. TypeOK'
  BY DEF IInv, Open, TypeOK
<1>2. CountInv'
  BY DEF IInv, Open, TypeOK, CountInv
<1>3. PastInv' /\ LinesInv' /\ LinesInOrder'
  BY DEF IInv, Open, TypeOK, PastInv, LinesInv, LinesInOrder
<1> QED BY <1>1, <1>2, <1>3 DEF IInv

LEMMA SendStep ==
  ASSUME IInv, Send
  PROVE  IInv'
<1> USE PingAssumption
<1>1. /\ msg_count' = msg_count + 1
      /\ msg_count' \in Requests
      /\ pc = "send" /\ pc' = "recv"
      /\ UNCHANGED <<family, msg_received_count, strays, queue, unread, lines>>
  BY DEF IInv, TypeOK, CountInv, Send, Requests
<1>2. /\ coming' \in [Requests -> Nat]
      /\ \A k \in Requests : k # msg_count' => coming'[k] = coming[k]
  <2>1. CASE UNCHANGED coming
    BY <2>1 DEF IInv, TypeOK
  <2>2. CASE \E c \in (IF family = 4 THEN Copies ELSE {0}) :
               coming' = [coming EXCEPT ![msg_count'] = c]
    BY <1>1, <2>2 DEF IInv, TypeOK
  <2> QED BY <2>1, <2>2 DEF Send
<1>3. flag' \in {0, 1} /\ unanswered' \subseteq Requests /\ unsent' \subseteq Requests
  <2>1. flag' \in {0, 1}
    BY DEF IInv, TypeOK, Send, FlagAfter
  <2>2. /\ unanswered' \in {unanswered, unanswered \union {msg_count'}}
        /\ unsent' \in {unsent, unsent \union {msg_count'}}
    BY DEF Send
  <2> QED BY <1>1, <2>1, <2>2 DEF IInv, TypeOK
<1>4. TypeOK'
  BY <1>1, <1>2, <1>3 DEF IInv, TypeOK, Requests
<1>5. CountInv'
  BY <1>1 DEF IInv, TypeOK, CountInv
<1>6. PastInv'
  <2>1. ASSUME NEW k \in Requests, coming'[k] > 0 PROVE k <= msg_count'
    BY <1>1, <1>2, <2>1 DEF IInv, TypeOK, PastInv, Requests
  <2>2. ASSUME NEW j \in DOMAIN queue' PROVE queue'[j] <= msg_count'
    <3>1. queue[j] \in Int /\ queue[j] <= msg_count
      BY <1>1, <2>2 DEF IInv, TypeOK, PastInv, Requests, Stray
    <3> QED BY <1>1, <3>1 DEF IInv, TypeOK
  <2> QED BY <2>1, <2>2 DEF PastInv
<1>7. LinesInv'
  <2> SUFFICES ASSUME NEW j \in DOMAIN lines' PROVE lines'[j].asked < msg_count'
    <3>1. \A j \in DOMAIN lines : lines[j].asked \in Int
      BY LineFields DEF IInv, TypeOK
    <3>2. msg_count' \in Int
      BY <1>1 DEF Requests
    <3> QED BY <1>1, <3>1, <3>2 DEF LinesInv
  <2>1. lines[j].asked \in Int /\ lines[j].asked <= msg_count
    BY <1>1, LineFields DEF IInv, TypeOK, LinesInv
  <2> QED BY <1>1, <2>1 DEF IInv, TypeOK
<1>8. LinesInOrder'
  BY <1>1 DEF IInv, LinesInOrder
<1> QED BY <1>4, <1>5, <1>6, <1>7, <1>8 DEF IInv

(* What a receive does, given the message or the error it got.             *)
LEMMA JudgeStep ==
  ASSUME IInv, pc = "recv",
         NEW got \in Requests \union {Stray, Error},
         got <= msg_count,
         Judge(got),
         queue' \in Seq(Requests \union {Stray}),
         \A j \in DOMAIN queue' : queue'[j] <= msg_count
  PROVE  IInv'
<1> USE PingAssumption
<1>1. /\ pc' \in {"send", "done"}
      /\ pc' = "send" => msg_count < Total
      /\ unread' \in {unread, unread \union {msg_count}}
      /\ UNCHANGED <<family, msg_count, flag, coming, strays, unanswered, unsent>>
  BY DEF Judge, More
<1>2. msg_count \in Requests /\ msg_received_count < msg_count
  BY DEF IInv, TypeOK, CountInv, Requests
<1>3. msg_received_count' \in {msg_received_count, msg_received_count + 1}
  BY DEF Judge
<1>4. CASE UNCHANGED lines
  <2>1. TypeOK'
    BY <1>1, <1>2, <1>3, <1>4 DEF IInv, TypeOK, Requests
  <2>2. CountInv' /\ PastInv'
    BY <1>1, <1>2, <1>3, <1>4 DEF IInv, TypeOK, CountInv, PastInv, Requests
  <2>3. LinesInv' /\ LinesInOrder'
    BY <1>1, <1>4 DEF IInv, LinesInv, LinesInOrder
  <2> QED BY <2>1, <2>2, <2>3 DEF IInv
<1>5. CASE Counted(got) /\ lines' = Append(lines, [asked |-> msg_count, got |-> got])
  <2> DEFINE new == [asked |-> msg_count, got |-> got]
  <2>1. new \in Line /\ new.asked = msg_count /\ new.got = got
    BY <1>2 DEF Line
  <2>2. lines \in Seq(Line)
    BY DEF IInv, TypeOK
  <2>3. /\ lines' \in Seq(Line)
        /\ DOMAIN lines' = 1..Len(lines) + 1
        /\ lines'[Len(lines) + 1] = new
        /\ \A j \in DOMAIN lines : lines'[j] = lines[j]
        /\ DOMAIN lines = 1..Len(lines)
        /\ Len(lines) \in Nat
    <3> HIDE DEF new
    <3> QED BY <1>5, <2>1, <2>2 DEF new
  <2>4. TypeOK'
    <3>1. msg_received_count' \in 0..Total /\ unread' \subseteq Requests
      BY <1>1, <1>2, <1>3 DEF IInv, TypeOK, Requests
    <3> QED BY <1>1, <2>3, <3>1 DEF IInv, TypeOK
  <2>5. CountInv' /\ PastInv'
    BY <1>1, <1>2, <1>3 DEF IInv, TypeOK, CountInv, PastInv, Requests
  <2>6. \A j \in DOMAIN lines :
          /\ lines[j].asked < msg_count
          /\ lines[j].got <= lines[j].asked
          /\ lines[j].got = Error => lines[j].asked = 1
    BY DEF IInv, LinesInv, LinesInOrder
  <2>7. got = Error => msg_count = 1
    BY <1>2, <1>5 DEF Counted, Refused, Requests
  <2>8. LinesInv'
    <3> SUFFICES ASSUME NEW j \in DOMAIN lines' PROVE lines'[j].asked <= msg_count
      BY <1>1 DEF LinesInv
    <3>1. CASE j = Len(lines) + 1
      BY <1>2, <2>1, <2>3, <3>1 DEF Requests
    <3>2. CASE j \in DOMAIN lines
      <4>1. lines[j].asked \in Int
        BY <2>2, <3>2, LineFields
      <4> QED BY <1>2, <2>3, <2>6, <3>2, <4>1 DEF Requests
    <3> QED BY <2>3, <3>1, <3>2
  <2>9. LinesInOrder'
    <3>1. ASSUME NEW j \in DOMAIN lines'
          PROVE  /\ lines'[j].got <= lines'[j].asked
                 /\ lines'[j].got = Error => lines'[j].asked = 1
      <4>1. CASE j = Len(lines) + 1
        BY <2>1, <2>3, <2>7, <4>1
      <4>2. CASE j \in DOMAIN lines
        BY <2>3, <2>6, <4>2
      <4> QED BY <2>3, <4>1, <4>2
    <3>2. ASSUME NEW j \in DOMAIN lines', NEW l \in DOMAIN lines', j < l
          PROVE  lines'[j].asked < lines'[l].asked
      <4>1. CASE l = Len(lines) + 1
        <5>1. j \in DOMAIN lines
          BY <2>3, <3>2, <4>1
        <5> QED BY <2>1, <2>3, <2>6, <4>1, <5>1
      <4>2. CASE l \in DOMAIN lines
        <5>1. j \in DOMAIN lines
          BY <2>3, <3>2, <4>2
        <5> QED BY <2>3, <3>2, <4>2, <5>1 DEF IInv, LinesInOrder
      <4> QED BY <2>3, <4>1, <4>2
    <3> QED BY <3>1, <3>2 DEF LinesInOrder
  <2> QED BY <2>4, <2>5, <2>8, <2>9 DEF IInv
<1> QED BY <1>4, <1>5 DEF Judge

LEMMA ReceiveStep ==
  ASSUME IInv, Receive \/ ReceiveFails
  PROVE  IInv'
<1> USE PingAssumption
<1>1. CASE Receive
  <2>1. /\ queue \in Seq(Requests \union {Stray}) /\ queue # <<>>
        /\ Head(queue) = queue[1]
        /\ queue[1] \in Requests \union {Stray}
        /\ 1 \in DOMAIN queue
    BY <1>1 DEF Receive, IInv, TypeOK
  <2>2. /\ queue' \in Seq(Requests \union {Stray})
        /\ \A j \in DOMAIN queue' : j + 1 \in DOMAIN queue /\ queue'[j] = queue[j + 1]
    BY <1>1, <2>1 DEF Receive
  <2>3. \A j \in DOMAIN queue' : queue'[j] <= msg_count
    BY <2>2 DEF IInv, PastInv
  <2>4. Head(queue) \in Requests \union {Stray, Error} /\ Head(queue) <= msg_count
    BY <2>1 DEF IInv, PastInv
  <2> QED BY <1>1, <2>2, <2>3, <2>4, JudgeStep DEF Receive
<1>2. CASE ReceiveFails
  <2>1. Error \in Requests \union {Stray, Error} /\ Error <= msg_count
    BY DEF IInv, TypeOK, Error
  <2>2. /\ queue' = queue
        /\ queue' \in Seq(Requests \union {Stray})
        /\ \A j \in DOMAIN queue' : queue'[j] <= msg_count
    BY <1>2 DEF ReceiveFails, IInv, TypeOK, PastInv
  <2> QED BY <1>2, <2>1, <2>2, JudgeStep DEF ReceiveFails
<1> QED BY <1>1, <1>2

(* A message joins the end of the queue.                                   *)
LEMMA QueueStep ==
  ASSUME IInv, NEW msg \in Requests \union {Stray}, msg <= msg_count,
         queue' = Append(queue, msg)
  PROVE  /\ queue' \in Seq(Requests \union {Stray})
         /\ \A j \in DOMAIN queue' : queue'[j] <= msg_count
<1>1. /\ queue \in Seq(Requests \union {Stray})
      /\ \A j \in DOMAIN queue : queue[j] <= msg_count
  BY DEF IInv, TypeOK, PastInv
<1> QED BY <1>1

LEMMA ArriveStep ==
  ASSUME IInv, NEW k \in Requests, Arrive(k)
  PROVE  IInv'
<1> USE PingAssumption
<1>1. k <= msg_count
  BY DEF IInv, PastInv, Arrive
<1>2. /\ queue' \in Seq(Requests \union {Stray})
      /\ \A j \in DOMAIN queue' : queue'[j] <= msg_count
  BY <1>1, QueueStep DEF Arrive
<1>3. /\ coming' \in [Requests -> Nat]
      /\ \A l \in Requests : coming'[l] > 0 => coming[l] > 0
  BY DEF IInv, TypeOK, Arrive
<1>4. TypeOK'
  BY <1>2, <1>3 DEF IInv, TypeOK, Arrive
<1>5. CountInv' /\ LinesInv' /\ LinesInOrder'
  BY DEF IInv, Arrive, CountInv, LinesInv, LinesInOrder
<1>6. PastInv'
  BY <1>2, <1>3 DEF IInv, PastInv, Arrive
<1> QED BY <1>4, <1>5, <1>6 DEF IInv

LEMMA StrayStep ==
  ASSUME IInv, StrayArrives
  PROVE  IInv'
<1> USE PingAssumption
<1>1. /\ queue' \in Seq(Requests \union {Stray})
      /\ \A j \in DOMAIN queue' : queue'[j] <= msg_count
  <2>1. Stray <= msg_count
    BY DEF IInv, TypeOK, Stray
  <2> QED BY <2>1, QueueStep DEF StrayArrives
<1>2. TypeOK'
  BY <1>1 DEF IInv, TypeOK, StrayArrives
<1>3. CountInv' /\ LinesInv' /\ LinesInOrder'
  BY DEF IInv, StrayArrives, CountInv, LinesInv, LinesInOrder
<1>4. PastInv'
  BY <1>1 DEF IInv, PastInv, StrayArrives
<1> QED BY <1>2, <1>3, <1>4 DEF IInv

(* IInv is inductive.                                                      *)
LEMMA NextInv == IInv /\ [Next]_vars => IInv'
<1> SUFFICES ASSUME IInv, [Next]_vars PROVE IInv'
  OBVIOUS
<1>1. CASE UNCHANGED vars
  BY <1>1 DEF vars, IInv, TypeOK, CountInv, PastInv, LinesInv, LinesInOrder
<1>2. CASE Next
  BY <1>1, <1>2, OpenStep, SendStep, ReceiveStep, ArriveStep, StrayStep
     DEF Next, Ended
<1> QED BY <1>1, <1>2

LEMMA Invariant == Spec => []IInv
  BY InitInv, NextInv, PTL DEF Spec

-----------------------------------------------------------------------------
(* The counters of wifi.c stay in range; no sixth request is sent.         *)
THEOREM PingTyped == Spec => []TypeOK
<1>1. IInv => TypeOK BY DEF IInv
<1> QED BY <1>1, Invariant, PTL

(* No line of wifi.c:121 runs ahead of the requests, whatever arrives in   *)
(* whatever order and whichever calls fail.                                *)
THEOREM LinesOrdered == Spec => []LinesInOrder
<1>1. IInv => LinesInOrder BY DEF IInv
<1> QED BY <1>1, Invariant, PTL

FlagInv ==
  /\ unsent \subseteq 1..msg_count
  /\ unread \subseteq 1..Judged
  /\ flag = 1 <=> unsent = {}
  /\ FailedSendSilences

LEMMA InitFlag == Init => FlagInv
  BY DEF Init, FlagInv, FailedSendSilences, Judged

LEMMA SendFlag ==
  ASSUME IInv, FlagInv, Send
  PROVE  FlagInv'
<1>1. /\ msg_count \in Nat /\ msg_count' = msg_count + 1
      /\ Judged = msg_count /\ Judged' = msg_count
      /\ UNCHANGED <<unread, lines>>
  BY DEF IInv, TypeOK, Send, Judged
<1>2. \/ unsent' = unsent /\ flag' = flag
      \/ unsent' = unsent \union {msg_count + 1} /\ flag' = 0
  BY <1>1 DEF Send, FlagAfter
<1>3. /\ unsent \subseteq 1..msg_count /\ unread \subseteq 1..msg_count
      /\ flag = 1 <=> unsent = {}
  BY <1>1 DEF FlagInv
<1>4. unsent' \subseteq 1..msg_count' /\ (flag' = 1 <=> unsent' = {})
  <2>1. 1..msg_count' = 1..msg_count \union {msg_count + 1}
    BY <1>1
  <2>2. CASE unsent' = unsent /\ flag' = flag
    BY <1>3, <2>1, <2>2
  <2>3. CASE unsent' = unsent \union {msg_count + 1} /\ flag' = 0
    <3>1. msg_count + 1 \in unsent'
      BY <2>3
    <3>2. unsent' # {}
      BY <3>1
    <3>3. unsent' \subseteq 1..msg_count'
      BY <1>3, <2>1, <2>3
    <3> QED BY <2>3, <3>2, <3>3
  <2> QED BY <1>2, <2>2, <2>3
<1>5. ASSUME NEW k \in 1..msg_count PROVE Silenced(k)' <=> Silenced(k)
  <2>1. ~(msg_count + 1 <= k)
    BY <1>1
  <2> QED BY <1>2, <2>1 DEF Silenced
<1>6. FailedSendSilences'
  BY <1>1, <1>5 DEF FlagInv, FailedSendSilences
<1> QED BY <1>1, <1>3, <1>4, <1>6 DEF FlagInv

LEMMA JudgeFlag ==
  ASSUME IInv, FlagInv, pc = "recv", NEW got, Judge(got)
  PROVE  FlagInv'
<1> DEFINE n == msg_count
           Lined(k) == \E j \in DOMAIN lines : lines[j].asked = k
<1>1. /\ n \in Nat \ {0} /\ n' = n /\ UNCHANGED <<unsent, flag>>
      /\ Judged = n - 1 /\ Judged' = n
      /\ unread' = IF got = Error THEN unread \union {n} ELSE unread
  BY PingAssumption DEF IInv, TypeOK, CountInv, Judge, Judged
<1>2. /\ unsent \subseteq 1..n /\ unread \subseteq 1..n - 1
      /\ flag = 1 <=> unsent = {}
      /\ \A k \in 1..n - 1 : Lined(k) <=> ~Silenced(k) /\ (k \in unread => k = 1)
  BY <1>1 DEF FlagInv, FailedSendSilences
<1>3. /\ \A k \in 1..n - 1 : Lined(k)' <=> Lined(k)
      /\ Lined(n)' <=> Counted(got)
  <2>1. lines \in Seq(Line) /\ ~Lined(n)
    BY <1>1, LineFields DEF IInv, TypeOK, LinesInv
  <2>2. CASE Counted(got)
    <3> DEFINE new == [asked |-> n, got |-> got]
    <3>1. lines' = Append(lines, new) /\ new.asked = n
      BY <2>2 DEF Judge
    <3> HIDE DEF new
    <3>2. /\ DOMAIN lines' = 1..Len(lines) + 1 /\ DOMAIN lines = 1..Len(lines)
          /\ lines'[Len(lines) + 1] = new /\ Len(lines) \in Nat
          /\ \A j \in DOMAIN lines : lines'[j] = lines[j]
      BY <2>1, <3>1
    <3>3. \A j \in DOMAIN lines' : j \in DOMAIN lines \/ j = Len(lines) + 1
      BY <3>2
    <3>4. DOMAIN lines \subseteq DOMAIN lines' /\ Len(lines) + 1 \in DOMAIN lines'
      BY <3>2
    <3>5. ASSUME NEW k \in 1..n - 1 PROVE Lined(k)' <=> Lined(k)
      <4>1. k # n
        BY <1>1
      <4> QED BY <3>1, <3>2, <3>3, <3>4, <4>1
    <3>6. lines'[Len(lines) + 1].asked = n
      BY <3>1, <3>2
    <3>7. Lined(n)'
      BY <1>1, <3>4, <3>6
    <3> QED BY <2>2, <3>5, <3>7
  <2>3. CASE ~Counted(got)
    BY <1>1, <2>1, <2>3 DEF Judge
  <2> QED BY <2>2, <2>3
<1> HIDE DEF Lined
<1>4. \A k : Silenced(k)' <=> Silenced(k)
  BY <1>1 DEF Silenced
<1>5. ASSUME NEW k \in 1..n - 1
      PROVE  Lined(k)' <=> ~Silenced(k)' /\ (k \in unread' => k = 1)
  <2>1. k # n
    BY <1>1
  <2> QED BY <1>1, <1>2, <1>3, <1>4, <2>1
<1>6. Lined(n)' <=> ~Silenced(n)' /\ (n \in unread' => n = 1)
  <2>1. Silenced(n) <=> unsent # {}
    <3>1. \A k \in unsent : k <= n
      BY <1>1, <1>2
    <3> QED BY <3>1 DEF Silenced
  <2>2. n \in unread' <=> got = Error
    BY <1>1, <1>2
  <2>3. n > 1 <=> n # 1
    BY <1>1
  <2>4. Counted(got) <=> unsent = {} /\ ~(n \in unread' /\ n # 1)
    BY <1>2, <2>2, <2>3 DEF Counted, Refused
  <2>5. Silenced(n)' <=> unsent # {}
    BY <1>1, <1>4, <2>1
  <2> QED BY <1>3, <2>4, <2>5
<1>7. FailedSendSilences'
  <2>1. \A k \in 1..n : k \in 1..n - 1 \/ k = n
    BY <1>1
  <2> QED BY <1>1, <1>5, <1>6, <2>1 DEF FailedSendSilences, Lined
<1>8. unread' \subseteq 1..n
  BY <1>1, <1>2
<1> QED BY <1>1, <1>2, <1>7, <1>8 DEF FlagInv

LEMMA NextFlag == IInv /\ FlagInv /\ [Next]_vars => FlagInv'
<1> SUFFICES ASSUME IInv, FlagInv, [Next]_vars PROVE FlagInv'
  OBVIOUS
<1>1. CASE Receive \/ ReceiveFails
  BY <1>1, JudgeFlag DEF Receive, ReceiveFails
<1>2. CASE (\E k \in Requests : Arrive(k)) \/ StrayArrives \/ UNCHANGED vars
  BY <1>2 DEF Arrive, StrayArrives, vars, FlagInv, FailedSendSilences, Silenced, Judged
<1>3. CASE Open
  BY <1>3 DEF Open, FlagInv, FailedSendSilences, Silenced, Judged
<1> QED BY <1>1, <1>2, <1>3, SendFlag DEF Next, Ended

(* Exactly the requests before the first failed sendto make a line         *)
(* (wifi.c:109), but for those from the second on whose recvfrom failed.   *)
THEOREM FailureSilences == Spec => []FailedSendSilences
<1>1. FlagInv => FailedSendSilences BY DEF FlagInv
<1> QED BY <1>1, InitFlag, NextFlag, Invariant, PTL DEF Spec

-----------------------------------------------------------------------------
(***************************************************************************)
(* Checksum: the sum is what the receiver has, but for multiples of one    *)
(* less than the number of values of a word, which the folds take away.    *)
(***************************************************************************)
Unit == Base - 1

LEMMA UnitIs == Base \in Nat /\ Unit \in Nat \ {0} /\ Base = Unit + 1
BY SumAssumption DEF Unit

(* The two halves of the sum                                               *)
LEMMA Halves ==
  ASSUME NEW s \in Nat, s < Base * Base
  PROVE  s \div Base \in Words /\ s % Base \in Words /\ s = (s \div Base) * Base + (s % Base)
<1>1. Base \in Nat \ {0}
  BY UnitIs
<1> DEFINE q == s \div Base
           r == s % Base
<1>2. q \in Nat /\ r \in 0..Base - 1 /\ s = Base * q + r
  BY <1>1
<1> HIDE DEF q, r
<1>3. q < Base
  <2>1. SUFFICES ASSUME q >= Base PROVE FALSE
    BY <1>1, <1>2
  <2>2. Base * q >= Base * Base
    BY <1>1, <1>2, <2>1
  <2> QED BY <1>1, <1>2, <2>2
<1>4. Base * q = q * Base
  BY <1>1, <1>2
<1> QED BY <1>1, <1>2, <1>3, <1>4 DEF Words, q, r

LEMMA Carries ==
  ASSUME NEW a \in Words, NEW b \in Words
  PROVE  /\ a + b >= Base => OnesAdd(a, b) = a + b - Unit
         /\ ~(a + b >= Base) => OnesAdd(a, b) = a + b
<1>1. a \in Int /\ b \in Int /\ Base \in Int
  BY UnitIs DEF Words
<1> QED BY <1>1 DEF OnesAdd, Unit

LEMMA OnesAddIs ==
  ASSUME NEW a \in Words, NEW b \in Words
  PROVE  /\ OnesAdd(a, b) \in Words
         /\ a + b = OnesAdd(a, b) \/ a + b = OnesAdd(a, b) + Unit
         /\ OnesAdd(a, b) = 0 <=> a + b = 0
BY SumAssumption DEF OnesAdd, Words, Unit

(* What is cut off by the folds is a multiple of Unit; nothing but 0       *)
(* becomes 0.                                                              *)
LEMMA FoldIs ==
  ASSUME NEW s \in Nat, s < Base * Base
  PROVE  /\ Fold(s) \in Words /\ (Fold(s) = 0 <=> s = 0)
         /\ \E m \in Nat : s = Fold(s) + m * Unit
<1> DEFINE hi == s \div Base
           lo == s % Base
           once == hi + lo
<1>1. hi \in Words /\ lo \in Words /\ s = hi * Base + lo
  BY Halves
<1>2. Fold(s) = (once + (once \div Base)) % Base
  BY DEF Fold
<1>3. s = once + hi * Unit
  <2> HIDE DEF hi, lo
  <2>1. hi * Base = hi * Unit + hi
    BY <1>1, UnitIs DEF Words
  <2> QED BY <1>1, <2>1, UnitIs DEF Words
<1> HIDE DEF hi, lo
<1>4. Fold(s) = OnesAdd(hi, lo)
  <2>1. Base \in Nat \ {0, 1} /\ once \in 0..2 * Base - 2
    BY <1>1, SumAssumption DEF Words
  <2>2. CASE once < Base
    <3>1. once \div Base = 0 /\ once % Base = once
      BY <2>1, <2>2
    <3> QED BY <1>2, <2>1, <2>2, <3>1 DEF OnesAdd
  <2>3. CASE once >= Base
    <3>1. once \div Base = 1
      BY <2>1, <2>3
    <3>2. (once + 1) % Base = once + 1 - Base
      BY <2>1, <2>3
    <3>3. Fold(s) = once + 1 - Base
      BY <1>2, <3>1, <3>2
    <3>4. OnesAdd(hi, lo) = once - Unit
      <4>1. hi + lo >= Base => OnesAdd(hi, lo) = hi + lo - Unit
        BY <1>1, Carries
      <4>2. hi + lo >= Base
        BY <2>3 DEF once
      <4>3. OnesAdd(hi, lo) = hi + lo - Unit
        BY <4>1, <4>2
      <4>4. hi \in Int /\ lo \in Int /\ Unit \in Int
        BY <1>1, UnitIs DEF Words
      <4> QED BY <4>3, <4>4 DEF once
    <3> QED BY <2>1, <3>3, <3>4 DEF Unit
  <2> QED BY <2>1, <2>2, <2>3
<1>5. /\ Fold(s) \in Words
      /\ once = Fold(s) \/ once = Fold(s) + Unit
      /\ Fold(s) = 0 <=> once = 0
  BY <1>1, <1>4, OnesAddIs
<1>6. s = Fold(s) + hi * Unit \/ s = Fold(s) + (hi + 1) * Unit
  BY <1>1, <1>3, <1>5, UnitIs DEF Words
<1>7. hi \in Nat /\ hi + 1 \in Nat /\ lo \in Nat
  BY <1>1, UnitIs DEF Words
<1>8. s = 0 <=> once = 0
  <2>1. once = 0 => hi = 0 /\ s = 0
    BY <1>3, <1>7, UnitIs
  <2>2. hi * Unit \in Nat
    BY <1>7, UnitIs
  <2> QED BY <1>3, <1>7, <2>1, <2>2
<1> QED BY <1>5, <1>6, <1>7, <1>8

(* Two words that differ by a multiple of Unit, and are 0 together, are    *)
(* the same.                                                               *)
LEMMA SameWord ==
  ASSUME NEW a \in Words, NEW b \in Words, a = 0 <=> b = 0,
         NEW k \in Nat, NEW m \in Nat, a + k * Unit = b + m * Unit
  PROVE  a = b
<1>1. a \in 0..Unit /\ b \in 0..Unit /\ Unit \in Nat \ {0}
  BY UnitIs DEF Words
<1>2. CASE k = m
  <2>1. k * Unit \in Nat
    BY <1>1
  <2> QED BY <1>1, <1>2, <2>1
<1>3. CASE k >= m + 1
  <2>1. k * Unit >= (m + 1) * Unit /\ (m + 1) * Unit = m * Unit + Unit
    BY <1>1, <1>3
  <2>2. k * Unit \in Nat /\ m * Unit \in Nat
    BY <1>1
  <2> QED BY <1>1, <2>1, <2>2
<1>4. CASE m >= k + 1
  <2>1. m * Unit >= (k + 1) * Unit /\ (k + 1) * Unit = k * Unit + Unit
    BY <1>1, <1>4
  <2>2. k * Unit \in Nat /\ m * Unit \in Nat
    BY <1>1
  <2> QED BY <1>1, <2>1, <2>2
<1> QED BY <1>2, <1>3, <1>4

(* The sum before it is folded, and what the receiver has meanwhile; each  *)
(* word adds at most Unit.                                                 *)
Congruent ==
  /\ sum \in Nat /\ carried \in Words
  /\ carried = 0 <=> sum = 0
  /\ \E k \in Nat : sum = carried + k * Unit

SumInv ==
  /\ packet \in SeqOf(Words, MaxWords) /\ byte \in Bytes
  /\ len \in 0..Len(packet)
  /\ Congruent
  /\ IF result = NoResult THEN sum <= (Len(packet) - len) * Unit ELSE len = 0

LEMMA Added ==
  ASSUME Congruent, NEW w \in Words, sum' = sum + w, carried' = OnesAdd(carried, w)
  PROVE  Congruent'
<1>1. /\ carried' \in Words /\ (carried' = 0 <=> carried + w = 0)
      /\ carried + w = carried' \/ carried + w = carried' + Unit
  BY OnesAddIs DEF Congruent
<1>2. PICK k \in Nat : sum = carried + k * Unit
  BY DEF Congruent
<1>3. /\ sum \in Nat /\ carried \in Nat /\ w \in Nat /\ carried' \in Nat
      /\ k * Unit \in Nat /\ Unit \in Nat /\ (k + 1) * Unit = k * Unit + Unit
  BY <1>1, UnitIs DEF Congruent, Words
<1>4. sum' = carried' + k * Unit \/ sum' = carried' + (k + 1) * Unit
  BY <1>1, <1>2, <1>3
<1>5. \E m \in Nat : sum' = carried' + m * Unit
  BY <1>4
<1>6. carried' = 0 <=> sum' = 0
  BY <1>1, <1>3 DEF Congruent
<1> QED BY <1>1, <1>3, <1>5, <1>6 DEF Congruent

LEMMA PacketIs ==
  ASSUME packet \in SeqOf(Words, MaxWords)
  PROVE  /\ Len(packet) \in 0..MaxWords
         /\ \A k \in 1..Len(packet) : packet[k] \in Words
<1>1. PICK n \in 0..MaxWords : packet \in [1..n -> Words]
  BY DEF SeqOf
<1>2. n \in Nat
  BY SumAssumption
<1>3. packet \in Seq(Words) /\ Len(packet) = n
  BY <1>1, <1>2
<1> QED BY <1>1, <1>3

LEMMA SumStarts == SumInit => SumInv /\ ReceiverAccepts
<1> SUFFICES ASSUME SumInit PROVE SumInv /\ ReceiverAccepts
  OBVIOUS
<1>1. Len(packet) \in Nat
  BY PacketIs, SumAssumption DEF SumInit
<1>2. Congruent
  <2>1. 0 = 0 + 0 * Unit /\ 0 \in Words
    BY UnitIs DEF Words
  <2> QED BY <2>1 DEF SumInit, Congruent
<1>3. sum <= (Len(packet) - len) * Unit
  <2>1. Len(packet) - len = 0
    BY <1>1 DEF SumInit
  <2> QED BY <2>1, UnitIs DEF SumInit
<1> QED BY <1>1, <1>2, <1>3 DEF SumInit, SumInv, ReceiverAccepts

LEMMA WordAdded ==
  ASSUME SumInv, ReceiverAccepts, AddWord
  PROVE  SumInv' /\ ReceiverAccepts'
<1>1. Len(packet) \in Nat /\ len \in 1..Len(packet) /\ Word \in Words
  BY PacketIs, SumAssumption DEF SumInv, AddWord, Word
<1>2. Congruent'
  BY <1>1, Added DEF SumInv, AddWord
<1>3. ASSUME result = NoResult PROVE sum' <= (Len(packet) - len') * Unit
  <2>1. /\ sum \in Nat /\ sum <= (Len(packet) - len) * Unit
        /\ Word \in 0..Unit /\ Unit \in Nat
    BY <1>1, <1>3, UnitIs DEF SumInv, Congruent, Words
  <2>2. (Len(packet) - (len - 1)) * Unit = (Len(packet) - len) * Unit + Unit
    BY <1>1, <2>1
  <2>3. (Len(packet) - len) * Unit \in Int
    BY <1>1, <2>1
  <2> QED BY <2>1, <2>2, <2>3 DEF AddWord
<1>4. /\ UNCHANGED <<packet, byte, result>> /\ len' = len - 1
  BY DEF AddWord
<1>5. SumInv'
  BY <1>1, <1>2, <1>3, <1>4 DEF SumInv
<1>6. result = NoResult
  BY <1>1 DEF SumInv
<1> QED BY <1>4, <1>5, <1>6 DEF ReceiverAccepts

LEMMA Returned ==
  ASSUME SumInv, ReceiverAccepts, Return
  PROVE  SumInv' /\ ReceiverAccepts'
<1>1. /\ byte \in Words /\ sum' = sum + byte /\ carried' = OnesAdd(carried, byte)
      /\ result' = Base - 1 - Fold(sum') /\ len = 0 /\ result = NoResult
      /\ UNCHANGED <<packet, byte, len>>
  BY DEF SumInv, Return, Bytes
<1>2. Congruent'
  BY <1>1, Added DEF SumInv
<1>3. sum' \in Nat /\ sum' < Base * Base
  <2>1. /\ Len(packet) \in 0..MaxWords /\ MaxWords \in 0..Base
        /\ sum \in Nat /\ sum <= (Len(packet) - 0) * Unit /\ byte \in 0..Unit
    BY <1>1, PacketIs, SumAssumption, UnitIs DEF SumInv, Congruent, Words
  <2>2. Len(packet) \in 0..Base
    BY <2>1, UnitIs
  <2>3. Len(packet) * Unit <= Base * Unit /\ Len(packet) * Unit \in Nat
    BY <2>2, UnitIs
  <2>4. Base * Base = Base * Unit + Unit + 1 /\ Base * Unit \in Nat
    BY UnitIs
  <2> QED BY <1>1, <2>1, <2>2, <2>3, <2>4, UnitIs
<1>4. Fold(sum') = carried'
  <2>1. /\ Fold(sum') \in Words /\ (Fold(sum') = 0 <=> sum' = 0)
        /\ \E m \in Nat : sum' = Fold(sum') + m * Unit
    BY <1>3, FoldIs
  <2>2. PICK m \in Nat : sum' = Fold(sum') + m * Unit
    BY <2>1
  <2>3. PICK k \in Nat : sum' = carried' + k * Unit
    BY <1>2 DEF Congruent
  <2>4. carried' \in Words /\ (Fold(sum') = 0 <=> carried' = 0)
    BY <1>2, <2>1 DEF Congruent
  <2>5. Fold(sum') + m * Unit = carried' + k * Unit
    BY <2>2, <2>3
  <2> QED BY <2>1, <2>4, <2>5, SameWord
<1>5. carried' \in 0..Base - 1 /\ Base \in Nat
  BY <1>2, UnitIs DEF Congruent, Words
<1>6. result' = Base - 1 - carried' /\ result' # NoResult
  BY <1>1, <1>4, <1>5 DEF NoResult
<1>7. ReceiverAccepts'
  <2>1. /\ carried' \in Words /\ result' \in Words
        /\ carried' + result' = Unit /\ ~(Unit >= Base)
    <3> DEFINE c == carried'
               r == result'
    <3>1. c \in Int /\ Base \in Int /\ c >= 0 /\ c <= Base - 1 /\ r = Base - 1 - c
      BY <1>5, <1>6
    <3> HIDE DEF c, r
    <3>2. c \in Words /\ r \in Words /\ c + r = Base - 1 /\ ~(Base - 1 >= Base)
      BY <3>1 DEF Words
    <3> QED BY <3>2 DEF c, r, Unit
  <2>2. OnesAdd(carried', result') = Base - 1
    BY <2>1, Carries DEF Unit
  <2> QED BY <2>2 DEF ReceiverAccepts
<1> QED BY <1>1, <1>2, <1>6, <1>7 DEF SumInv

(* The checksum of a packet of any words, and of any odd byte, makes a     *)
(* receiver's sum all ones, for words of any width (wifi.c:18-33).         *)
THEOREM ChecksumAccepted == SumSpec => []ReceiverAccepts
<1>1. SumInv /\ ReceiverAccepts /\ [SumNext]_sumVars => (SumInv /\ ReceiverAccepts)'
  <2>1. ASSUME SumInv, ReceiverAccepts, UNCHANGED sumVars
        PROVE  SumInv' /\ ReceiverAccepts'
    BY <2>1 DEF sumVars, SumInv, Congruent, ReceiverAccepts
  <2> QED BY <2>1, WordAdded, Returned DEF SumNext, Summed
<1> QED BY <1>1, SumStarts, PTL DEF SumSpec
==============================================================================
