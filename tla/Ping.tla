--------------------------------- MODULE Ping ---------------------------------
(***************************************************************************)
(* ExampleCode/code/wifi.c: five ICMP echo requests over a raw socket, one *)
(* a second, each followed by one blocking recvfrom whose return stands    *)
(* for the answer.                                                         *)
(*                                                                         *)
(* A raw ICMP socket is given every ICMP message that reaches the host, in *)
(* the order of arrival.  The answer to a request may be lost, late or     *)
(* duplicated, and messages that answer nothing may come in (strays).      *)
(* Messages are named by the request they answer; 0 is a stray.  What the  *)
(* program looks at in a message is nothing, so nothing more is modelled;  *)
(* checksum() is module Checksum.                                          *)
(***************************************************************************)
EXTENDS Integers, Sequences

CONSTANTS
  Total,      \* requests of a run: 5 in the code
  Copies,     \* how often the answer to one request may arrive in the end
  Strays,     \* how many strays may arrive: a bound
  Failures    \* what the socket calls may do wrong: {}, {"send"}, {"send", "recv"} ...

Requests == 1..Total
Stray    == 0
Error    == -1

ASSUME PingAssumption ==
  /\ Total \in Nat \ {0}
  /\ Copies \subseteq Nat /\ Copies # {}
  /\ Strays \in Nat

VARIABLES
  pc,         \* "start", "send", "recv", "done" (returned 0) or "failed" (1)
  family,     \* address family of the socket: 4 or 6
  msg_count,  \* requests tried so far
  flag,       \* 1 until a sendto fails
  msg_received_count,
  coming,     \* for each request, how many copies of its answer are on the way
  strays,     \* strays still to come
  queue,      \* the socket's receive queue
  unanswered, \* requests nothing will answer: a history variable
  unsent,     \* history: the requests whose sendto failed
  unread,     \* history: the requests whose recvfrom failed
  lines       \* the "Ping to" lines: which request, which message it took

vars == <<pc, family, msg_count, flag, msg_received_count, coming, strays,
          queue, unanswered, unsent, unread, lines>>

Init ==
  /\ pc = "start"
  /\ family = 4
  /\ msg_count = 0
  /\ flag = 1
  /\ msg_received_count = 0
  /\ coming = [k \in Requests |-> 0]
  /\ strays = Strays
  /\ queue = <<>>
  /\ unanswered = {} /\ unsent = {} /\ unread = {}
  /\ lines = <<>>

-----------------------------------------------------------------------------
(* (Slips, as a likely bug would have them: errors taken for answers at     *)
(* every request; flag set back by a sendto that succeeds; one round too    *)
(* many.)                                                                   *)
RefusesNothing(got) == FALSE
FlagSetBack(sent) == IF sent THEN 1 ELSE 0
MoreOffByOne == msg_count <= Total

(* Usage, privilege, name and socket: each can end the program.  The socket *)
(* loop takes the first address for which socket() works, of either family. *)
Open ==
  /\ pc = "start"
  /\ \/ pc' = "failed" /\ UNCHANGED family
     \/ pc' = "send" /\ family' \in {4, 6}
  /\ UNCHANGED <<msg_count, flag, msg_received_count, coming, strays,
                 queue, unanswered, unsent, unread, lines>>

(* A failed sendto clears flag, and nothing sets it again. *)
FlagAfter(sent) == IF sent THEN flag ELSE 0

(* An IPv6 socket opened for the IPv4 protocol number gets no answers. *)
Send ==
  /\ pc = "send"
  /\ msg_count' = msg_count + 1
  /\ \/ /\ \E c \in (IF family = 4 THEN Copies ELSE {0}) :
             /\ coming' = [coming EXCEPT ![msg_count'] = c]
             /\ unanswered' = IF c = 0 THEN unanswered \union {msg_count'} ELSE unanswered
        /\ flag' = FlagAfter(TRUE)
        /\ UNCHANGED unsent
     \/ /\ "send" \in Failures
        /\ flag' = FlagAfter(FALSE)
        /\ unanswered' = unanswered \union {msg_count'}
        /\ unsent' = unsent \union {msg_count'}
        /\ UNCHANGED coming
  /\ pc' = "recv"
  /\ UNCHANGED <<family, msg_received_count, strays, queue, unread, lines>>

(* Whether recvfrom's return is taken for a failure: <= 0 && msg_count > 1 *)
Refused(got) == got = Error /\ msg_count > 1

(* Whether it makes a line and is counted *)
Counted(got) == ~Refused(got) /\ flag = 1

(* The loop condition, looked at after each recvfrom *)
More == msg_count < Total

Judge(got) ==
  /\ IF Counted(got)
     THEN /\ msg_received_count' = msg_received_count + 1
          /\ lines' = Append(lines, [asked |-> msg_count, got |-> got])
     ELSE UNCHANGED <<msg_received_count, lines>>
  /\ unread' = IF got = Error THEN unread \union {msg_count} ELSE unread
  /\ pc' = IF More THEN "send" ELSE "done"
  /\ UNCHANGED <<family, msg_count, flag, coming, strays, unanswered, unsent>>

(* (A slip: on a host that pings itself the request comes in as well, and a *)
(* first recvfrom is added to skip it.)                                     *)
ReceiveSkipsFirst ==
  /\ pc = "recv"
  /\ Len(queue) >= 2
  /\ Judge(queue[2])
  /\ queue' = Tail(Tail(queue))

(* recvfrom blocks until there is a message, and takes the oldest. *)
Receive ==
  /\ pc = "recv"
  /\ queue # <<>>
  /\ Judge(Head(queue))
  /\ queue' = Tail(queue)

ReceiveFails ==
  /\ pc = "recv"
  /\ "recv" \in Failures
  /\ Judge(Error)
  /\ UNCHANGED queue

-----------------------------------------------------------------------------
(* The network *)
Arrive(k) ==
  /\ coming[k] > 0
  /\ coming' = [coming EXCEPT ![k] = @ - 1]
  /\ queue' = Append(queue, k)
  /\ UNCHANGED <<pc, family, msg_count, flag, msg_received_count, strays,
                 unanswered, unsent, unread, lines>>

StrayArrives ==
  /\ pc \in {"send", "recv"}
  /\ strays > 0
  /\ strays' = strays - 1
  /\ queue' = Append(queue, Stray)
  /\ UNCHANGED <<pc, family, msg_count, flag, msg_received_count, coming,
                 unanswered, unsent, unread, lines>>

Ended == pc \in {"done", "failed"} /\ UNCHANGED vars

Next ==
  \/ Open \/ Send \/ Receive \/ ReceiveFails
  \/ (\E k \in Requests : Arrive(k)) \/ StrayArrives
  \/ Ended

Spec == Init /\ [][Next]_vars

(* The program takes its steps, and what is on the way arrives. *)
FairSpec ==
  /\ Spec
  /\ WF_vars(Open) /\ WF_vars(Send) /\ WF_vars(Receive)
  /\ \A k \in Requests : WF_vars(Arrive(k))

-----------------------------------------------------------------------------
Line  == [asked : Requests, got : Requests \union {Stray, Error}]

(* Every variable stays in its range; no more than Total requests are sent. *)
TypeOK ==
  /\ pc \in {"start", "send", "recv", "done", "failed"}
  /\ family \in {4, 6}
  /\ msg_count \in 0..Total
  /\ flag \in {0, 1}
  /\ msg_received_count \in 0..Total
  /\ coming \in [Requests -> Nat]
  /\ strays \in 0..Strays
  /\ queue \in Seq(Requests \union {Stray})
  /\ unanswered \subseteq Requests
  /\ unsent \subseteq Requests /\ unread \subseteq Requests
  /\ lines \in Seq(Line)

(* Requests are not overtaken: a line never shows the answer to a request   *)
(* that comes later than the one it is printed for, an error is only taken  *)
(* for an answer at the first request (wifi.c:113), and there is one line   *)
(* at most for each request, in order.                                      *)
LinesInOrder ==
  /\ \A j \in DOMAIN lines :
       /\ lines[j].got <= lines[j].asked
       /\ lines[j].got = Error => lines[j].asked = 1
  /\ \A j, l \in DOMAIN lines : j < l => lines[j].asked < lines[l].asked

(* The first sendto that fails silences its own request and every later    *)
(* one, however well those are sent and answered: flag is never set again  *)
(* (wifi.c:109).  Of the requests before it each makes its line, except    *)
(* those, from the second on, whose recvfrom failed (:113).                *)
Judged      == IF pc = "recv" THEN msg_count - 1 ELSE msg_count
Silenced(k) == \E i \in unsent : i <= k

FailedSendSilences ==
  \A k \in 1..Judged :
    (\E j \in DOMAIN lines : lines[j].asked = k)
      <=> ~Silenced(k) /\ (k \in unread => k = 1)

(* There is no receive timeout, so the program lives on there being one     *)
(* message at least for each of its blocking calls (wifi.c:113).  It gets   *)
(* them if every request is answered, and then the rounds come to an end,   *)
(* with failing receives, duplicates and strays in between.                 *)
AnsweredRunEnds == pc = "send" ~> pc = "done" \/ unanswered # {}
==============================================================================
