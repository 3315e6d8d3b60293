------------------------------ MODULE PingClaims ------------------------------
(***************************************************************************)
(* What wifi.c says in its own output and comparisons, and does not do.    *)
(***************************************************************************)
EXTENDS Ping

(* "Ping to <host>, rtt = <t> ms" (wifi.c:121): the message whose arrival   *)
(* was timed answers the request that was timed.                            *)
LinesAreAnswers == \A j \in DOMAIN lines : lines[j].got \in {lines[j].asked, Error}
==============================================================================
