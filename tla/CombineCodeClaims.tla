-------------------------- MODULE CombineCodeClaims --------------------------
(***************************************************************************)
(* What the repository says of the combined test program (menu texts,      *)
(* comments, the project's README, the GPIO test specification) and the    *)
(* program does not do.  Each claim is refuted by a run of its own.        *)
(***************************************************************************)
EXTENDS CombineCode

(* The summary splits the n tests of "Total Test" (main.c:45) into passes   *)
(* and failures (main.c:37-44), so neither number is negative.              *)
FailuresNotNegative == pc = "summary" => \A t \in Reported : Fail(t) >= 0

(* The program checks automatically that parts are sound (README.md:10): a  *)
(* sound board on a sound station fails no pin, in whichever round.         *)
SoundBoardPasses ==
  pc = "summary" /\ SoundStation =>
    printed["GPIO"] = {} /\ printed["PWM"] = {}
==============================================================================
