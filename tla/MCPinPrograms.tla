---------------------------- MODULE MCPinPrograms ----------------------------
(***************************************************************************)
(* Every two programs, and the three that change pins of both registers,   *)
(* on pins that were inputs or of which two had another function (ALT0).   *)
(* A set register reads as the letters "gpio", 0x6770696f, which of these  *)
(* pins are 3 and 13, or as nothing.                                       *)
(***************************************************************************)
EXTENDS PinPrograms

mcGroups ==
  LET Writers == {"LED", "LCD", "setup", "PWMtest", "PWMTest2", "PWMTest3"}
  IN  {{p, q} : p, q \in Writers} \union {{"custom"}, {"LED", "LCD", "setup"}}

mcFound == {[p \in UsedPins |-> 0], [p \in UsedPins |-> IF p \in {3, 4} THEN 4 ELSE 0]}

mcPinEchoes == {{}, {3, 13}}
==============================================================================
