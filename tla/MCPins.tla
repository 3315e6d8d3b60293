-------------------------------- MODULE MCPins --------------------------------
(***************************************************************************)
(* What acts on the pins without wiringPi's help or the station's: either  *)
(* the small programs, several at a time, or the walk over the function    *)
(* select registers.  The other lies idle.                                 *)
(***************************************************************************)
EXTENDS MCPinPrograms, MCGpioRegisters

VARIABLE runs   \* "programs" or "walk"

PinsInit ==
  /\ runs \in {"programs", "walk"}
  /\ PinInit  /\ (runs = "programs" \/ (group = {"custom"} /\ fn[3] = 0))
  /\ WalkInit /\ (runs = "walk" \/ (gpfsel = mcBooted /\ latch = {} /\ broken = mcSound))

PinsNext ==
  \/ runs = "programs" /\ PinNext /\ UNCHANGED <<runs, walkVars>>
  \/ runs = "walk" /\ WalkNext /\ UNCHANGED <<runs, pinVars>>

PinsSpec == PinsInit /\ [][PinsNext]_<<runs, pinVars, walkVars>>
==============================================================================
