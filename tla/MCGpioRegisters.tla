--------------------------- MODULE MCGpioRegisters ---------------------------
(***************************************************************************)
(* All twenty-seven pins.  The registers hold what they do after booting   *)
(* with I2C, SPI and UART on, or one pin in another function than input;   *)
(* at most one pin is broken.                                              *)
(***************************************************************************)
EXTENDS GpioRegisters

mcAlt0 == {2, 3} \union (7..11) \union {14, 15}
mcBooted == [r \in Regs |-> {Low3(p) + 2 : p \in {q \in mcAlt0 : RegOf(q) = r}}]

mcUsed(p, f) == [r \in Regs |-> IF r = RegOf(p) THEN {Low3(p) + b : b \in f} ELSE {}]
mcSetups == {mcBooted} \union {mcUsed(p, f) : p \in {0, 9, 20, 28}, f \in {{0}, {2}, {1, 2}}}

mcSound  == [p \in Pins |-> "ok"]
mcBoards == {mcSound} \union
  {[mcSound EXCEPT ![p] = f] : p \in {0, 10, 19, 26}, f \in PinFaults \ {"ok"}}

mcEchoes == {{}, Bits}
==============================================================================
