----------------------------- MODULE TestStation -----------------------------
(***************************************************************************)
(* What the combined test program (src/CombineCode/main.c) promises,       *)
(* whatever happens on the pins.  A round puts the tests of Order to the   *)
(* board n times over, one verdict a turn, and counts the passes; it then  *)
(* reports or, if a test cannot go on, the station goes off in the middle. *)
(* A pass is earned: able is the set of tests that the board, wired as it  *)
(* is, gives any grounds to pass.  The station may fail a test without     *)
(* grounds; it never passes one without.                                   *)
(***************************************************************************)
EXTENDS Integers, Sequences

CONSTANTS
  Tests,      \* the names a summary prints
  Order,      \* the tests an iteration runs, in order: a nonempty sequence
  n           \* iterations of a round, at least one

VARIABLES
  phase,    \* "idle", "testing", "summary" or "off"
  lap,      \* completed iterations of the round, while testing
  turn,     \* the position in Order of the test that runs
  tally,    \* the passes of each test since the program started
  able      \* the tests with grounds to pass

stationVars == <<phase, lap, turn, tally, able>>

TypeOK ==
  /\ phase \in {"idle", "testing", "summary", "off"}
  /\ lap \in 0..(n - 1)
  /\ turn \in 1..Len(Order)
  /\ tally \in [Tests -> Nat]
  /\ able \subseteq Tests

Init ==
  /\ phase = "idle"
  /\ lap = 0
  /\ turn = 1
  /\ tally = [t \in Tests |-> 0]
  /\ able \subseteq Tests

Begin ==
  /\ phase = "idle"
  /\ phase' = "testing"
  /\ UNCHANGED <<lap, turn, tally, able>>

Verdict(v) ==
  /\ phase = "testing"
  /\ v = 1 => Order[turn] \in able
  /\ tally' = [tally EXCEPT ![Order[turn]] = @ + v]
  /\ IF turn < Len(Order)
     THEN turn' = turn + 1 /\ UNCHANGED <<lap, phase>>
     ELSE /\ turn' = 1
          /\ IF lap < n - 1
             THEN lap' = lap + 1 /\ UNCHANGED phase
             ELSE lap' = 0 /\ phase' = "summary"
  /\ UNCHANGED able

GiveUp ==
  /\ phase = "testing"
  /\ phase' = "off"
  /\ UNCHANGED <<lap, turn, tally, able>>

Report ==
  /\ phase = "summary"
  /\ phase' = "idle"
  /\ UNCHANGED <<lap, turn, tally, able>>

Rewire ==
  /\ phase = "idle"
  /\ able' \subseteq Tests
  /\ UNCHANGED <<phase, lap, turn, tally>>

Next == Begin \/ (\E v \in {0, 1} : Verdict(v)) \/ GiveUp \/ Report \/ Rewire

Spec == Init /\ [][Next]_stationVars

==============================================================================
