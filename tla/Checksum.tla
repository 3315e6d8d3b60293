------------------------------- MODULE Checksum -------------------------------
(***************************************************************************)
(* checksum() of ExampleCode/code/wifi.c: the words of a packet are summed *)
(* up in an integer that is wider than they are, an odd byte at the end is *)
(* added, and what has run over is folded back twice.  Base is the number  *)
(* of values of a word: 65536 in the code.                                 *)
(***************************************************************************)
EXTENDS Integers, Sequences, SequencesExt

CONSTANTS Base, MaxWords

(* The packet of the program has 32 words; as many as a word has values,   *)
(* and an odd byte, leave the sum within two words, which it has.          *)
ASSUME SumAssumption ==
  /\ Base \in Nat \ {0, 1}
  /\ MaxWords \in 0..Base

Words  == 0..Base - 1
Bytes  == {b \in Words : b * b < Base}

VARIABLES
  packet,  \* the words it was called on
  byte,    \* the odd byte; 0 if there is none
  len,     \* the words still to be added
  sum,
  result,  \* -1 until it returns
  carried  \* history: what a receiver has who adds the same, each time with
           \* an end-around carry

sumVars == <<packet, byte, len, sum, result, carried>>

NoResult == -1

SumInit ==
  /\ packet \in SeqOf(Words, MaxWords)
  /\ byte \in Bytes
  /\ len = Len(packet)
  /\ sum = 0
  /\ result = NoResult
  /\ carried = 0

(* Slip: one fold is enough. *)
FoldOnce(s) == s \div Base + (s % Base)

-----------------------------------------------------------------------------
(* Addition with an end-around carry, by which a receiver sums a packet up *)
OnesAdd(a, b) == IF a + b >= Base THEN a + b - Base + 1 ELSE a + b

Word == packet[Len(packet) - len + 1]

AddWord ==
  /\ len > 0
  /\ sum' = sum + Word
  /\ carried' = OnesAdd(carried, Word)
  /\ len' = len - 1
  /\ UNCHANGED <<packet, byte, result>>

(* (sum >> 16) + (sum & 0xFFFF), twice; the rest is cut off. *)
Fold(s) == LET once == s \div Base + (s % Base) IN (once + once \div Base) % Base

Return ==
  /\ len = 0
  /\ result = NoResult
  /\ sum' = sum + byte
  /\ result' = Base - 1 - Fold(sum')
  /\ carried' = OnesAdd(carried, byte)
  /\ UNCHANGED <<packet, byte, len>>

Summed == result # NoResult /\ UNCHANGED sumVars

SumNext == AddWord \/ Return \/ Summed

SumSpec == SumInit /\ [][SumNext]_sumVars

-----------------------------------------------------------------------------
(* A receiver that adds the words, the byte and the checksum, carrying     *)
(* around after each, gets all ones (wifi.c:18-33): two folds at the end   *)
(* do for any carries on the way.                                          *)
ReceiverAccepts ==
  result # NoResult => OnesAdd(carried, result) = Base - 1
==============================================================================
