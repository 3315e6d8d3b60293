------------------------------ MODULE MCNobrand ------------------------------
(***************************************************************************)
(* Two clients, and three loads: one to be open on, one to come while a    *)
(* client still has the file of the first, one that finds the number taken.*)
(***************************************************************************)
EXTENDS Nobrand

mcClients == {"app1", "app2"}
==============================================================================
