-------------------------------- MODULE MCPing --------------------------------
(* Values for the constants of Ping that a .cfg cannot write. *)
EXTENDS PingClaims

mcAnyFailure == {"send", "recv"}
mcNoFailure  == {}
==============================================================================
