----------------------------- MODULE MCTunnels ------------------------------
(***************************************************************************)
(* Tunnels on a small instance: one name, one peer, two ports and a caller *)
(* whose calls overlap when a request it no longer waits for is still on   *)
(* the wire.  What two callers do at a time, TunnelsProofs covers.         *)
(***************************************************************************)
EXTENDS Tunnels
=============================================================================
