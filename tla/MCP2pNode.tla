----------------------------- MODULE MCP2pNode -----------------------------
(***************************************************************************)
(* P2pNode on a small instance: a relay that is also the bootstrap peer,   *)
(* and another node.                                                       *)
(***************************************************************************)
EXTENDS P2pNode

CONSTANTS relay, peer

\* Two connections at a time and no request, one of each, or two requests.
MCBudgets == {<<2, 0>>, <<1, 1>>, <<0, 2>>}
=============================================================================
