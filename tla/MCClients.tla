----------------------------- MODULE MCClients -----------------------------
(***************************************************************************)
(* Clients and McpClient on small instances: two REPLs, an agent and a     *)
(* ring of two events; the handshake and two calls that overlap, a server  *)
(* that sends two requests of its own, one line of pipe.                   *)
(*                                                                         *)
(* The two share nothing.  A behaviour is one of the event queue's clients *)
(* or, with the budget Quiet, one of the MCP client.                       *)
(***************************************************************************)
EXTENDS Clients, McpClient

CONSTANTS r1, r2

Quiet == <<0, 0, 0>>

\* Two questions, a question and a background call, or a job and a call.
MCBudgets == {<<2, 0, 0>>, <<1, 0, 1>>, <<0, 1, 1>>, Quiet}

MCInit == ClientsInit /\ Init

MCNext ==
  \/ budget # Quiet /\ ClientsNext /\ UNCHANGED vars
  \/ budget = Quiet /\ Next /\ UNCHANGED talkVars

\* The side that stands still enables no action with a fairness assumption.
MCSpec == MCInit /\ [][MCNext]_<<talkVars, vars>> /\ ClientsFairness /\ Fairness
=============================================================================
