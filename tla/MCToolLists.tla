---------------------------- MODULE MCToolLists ----------------------------
(***************************************************************************)
(* One session of the HTTP server, two calls of code mode, or a peer's     *)
(* announcement, while the registry and the permissions change.            *)
(***************************************************************************)
EXTENDS ToolLists

\* One part at a time: sessions with up to three requests in flight, two
\* calls that generate shims, or the announcer with two puts at a time.
MCBudgets == {<<3, 3, 0, 0>>, <<3, 0, 2, 0>>, <<2, 0, 0, 2>>}
=============================================================================
